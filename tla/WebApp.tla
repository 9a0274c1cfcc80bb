------------------------------- MODULE WebApp -------------------------------
(***************************************************************************)
(* A web application: agilang/web.py's WebApp.handle between the server's  *)
(* threads and the browsers, with the sessions that login_user, logout_user*)
(* and auth_required keep in a signed cookie, csrf_protect, and            *)
(* security.py's body_limit and security_headers.  ThreadedWebServer is    *)
(* started and stopped while requests are in progress.                     *)
(*                                                                         *)
(* A request passes the before handlers, the static mounts, the middleware *)
(* of the first route that matches, its handler, and the after handlers.   *)
(* The application's own steps answer, pass or raise as they like.         *)
(***************************************************************************)
EXTENDS Integers, SequencesExt, FiniteSets

CONSTANTS
  Threads,       \* the server's handler threads
  WebRequests,   \* [browser, method, path, csrf: a valid token is supplied, big]
  Before, After, \* sequences of steps
  Routes,        \* sequence of [method, paths, middleware, deed]
  StaticPaths,   \* what the static mounts cover
  Users, MaxAge,
  SignedIn,      \* the browsers that have logged in before
  MaxClock, MaxRuns, MaxRequests      \* bounds of the exploration

Nobody == "nobody"
Steps == {"body_limit", "auth_required", "csrf_protect", "security_headers", "own"}
ASSUME WebAssumption ==
  /\ Before \in Seq(Steps) /\ After \in Seq({"security_headers", "own"})
  /\ \A i \in DOMAIN Routes : Routes[i].middleware \in Seq(Steps) /\ Routes[i].deed \in {"login", "logout", "page"}
  /\ Routes \in Seq({Routes[i] : i \in DOMAIN Routes})
  /\ Nobody \notin Users /\ MaxAge \in Nat /\ MaxClock \in Nat /\ MaxRuns \in Nat /\ MaxRequests \in Nat

VARIABLES clock, jar, logins, thread, served, httpd, loop, stopping, runs

webVars == <<clock, jar, logins, thread, served, httpd, loop, stopping, runs>>
-----------------------------------------------------------------------------
Browsers == {q.browser : q \in WebRequests}
NoToken == [user |-> Nobody, iat |-> 0]
KeepCookie == [user |-> Nobody, iat |-> -1]       \* a response without Set-Cookie
Own == {"own"}                              \* steps of the application
Raising == {"HTTPError", "Exception"}
Verdicts == {"pass", "answer"} \cup Raising

\* Mutant of VerifyCookie: the age is not looked at.
VerifyCookieAnyAge(token) == TRUE

\* verify_cookie of a token the application signed
VerifyCookie(token) == clock - token.iat <= MaxAge
CurrentUser(token) == IF token # NoToken /\ VerifyCookie(token) THEN token.user ELSE Nobody

Verdict(step, q, own) ==
  CASE step = "body_limit" -> IF q.big THEN "too large" ELSE "pass"
    [] step = "auth_required" -> IF CurrentUser(q.token) = Nobody THEN "unauthorized" ELSE "pass"
    [] step = "csrf_protect" -> IF q.method \in {"POST", "PUT", "PATCH", "DELETE"} /\ ~q.csrf
                                THEN "forbidden" ELSE "pass"
    [] step = "security_headers" -> "pass"
    [] step \in Own -> own

\* The steps are called up to the first that does not pass.
Stops(steps, q, own) == {i \in DOMAIN steps : Verdict(steps[i], q, own) # "pass"}
Called(steps, q, own) == SubSeq(steps, 1, Min(Stops(steps, q, own) \cup {Len(steps)}))
Outcome(steps, q, own) ==
  IF Stops(steps, q, own) = {} THEN "pass" ELSE Verdict(steps[Min(Stops(steps, q, own))], q, own)

Matching(q) == {i \in DOMAIN Routes : q.path \in Routes[i].paths /\ Routes[i].method \in {q.method, "ANY"}}
RouteOf(q) == Routes[Min(Matching(q))]

Answer(status) == [status |-> status, cookie |-> KeepCookie]
At(pc, q, ran, status) == [pc |-> pc, req |-> q, ran |-> ran, user |-> Nobody, seen |-> 0, resp |-> Answer(status)]
NoRequest == At("idle", [browser |-> "none"], <<>>, "none")
-----------------------------------------------------------------------------
WebInit ==
  /\ clock = 0 /\ served = 0 /\ runs = 0
  /\ \E u \in Users :
       /\ jar = [b \in Browsers |-> IF b \in SignedIn THEN [user |-> u, iat |-> 0] ELSE NoToken]
       /\ logins = {[browser |-> b, user |-> u, at |-> 0] : b \in SignedIn}
  /\ thread = [t \in Threads |-> NoRequest]
  /\ httpd = "none" /\ loop = "off" /\ stopping = FALSE

\* What a before handler answers is written; what it raises loses the connection.
BeforeHandlers(q, own) ==
  LET out == Outcome(Before, q, own) IN
  At(IF out \in Raising THEN "dead" ELSE "write", q, Called(Before, q, own), out)

\* _try_static; a file that vanishes between the test and the reading raises.
TryStatic(q, own) ==
  {At("write", q, Before, s) : s \in {"file", "not found", "forbidden"}} \cup {At("dead", q, Before, "none")}

AfterGuard(out) == CASE out = "pass" -> "handler" [] out \in Raising -> "after" [] OTHER -> "write"
RunMiddleware(q, own) ==
  LET mw == RouteOf(q).middleware
      out == Outcome(mw, q, own)
      guarded == Contains(Called(mw, q, own), "auth_required") IN
  [At(AfterGuard(out), q, Before \o Called(mw, q, own), out) EXCEPT
     !.seen = clock, !.user = IF guarded THEN CurrentUser(q.token) ELSE Nobody]

\* handle up to the handler: before handlers, static mounts, the first route
Dispatched(q, own) ==
  IF Outcome(Before, q, own) # "pass" THEN {BeforeHandlers(q, own)}
  ELSE IF q.method \in {"GET", "HEAD"} /\ q.path \in StaticPaths THEN TryStatic(q, own)
  ELSE IF Matching(q) = {} THEN {At("write", q, Before, "not found")}
  ELSE {RunMiddleware(q, own)}

\* A browser sends its cookie with its request.
Dispatch(t) ==
  /\ loop = "on" /\ thread[t].pc = "idle" /\ served < MaxRequests
  /\ \E q \in WebRequests, own \in Verdicts :
       LET req == [browser |-> q.browser, method |-> q.method, path |-> q.path,
                   csrf |-> q.csrf, big |-> q.big, token |-> jar[q.browser]] IN
       \E r \in Dispatched(req, own) : thread' = [thread EXCEPT ![t] = r]
  /\ served' = served + 1
  /\ UNCHANGED <<clock, jar, logins, httpd, loop, stopping, runs>>

\* sign_cookie in login_user, an empty cookie in logout_user
Cookies(deed) ==
  CASE deed = "login" -> {[user |-> u, iat |-> clock] : u \in Users}
    [] deed = "logout" -> {NoToken}
    [] OTHER -> {KeepCookie}

\* A page may also raise, or return what json.dumps refuses ("odd").
RunHandler(t) ==
  LET r == thread[t]
      deed == RouteOf(r.req).deed
      done(s, c) == thread' = [thread EXCEPT ![t] = [r EXCEPT !.pc = "after", !.ran = Append(r.ran, deed),
                                                             !.resp = [status |-> s, cookie |-> c]]] IN
  /\ r.pc = "handler"
  /\ \/ \E c \in Cookies(deed) :
          /\ done("ok", c)
          /\ logins' = IF deed = "login" THEN logins \cup {[browser |-> r.req.browser, user |-> c.user, at |-> clock]}
                       ELSE logins
     \/ deed = "page" /\ (\E s \in Raising \cup {"odd"} : done(s, KeepCookie)) /\ UNCHANGED logins
  /\ UNCHANGED <<clock, jar, served, httpd, loop, stopping, runs>>

\* The after handlers, if the route came to its end, and the answer.
WriteAnswer(t) ==
  LET r == thread[t] IN
  /\ r.pc \in {"after", "write"}
  /\ \E raises \in {b \in BOOLEAN : r.pc = "after" \/ ~b} :
       LET own == IF raises THEN "Exception" ELSE "pass"
           lost == raises \/ r.resp.status = "odd" IN
       /\ thread' = [thread EXCEPT ![t] = [r EXCEPT
            !.ran = IF r.pc = "after" THEN r.ran \o Called(After, r.req, own) ELSE r.ran,
            !.pc = IF lost THEN "dead" ELSE "answered"]]
       /\ jar' = IF lost \/ r.resp.cookie = KeepCookie THEN jar ELSE [jar EXCEPT ![r.req.browser] = r.resp.cookie]
  /\ UNCHANGED <<clock, logins, served, httpd, loop, stopping, runs>>

FinishRequest(t) ==
  /\ thread[t].pc \in {"answered", "dead"} /\ thread' = [thread EXCEPT ![t] = NoRequest]
  /\ UNCHANGED <<clock, jar, logins, served, httpd, loop, stopping, runs>>
-----------------------------------------------------------------------------
\* run_background: _httpd is made once, never again
RunBackground ==
  /\ loop \in {"off", "ended"} /\ ~stopping /\ runs < MaxRuns
  /\ runs' = runs + 1 /\ loop' = "starting"
  /\ httpd' = IF httpd = "none" THEN "open" ELSE httpd
  /\ UNCHANGED <<clock, jar, logins, thread, served, stopping>>

\* a selector does not take the closed socket: the thread ends
ServeForever ==
  /\ loop = "starting" /\ loop' = IF httpd = "open" THEN "on" ELSE "ended"
  /\ UNCHANGED <<clock, jar, logins, thread, served, httpd, stopping, runs>>

\* stop asks the loop to end ...
AskToStop ==
  /\ httpd # "none" /\ loop # "off" /\ ~stopping /\ stopping' = TRUE
  /\ UNCHANGED <<clock, jar, logins, thread, served, httpd, loop, runs>>

LoopEnds ==
  /\ stopping /\ loop = "on" /\ loop' = "ended"
  /\ UNCHANGED <<clock, jar, logins, thread, served, httpd, stopping, runs>>

\* ... waits until it has, and closes the socket
LoopGone == loop = "ended"
ServerClose ==
  /\ stopping /\ LoopGone
  /\ stopping' = FALSE /\ httpd' = "closed"
  /\ UNCHANGED <<clock, jar, logins, thread, served, loop, runs>>

ClockTicks ==
  /\ clock < MaxClock /\ clock' = clock + 1
  /\ UNCHANGED <<jar, logins, thread, served, httpd, loop, stopping, runs>>
-----------------------------------------------------------------------------
Handling(t) == RunHandler(t) \/ WriteAnswer(t) \/ FinishRequest(t)

WebNext ==
  \/ \E t \in Threads : Dispatch(t) \/ Handling(t)
  \/ RunBackground \/ ServeForever \/ AskToStop \/ LoopEnds \/ ServerClose \/ ClockTicks

\* The serving thread and the one that stops it are scheduled; nobody must call,
\* nor stop, no request need end, nor does time pass.
WebFairness == WF_webVars(ServeForever \/ LoopEnds \/ ServerClose)
-----------------------------------------------------------------------------
WebTypeOK ==
  /\ clock \in 0 .. MaxClock /\ served \in 0 .. MaxRequests /\ runs \in 0 .. MaxRuns
  /\ \A b \in Browsers : jar[b] = NoToken \/ jar[b] \in [user : Users, iat : 0 .. MaxClock]
  /\ \A t \in Threads : thread[t].pc \in {"idle", "handler", "after", "write", "answered", "dead"}
  /\ httpd \in {"none", "open", "closed"} /\ loop \in {"off", "starting", "on", "ended"} /\ stopping \in BOOLEAN

Guards(q) == Before \o RouteOf(q).middleware
WholeRoute(q) == Append(Guards(q), RouteOf(q).deed)

\* A handler runs once, after every step before it has let the request pass, and
\* what a route returned or raised, and nothing else, has gone through the after
\* handlers before the browser gets it (web.py:314-348).
PipelineInOrder ==
  \A t \in Threads : LET r == thread[t] IN
    /\ r.pc = "handler" => r.ran = Guards(r.req)
    /\ r.pc = "answered" /\ r.resp.status = "ok" => r.ran = WholeRoute(r.req) \o After
    /\ r.pc = "answered" /\ r.resp.status \in Raising =>
         \E n \in Len(Before) .. Len(WholeRoute(r.req)) : r.ran = SubSeq(WholeRoute(r.req), 1, n) \o After
    /\ r.pc = "answered" /\ r.resp.status \notin Raising \cup {"ok"} =>
         IsPrefix(r.ran, Before) \/ (Matching(r.req) # {} /\ IsPrefix(r.ran, Guards(r.req)))

\* The user a handler sees has logged in from this browser, no longer ago than
\* the cookie lasts, and the server checked it for this request (web.py:1099,
\* 1117).
SessionsSound ==
  \A t \in Threads : thread[t].user # Nobody =>
    \E l \in logins : /\ l.browser = thread[t].req.browser /\ l.user = thread[t].user
                      /\ thread[t].seen - l.at <= MaxAge

\* Whoever stops the server is not held up by the requests in progress, nor by a
\* serving thread that found the socket closed (web.py:413).
WebEnds == stopping ~> ~stopping
-----------------------------------------------------------------------------
(***************************************************************************)
(* HTTPClient.request of agilang/http_query.py: the URL is validated once; *)
(* an answer below 500 ends the call, an error of the server or of the     *)
(* connection is retried after a pause, and the last error of the server   *)
(* is the answer.  urlopen follows redirects by itself, to wherever they   *)
(* lead.  What is neither an OSError nor raised in the try, such as an     *)
(* error that stops exc.read, leaves the call at once.  The server may     *)
(* carry a request out after the client has given it up.  A name is taken  *)
(* to resolve alike when it is validated and when it is used.              *)
(***************************************************************************)

CONSTANTS Destinations,     \* what a URL may name: "public", "private", "unresolved", "ftp"
          AllowPrivate, Retries,
          MaxHops           \* the redirects urlopen follows in one attempt

ASSUME HTTPAssumption == Retries \in Nat /\ MaxHops \in Nat

VARIABLES httpCall,    \* the call: its state, its attempt, where that has been led, what it returned
          onTheWay,    \* requests the server has not yet carried out
          done         \* requests it has carried out, with its answers
httpVars == <<httpCall, onTheWay, done>>
-----------------------------------------------------------------------------
Attempts == Retries + 1
Hosts == {"public", "private"}
Replies == {"2xx", "3xx", "4xx", "5xx"}
Final(reply, attempt) == reply # "5xx" \/ attempt + 1 >= Attempts

HTTPInit ==
  /\ \E d \in Destinations :
       httpCall = [pc |-> "new", url |-> d, at |-> d, attempt |-> 0, hop |-> 0, returned |-> "nothing"]
  /\ onTheWay = {} /\ done = {}

Returns(what) == httpCall' = [httpCall EXCEPT !.pc = "end", !.returned = what]
Blocked(d) == d = "ftp" \/ (~AllowPrivate /\ d \in {"private", "unresolved"})
Request == [attempt |-> httpCall.attempt, hop |-> httpCall.hop, at |-> httpCall.at]

ValidateUrl ==
  /\ httpCall.pc = "new"
  /\ IF Blocked(httpCall.url) THEN Returns("refused") ELSE httpCall' = [httpCall EXCEPT !.pc = "send"]
  /\ UNCHANGED <<onTheWay, done>>

\* urlopen: the request is on its way, or no connection is made
SendRequest ==
  /\ httpCall.pc = "send"
  /\ httpCall' = [httpCall EXCEPT !.pc = "wait"]
  /\ \/ httpCall.at \in Hosts /\ onTheWay' = onTheWay \cup {Request}
     \/ UNCHANGED onTheWay
  /\ UNCHANGED done

\* the server, late or not
CarryOut(r) ==
  /\ r \in onTheWay /\ onTheWay' = onTheWay \ {r}
  /\ \E reply \in Replies : done' = done \cup {[request |-> r, reply |-> reply]}
  /\ UNCHANGED httpCall

\* the redirect handler of urllib, within urlopen: nothing validates where it goes
FollowRedirect ==
  /\ httpCall.pc = "wait" /\ httpCall.hop < MaxHops
  /\ [request |-> Request, reply |-> "3xx"] \in done
  /\ \E to \in Destinations : httpCall' = [httpCall EXCEPT !.pc = "send", !.at = to, !.hop = @ + 1]
  /\ UNCHANGED <<onTheWay, done>>

\* a redirect that is not followed (its method, a loop) is an answer like others
ReadAnswer ==
  /\ httpCall.pc = "wait"
  /\ \E d \in done :
       /\ d.request = Request
       /\ \/ Returns("too large")
          \/ IF Final(d.reply, httpCall.attempt) THEN Returns(d.reply)
             ELSE httpCall' = [httpCall EXCEPT !.pc = "pause"]
  /\ UNCHANGED <<onTheWay, done>>

\* URLError, a timeout: the answer, if there is one, is lost
ConnectionFails ==
  /\ httpCall.pc = "wait"
  /\ IF httpCall.attempt + 1 >= Attempts THEN Returns("failed")
     ELSE httpCall' = [httpCall EXCEPT !.pc = "pause"]
  /\ UNCHANGED <<onTheWay, done>>

\* an HTTPException, or any error while the body of an HTTPError is read
LeavesAtOnce ==
  /\ httpCall.pc = "wait" /\ Returns("raised")
  /\ UNCHANGED <<onTheWay, done>>

Backoff ==
  /\ httpCall.pc = "pause"
  /\ httpCall' = [httpCall EXCEPT !.pc = "send", !.at = httpCall.url, !.attempt = @ + 1, !.hop = 0]
  /\ UNCHANGED <<onTheWay, done>>

Client == ValidateUrl \/ SendRequest \/ FollowRedirect \/ ReadAnswer \/ ConnectionFails \/ LeavesAtOnce \/ Backoff
HTTPNext == Client \/ \E r \in onTheWay : CarryOut(r)

\* The client runs, and its wait ends.  The timeout is urllib's, of one operation
\* of the socket: that a server which sends a little at a time ends too, or sends
\* as much as the client reads, is assumed.
HTTPFairness == WF_httpVars(Client)
-----------------------------------------------------------------------------
\* The answer that is returned is what a server said to the last request of the
\* last attempt.  A call that reports an error of the server, or that it failed
\* after its attempts, has made all of them; one that raises or reads too much
\* need not have.  No request is carried out twice, none before it was sent.  An
\* attempt starts where the caller said, at a destination that was validated;
\* it goes elsewhere, to a private host even, only where the answer to its last
\* request, a redirect, has led it (http_query.py:118-212).
AnswersTrue ==
  /\ httpCall.returned \in Replies => [request |-> Request, reply |-> httpCall.returned] \in done
  /\ httpCall.returned \in {"5xx", "failed"} => httpCall.attempt = Retries
  /\ \A d \in done : d.request \notin onTheWay /\ \A e \in done : e.request = d.request => e = d
  /\ \A d \in done :
       /\ d.request.attempt <= httpCall.attempt
       /\ d.request.attempt = httpCall.attempt => d.request.hop <= httpCall.hop
       /\ d.request.hop = 0 => d.request.at = httpCall.url /\ ~Blocked(httpCall.url)
       /\ d.request.hop > 0 => \E e \in done : /\ e.reply = "3xx" /\ e.request.attempt = d.request.attempt
                                               /\ e.request.hop = d.request.hop - 1
  /\ httpCall.returned = "refused" => done = {} /\ onTheWay = {}

\* Every call returns.
HTTPReturns == httpCall.pc = "new" ~> httpCall.pc = "end"
=============================================================================
