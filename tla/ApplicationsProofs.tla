------------------------- MODULE ApplicationsProofs -------------------------
(***************************************************************************)
(* What applications may rely on, proved for any number of processes,      *)
(* packages, threads, browsers, handlers and frames: package manifests,    *)
(* HTTP calls, publications, requests and sessions, WebSocket frames and   *)
(* generated projects, each alone and side by side in MCApplications.      *)
(***************************************************************************)
EXTENDS MCApplications, SequenceTheorems, FiniteSetTheorems, WellFoundedInduction, TLAPS

-----------------------------------------------------------------------------
(***************************************************************************)
(* The manifest and its lock (pkg.py).                                     *)
(***************************************************************************)

ManifestRecord == [project : SUBSET ProjectKeys, deps : SUBSET Packages]
CommandRecord ==
  [pc : {"none", "truncate", "write", "lock"}, name : {"none", "killed", "add", "remove", "install"},
   of : Packages \cup {"none"}, manifest : ManifestRecord]

\* What is written, or held in memory to be written, was asked for.
AskedFor ==
  /\ toml.deps \cup lock.deps \subseteq asked
  /\ \A p \in Processes : command[p].manifest.deps \subseteq asked

\* A command that runs alone and comes to the lock has the file's manifest, up to
\* the keys it has dropped from the file.
AloneInStep ==
  single =>
    /\ \A p, q \in Processes : command[p].pc # "none" /\ command[q].pc # "none" => p = q
    /\ \A p \in Processes : command[p].pc = "lock" => Follows(command[p].manifest, toml)
    /\ \A p \in Processes : command[p].name = "install" /\ command[p].pc # "none" =>
         command[p].pc = "lock" /\ command[p].manifest = toml

ManifestInv ==
  /\ toml \in ManifestRecord /\ lock \in ManifestRecord /\ command \in [Processes -> CommandRecord]
  /\ single \in BOOLEAN
  /\ AskedFor /\ AloneInStep

\* Nothing is asked for and no command runs at first.
LEMMA ManifestInvInit == ManifestInit => ManifestInv
<1> SUFFICES ASSUME ManifestInit PROVE ManifestInv
  OBVIOUS
<1>1. Truncated \in ManifestRecord /\ NoCommand \in CommandRecord
  BY DEF Truncated, NoCommand, ManifestRecord, CommandRecord
<1>2. toml \in ManifestRecord /\ lock \in ManifestRecord /\ toml.deps = {} /\ lock.deps = {}
  BY <1>1 DEF ManifestInit, ManifestRecord, ProjectKeys, Truncated
<1>3. \A p \in Processes : command[p] = NoCommand
  BY DEF ManifestInit
<1>4. AskedFor /\ AloneInStep
  BY <1>2, <1>3 DEF ManifestInit, AskedFor, AloneInStep, NoCommand, Truncated
<1> QED BY <1>1, <1>2, <1>4 DEF ManifestInit, ManifestInv

\* The manifest a command makes of another one has the dependencies of that
\* one and the package added.
LEMMA ChangedDeps ==
  ASSUME NEW m \in ManifestRecord, NEW k \in Packages, NEW name \in {"add", "remove", "install"}
  PROVE  /\ Changed(name, m, k) \in ManifestRecord
         /\ Changed(name, m, k).deps \subseteq (IF name = "add" THEN m.deps \cup {k} ELSE m.deps)
         /\ name = "install" => Changed(name, m, k) = m
<1>1. CASE name = "add"
  BY <1>1 DEF Changed, ManifestRecord
<1>2. CASE name = "remove"
  BY <1>2 DEF Changed, ManifestRecord
<1>3. CASE name = "install"
  BY <1>3 DEF Changed, ManifestRecord
<1> QED BY <1>1, <1>2, <1>3

\* A command begins with what is in the file.
LEMMA BeginCommandKeeps ==
  ASSUME ManifestInv, NEW p \in Processes, BeginCommand(p)
  PROVE  ManifestInv'
<1>1. PICK name \in {"add", "remove", "install"}, k \in Packages :
        /\ Goes(p, [pc |-> FirstStep(name), name |-> name, of |-> k, manifest |-> Changed(name, toml, k)])
        /\ asked' = IF name = "add" THEN asked \cup {k} ELSE asked
  BY DEF BeginCommand
<1> DEFINE m == Changed(name, toml, k)
           c == [pc |-> FirstStep(name), name |-> name, of |-> k, manifest |-> m]
<1>2. /\ m \in ManifestRecord
      /\ m.deps \subseteq (IF name = "add" THEN toml.deps \cup {k} ELSE toml.deps)
      /\ name = "install" => m = toml
  BY ChangedDeps DEF ManifestInv
<1> HIDE DEF m
<1>3. FirstStep(name) \in {"truncate", "lock"} /\ (FirstStep(name) = "lock" => name = "install")
  BY DEF FirstStep
<1>4. c \in CommandRecord /\ c.manifest = m /\ c.pc = FirstStep(name)
  BY <1>2, <1>3 DEF CommandRecord
<1> HIDE DEF c
<1>5. command' = [command EXCEPT ![p] = c]
  BY <1>1 DEF Goes, c, m
<1>6. command' \in [Processes -> CommandRecord] /\ command'[p] = c /\ \A q \in Processes \ {p} : command'[q] = command[q]
  BY <1>4, <1>5 DEF ManifestInv
<1>7. UNCHANGED <<toml, lock, single>> /\ (single => \A q \in Processes : command[q].pc = "none")
  BY DEF BeginCommand
<1>8. asked \subseteq asked' /\ m.deps \subseteq asked'
  BY <1>1, <1>2 DEF ManifestInv, AskedFor
<1>9. AskedFor'
  BY <1>4, <1>6, <1>7, <1>8 DEF ManifestInv, AskedFor
<1>10. Follows(toml, toml)
  BY DEF Follows
<1>11. c.name = name /\ (name = "install" => c.pc = "lock")
  BY <1>4 DEF c, FirstStep
<1>12. toml' = toml /\ (c.pc = "lock" => c.manifest = toml)
  BY <1>2, <1>3, <1>4, <1>7
<1>13. single' => \A q \in Processes \ {p} : command'[q].pc = "none"
  BY <1>6, <1>7
<1>14. Follows(toml, toml)'
  BY <1>10, <1>12 DEF Follows
<1>15. AloneInStep'
  BY <1>2, <1>4, <1>6, <1>11, <1>12, <1>13, <1>14 DEF AloneInStep
<1> QED BY <1>6, <1>7, <1>9, <1>15 DEF ManifestInv

\* The other steps of a command.
LEMMA CommandGoesOn ==
  ASSUME ManifestInv, NEW p \in Processes, Truncate(p) \/ WriteToml(p) \/ WriteLock(p) \/ KillCommand(p)
  PROVE  ManifestInv'
<1> DEFINE m == command[p].manifest
<1>1. Truncated \in ManifestRecord /\ Truncated.deps = {} /\ NoCommand \in CommandRecord /\ NoCommand.pc = "none"
      /\ NoCommand.manifest = Truncated
  BY DEF Truncated, NoCommand, ManifestRecord, CommandRecord
<1>2. command[p] \in CommandRecord /\ m \in ManifestRecord /\ m.deps \subseteq asked
  BY DEF ManifestInv, CommandRecord, AskedFor
<1>3. UNCHANGED <<asked, single>>
  BY DEF Truncate, WriteToml, WriteLock, KillCommand
<1>4. CASE Truncate(p) \/ WriteToml(p)
  <2> DEFINE to == IF command[p].pc = "truncate" THEN "write" ELSE "lock"
             c == [command[p] EXCEPT !.pc = to]
  <2> DEFINE rest == [m EXCEPT !.project = @ \cap WrittenKeys]
  <2>0. rest \in ManifestRecord /\ rest.deps = m.deps /\ Follows(m, rest)
    BY <1>2 DEF ManifestRecord, Follows
  <2>1. /\ command' = [command EXCEPT ![p] = c] /\ lock' = lock /\ command[p].pc # "none"
        /\ command[p].pc # "lock"
        /\ toml' = IF to = "write" THEN Truncated ELSE rest
    BY <1>4 DEF Truncate, WriteToml, Goes
  <2>2. c \in CommandRecord /\ c.manifest = m /\ c.pc = to /\ c.name = command[p].name
    BY <1>2 DEF CommandRecord
  <2> HIDE DEF c, rest
  <2>3. command' \in [Processes -> CommandRecord] /\ command'[p] = c /\ \A q \in Processes \ {p} : command'[q] = command[q]
    BY <2>1, <2>2 DEF ManifestInv
  <2>4. AskedFor' /\ toml' \in ManifestRecord
    BY <1>1, <1>2, <1>3, <2>0, <2>1, <2>2, <2>3 DEF ManifestInv, AskedFor
  <2>5. single => command[p].name # "install" /\ \A q \in Processes \ {p} : command[q].pc = "none"
    BY <2>1 DEF ManifestInv, AloneInStep
  <2>6. to = "lock" => toml' = rest
    BY <2>1
  <2>7. to = "lock" => Follows(m, toml')
    BY <2>0, <2>6 DEF Follows
  <2>8. single' => \A q \in Processes \ {p} : command'[q].pc = "none"
    BY <1>3, <2>3, <2>5
  <2>9. AloneInStep'
    BY <1>3, <2>2, <2>3, <2>5, <2>7, <2>8 DEF AloneInStep, Follows
  <2> QED BY <1>3, <2>1, <2>3, <2>4, <2>9 DEF ManifestInv
<1>5. CASE WriteLock(p) \/ KillCommand(p)
  <2>1. PICK c \in {NoCommand, [NoCommand EXCEPT !.name = "killed"]} :
          command' = [command EXCEPT ![p] = c] /\ toml' = toml /\ lock' \in {lock, m}
    BY <1>5 DEF WriteLock, KillCommand, Goes, Locked
  <2>2. c \in CommandRecord /\ c.manifest = Truncated /\ c.pc = "none"
    BY <1>1 DEF CommandRecord, NoCommand
  <2>3. command' \in [Processes -> CommandRecord] /\ command'[p] = c /\ \A q \in Processes \ {p} : command'[q] = command[q]
    BY <2>1, <2>2 DEF ManifestInv
  <2>4. AskedFor' /\ lock' \in ManifestRecord
    BY <1>1, <1>2, <1>3, <2>1, <2>2, <2>3 DEF ManifestInv, AskedFor
  <2>5. AloneInStep'
    BY <1>3, <2>1, <2>2, <2>3 DEF ManifestInv, AloneInStep, Follows
  <2> QED BY <1>3, <2>1, <2>3, <2>4, <2>5 DEF ManifestInv
<1> QED BY <1>4, <1>5

\* Every step of the commands keeps the invariant.
LEMMA ManifestSteps == ManifestInv /\ [ManifestNext]_manifestVars => ManifestInv'
<1>1. ASSUME ManifestInv, ManifestNext PROVE ManifestInv'
  BY <1>1, BeginCommandKeeps, CommandGoesOn DEF ManifestNext
<1>2. ASSUME ManifestInv, UNCHANGED manifestVars PROVE ManifestInv'
  BY <1>2 DEF manifestVars, ManifestInv, AskedFor, AloneInStep, Follows
<1> QED BY <1>1, <1>2

\* The lock is written with the manifest the file has, up to dropped keys.
LEMMA LockFollows ==
  ManifestInv /\ [ManifestNext]_manifestVars =>
    [\A p \in Processes : single /\ WriteLock(p) =>
       Follows(lock, toml)' /\ (command[p].name = "install" => lock' = toml')]_manifestVars
<1> SUFFICES ASSUME ManifestInv, NEW p \in Processes, single, WriteLock(p)
             PROVE  Follows(lock, toml)' /\ (command[p].name = "install" => lock' = toml')
  OBVIOUS
<1>1. command[p].pc = "lock" /\ lock' = command[p].manifest /\ toml' = toml
  BY DEF WriteLock, Locked
<1>2. Follows(command[p].manifest, toml)
  BY <1>1 DEF ManifestInv, AloneInStep
<1>3. Follows(lock, toml)'
  BY <1>1, <1>2 DEF Follows
<1>4. command[p].name = "install" => command[p].manifest = toml
  BY <1>1 DEF ManifestInv, AloneInStep
<1> QED BY <1>1, <1>3, <1>4
-----------------------------------------------------------------------------
(***************************************************************************)
(* Calls over HTTP (http_query.py).                                        *)
(***************************************************************************)

CallRecord ==
  [pc : {"new", "send", "wait", "pause", "end"}, url : Destinations \cup {"public"}, at : Destinations \cup {"public"},
   attempt : 0 .. Retries, hop : 0 .. MaxHops,
   returned : Replies \cup {"nothing", "refused", "failed", "raised", "too large"}]
RequestSet == [attempt : Nat, hop : Nat, at : Destinations \cup {"public"}]

\* The call has made a request, and is at or beyond it.
BeenSent(r) ==
  \/ r.attempt < httpCall.attempt
  \/ r.attempt = httpCall.attempt /\ r.hop < httpCall.hop
  \/ r.attempt = httpCall.attempt /\ r.hop = httpCall.hop /\ httpCall.pc \notin {"new", "send"}

\* A request goes where the caller said, or where an answer has led.
Led(r) ==
  /\ r.hop = 0 => r.at = httpCall.url /\ ~Blocked(httpCall.url)
  /\ r.hop > 0 => \E e \in done : /\ e.reply = "3xx" /\ e.request.attempt = r.attempt
                                  /\ e.request.hop = r.hop - 1

\* What has been sent was made by the call, and the server has each request once.
SentInv ==
  /\ onTheWay \subseteq RequestSet /\ done \subseteq [request : RequestSet, reply : Replies]
  /\ \A d \in done : d.request \notin onTheWay /\ \A e \in done : e.request = d.request => e = d
  /\ \A r \in onTheWay : BeenSent(r) /\ Led(r)
  /\ \A d \in done : BeenSent(d.request) /\ Led(d.request)

\* The request about to be made is one the call may make.
CurrentInv ==
  /\ httpCall.pc \in {"send", "wait"} => Led(Request)
  /\ httpCall.pc \in {"send", "wait", "pause"} => ~Blocked(httpCall.url)
  /\ httpCall.pc = "new" => httpCall.hop = 0 /\ httpCall.at = httpCall.url
  /\ httpCall.pc = "new" \/ httpCall.returned = "refused" => done = {} /\ onTheWay = {}

\* What the call has returned is the server's, and the last attempt's.
ReturnInv ==
  /\ httpCall.pc # "end" => httpCall.returned = "nothing"
  /\ httpCall.pc = "pause" => httpCall.attempt < Retries
  /\ httpCall.returned \in Replies => [request |-> Request, reply |-> httpCall.returned] \in done
  /\ httpCall.returned \in {"5xx", "failed"} => httpCall.attempt = Retries

HTTPInv == httpCall \in CallRecord /\ SentInv /\ CurrentInv /\ ReturnInv

\* Nothing is sent at first, nor where no call is made.
LEMMA HTTPInvInit == HTTPInit \/ HTTPIdle => HTTPInv
<1> SUFFICES ASSUME HTTPInit \/ HTTPIdle PROVE HTTPInv
  OBVIOUS
<1>1. /\ onTheWay = {} /\ done = {}
      /\ \E d \in Destinations \cup {"public"}, k \in {"new", "end"} :
           httpCall = [pc |-> k, url |-> d, at |-> d, attempt |-> 0, hop |-> 0, returned |-> "nothing"]
  <2>1. CASE HTTPInit
    BY <2>1 DEF HTTPInit
  <2>2. CASE HTTPIdle
    BY <2>2 DEF HTTPIdle
  <2> QED BY <2>1, <2>2
<1>a. Retries \in Nat /\ MaxHops \in Nat
  BY HTTPAssumption
<1>b. httpCall \in CallRecord
  BY <1>1, <1>a DEF CallRecord
<1>2. SentInv
  BY <1>1 DEF SentInv
<1>3. CurrentInv
  BY <1>1 DEF CurrentInv
<1>4. ReturnInv
  BY <1>1 DEF ReturnInv, Replies
<1> QED BY <1>b, <1>2, <1>3, <1>4 DEF HTTPInv

\* The fields of a call.
LEMMA CallFields ==
  ASSUME httpCall \in CallRecord
  PROVE  /\ httpCall.pc \in {"new", "send", "wait", "pause", "end"} /\ Retries \in Nat /\ MaxHops \in Nat
         /\ httpCall.attempt \in Nat /\ httpCall.attempt <= Retries /\ httpCall.hop \in Nat /\ httpCall.hop <= MaxHops
         /\ Request \in RequestSet
<1>1. /\ httpCall.attempt \in 0 .. Retries /\ httpCall.pc \in {"new", "send", "wait", "pause", "end"}
      /\ httpCall.hop \in 0 .. MaxHops /\ httpCall.at \in Destinations \cup {"public"}
  BY DEF CallRecord
<1>2. Retries \in Nat /\ MaxHops \in Nat
  BY HTTPAssumption
<1> QED BY <1>1, <1>2 DEF Request, RequestSet

\* The place of a call: what it asks, and where it is.
SamePlace == /\ httpCall'.url = httpCall.url /\ httpCall'.at = httpCall.at
             /\ httpCall'.attempt = httpCall.attempt /\ httpCall'.hop = httpCall.hop

\* A call that goes on is the same call, elsewhere.
LEMMA CallGoesOn ==
  ASSUME httpCall \in CallRecord, NEW p \in {"send", "wait", "pause"}, httpCall' = [httpCall EXCEPT !.pc = p]
  PROVE  httpCall' \in CallRecord /\ httpCall'.pc = p /\ SamePlace /\ httpCall'.returned = httpCall.returned
BY DEF CallRecord, SamePlace

\* A call that ends has returned what it says, at the request it was at.
LEMMA CallEnds ==
  ASSUME httpCall \in CallRecord, NEW w \in Replies \cup {"refused", "failed", "raised", "too large"}, Returns(w)
  PROVE  httpCall' \in CallRecord /\ httpCall'.pc = "end" /\ SamePlace /\ httpCall'.returned = w
BY DEF CallRecord, Returns, SamePlace

\* What led a request goes on leading it.
LEMMA LedStill ==
  ASSUME NEW r, Led(r), httpCall'.url = httpCall.url, done \subseteq done'
  PROVE  Led(r)'
BY DEF Led

\* A step of the client that does not go back keeps what has been sent.
LEMMA SentStill ==
  ASSUME SentInv, UNCHANGED <<onTheWay, done>>, httpCall'.url = httpCall.url,
         \A r \in RequestSet : BeenSent(r) => BeenSent(r)'
  PROVE  SentInv'
<1>1. \A r \in onTheWay' : r \in RequestSet /\ BeenSent(r)' /\ Led(r)'
  <2> SUFFICES ASSUME NEW r \in onTheWay' PROVE r \in RequestSet /\ BeenSent(r)' /\ Led(r)'
    OBVIOUS
  <2>1. r \in RequestSet /\ BeenSent(r) /\ Led(r)
    BY DEF SentInv
  <2> QED BY <2>1, LedStill
<1>2. \A d \in done' : d.request \in RequestSet /\ BeenSent(d.request)' /\ Led(d.request)'
  <2> SUFFICES ASSUME NEW d \in done' PROVE d.request \in RequestSet /\ BeenSent(d.request)' /\ Led(d.request)'
    OBVIOUS
  <2>1. PICK r : r = d.request
    OBVIOUS
  <2>2. r \in RequestSet /\ BeenSent(r) /\ Led(r)
    BY <2>1 DEF SentInv
  <2>3. BeenSent(r)' /\ Led(r)'
    BY <2>2, LedStill
  <2> QED BY <2>1, <2>2, <2>3 DEF BeenSent, Led
<1> QED BY <1>1, <1>2 DEF SentInv

\* A step of the client at the place where it is.
LEMMA PlaceStill ==
  ASSUME HTTPInv, UNCHANGED <<onTheWay, done>>, SamePlace, httpCall' \in CallRecord, httpCall'.pc # "new",
         httpCall.pc \in {"new", "send"} \/ httpCall'.pc # "send",
         httpCall'.pc \in {"send", "wait", "pause"} => ~Blocked(httpCall.url),
         httpCall'.pc \in {"send", "wait"} => Led(Request),
         httpCall'.returned = "refused" => done = {} /\ onTheWay = {}
  PROVE  SentInv' /\ CurrentInv'
<1>1. httpCall.pc \notin {"new", "send"} => httpCall'.pc \notin {"new", "send"}
  BY DEF HTTPInv, CallRecord
<1>2. \A r \in RequestSet : BeenSent(r) => BeenSent(r)'
  BY <1>1 DEF BeenSent, SamePlace
<1>3. SentInv'
  BY <1>2, SentStill DEF HTTPInv, SamePlace
<1>4. Request' = Request
  BY DEF Request, SamePlace
<1>5. httpCall'.pc \in {"send", "wait"} => Led(Request)'
  <2> SUFFICES ASSUME httpCall'.pc \in {"send", "wait"} PROVE Led(Request)'
    OBVIOUS
  <2>1. PICK r : r = Request
    OBVIOUS
  <2>2. Led(r) /\ httpCall'.url = httpCall.url
    BY <2>1 DEF SamePlace
  <2>3. Led(r)'
    BY <2>2, LedStill
  <2> QED BY <1>4, <2>1, <2>3 DEF Led
<1>6. CurrentInv'
  BY <1>5 DEF CurrentInv, SamePlace
<1> QED BY <1>3, <1>6

\* The URL is validated, once.
LEMMA ValidateKeeps ==
  ASSUME HTTPInv, ValidateUrl
  PROVE  HTTPInv'
<1>1. /\ httpCall \in CallRecord /\ httpCall.pc = "new" /\ httpCall.returned = "nothing"
      /\ httpCall.hop = 0 /\ httpCall.at = httpCall.url /\ UNCHANGED <<onTheWay, done>> /\ done = {} /\ onTheWay = {}
  BY DEF HTTPInv, CurrentInv, ReturnInv, ValidateUrl
<1>2. \/ Returns("refused")
      \/ httpCall' = [httpCall EXCEPT !.pc = "send"] /\ ~Blocked(httpCall.url)
  BY DEF ValidateUrl
<1>3. /\ httpCall' \in CallRecord /\ SamePlace
      /\ \/ httpCall'.pc = "end" /\ httpCall'.returned = "refused"
         \/ httpCall'.pc = "send" /\ httpCall'.returned = "nothing" /\ ~Blocked(httpCall.url)
  BY <1>1, <1>2, CallGoesOn, CallEnds
<1>4. httpCall'.pc = "send" => Led(Request)
  BY <1>1, <1>3 DEF Led, Request
<1>5. SentInv' /\ CurrentInv'
  BY <1>1, <1>3, <1>4, PlaceStill
<1>6. ReturnInv'
  BY <1>3 DEF ReturnInv, Replies
<1> QED BY <1>3, <1>5, <1>6 DEF HTTPInv

\* The wait for an answer ends, in an answer, a failure or a pause.
LEMMA WaitKeeps ==
  ASSUME HTTPInv, ReadAnswer \/ ConnectionFails \/ LeavesAtOnce
  PROVE  HTTPInv'
<1>1. /\ httpCall \in CallRecord /\ httpCall.pc = "wait" /\ httpCall.returned = "nothing" /\ Led(Request)
      /\ UNCHANGED <<onTheWay, done>>
  BY DEF HTTPInv, CurrentInv, ReturnInv, ReadAnswer, ConnectionFails, LeavesAtOnce
<1>2. httpCall.attempt \in Nat /\ Retries \in Nat /\ httpCall.attempt <= Retries
  BY <1>1, CallFields
<1>3. /\ httpCall' \in CallRecord /\ SamePlace
      /\ \/ httpCall'.pc = "end" /\ httpCall'.returned \in {"too large", "raised"}
         \/ httpCall'.pc = "end" /\ httpCall'.returned = "failed" /\ httpCall.attempt = Retries
         \/ /\ httpCall'.pc = "end" /\ httpCall'.returned \in Replies
            /\ [request |-> Request, reply |-> httpCall'.returned] \in done
            /\ httpCall'.returned = "5xx" => httpCall.attempt = Retries
         \/ httpCall'.pc = "pause" /\ httpCall'.returned = "nothing" /\ httpCall.attempt < Retries
  <2>1. CASE ReadAnswer
    <3>1. PICK d \in done : /\ d.request = Request
                            /\ \/ Returns("too large")
                               \/ IF Final(d.reply, httpCall.attempt) THEN Returns(d.reply)
                                  ELSE httpCall' = [httpCall EXCEPT !.pc = "pause"]
      BY <2>1 DEF ReadAnswer
    <3>2. d = [request |-> Request, reply |-> d.reply] /\ d.reply \in Replies
      BY <3>1 DEF HTTPInv, SentInv
    <3>3. /\ d.reply = "5xx" /\ Final(d.reply, httpCall.attempt) => httpCall.attempt = Retries
          /\ ~Final(d.reply, httpCall.attempt) => httpCall.attempt < Retries
      BY <1>2 DEF Final, Attempts
    <3>4. CASE Returns("too large")
      BY <1>1, <3>4, CallEnds
    <3>5. CASE Returns(d.reply) /\ Final(d.reply, httpCall.attempt)
      BY <1>1, <3>2, <3>3, <3>5, CallEnds
    <3>6. CASE httpCall' = [httpCall EXCEPT !.pc = "pause"] /\ ~Final(d.reply, httpCall.attempt)
      BY <1>1, <3>3, <3>6, CallGoesOn
    <3> QED BY <3>1, <3>4, <3>5, <3>6
  <2>2. CASE ConnectionFails
    <3>1. \/ Returns("failed") /\ httpCall.attempt = Retries
          \/ httpCall' = [httpCall EXCEPT !.pc = "pause"] /\ httpCall.attempt < Retries
      BY <1>2, <2>2 DEF ConnectionFails, Attempts
    <3> QED BY <1>1, <3>1, CallEnds, CallGoesOn
  <2>3. CASE LeavesAtOnce
    BY <1>1, <2>3, CallEnds DEF LeavesAtOnce
  <2> QED BY <2>1, <2>2, <2>3
<1>4. ~Blocked(httpCall.url)
  BY <1>1 DEF HTTPInv, CurrentInv
<1>5. SentInv' /\ CurrentInv'
  BY <1>1, <1>3, <1>4, PlaceStill DEF Replies
<1>6. Request' = Request
  BY <1>3 DEF Request, SamePlace
<1>7. ReturnInv'
  BY <1>1, <1>3, <1>6 DEF ReturnInv, SamePlace, Replies
<1> QED BY <1>3, <1>5, <1>7 DEF HTTPInv

\* A request is sent and arrives, or not.
LEMMA SendKeeps ==
  ASSUME HTTPInv, SendRequest
  PROVE  HTTPInv'
<1>1. /\ httpCall \in CallRecord /\ httpCall.pc = "send" /\ httpCall' = [httpCall EXCEPT !.pc = "wait"] /\ done' = done
      /\ onTheWay' = onTheWay \/ onTheWay' = onTheWay \cup {Request}
      /\ Led(Request) /\ ~Blocked(httpCall.url) /\ httpCall.returned = "nothing"
  BY DEF HTTPInv, SendRequest, CurrentInv, ReturnInv
<1>2. httpCall' \in CallRecord /\ httpCall'.pc = "wait" /\ SamePlace /\ httpCall'.returned = "nothing"
  BY <1>1, CallGoesOn
<1>3. /\ httpCall.attempt \in Nat /\ httpCall.hop \in Nat /\ Request \in RequestSet
      /\ Request.attempt = httpCall.attempt /\ Request.hop = httpCall.hop
  BY <1>1, CallFields DEF Request
<1>4. \A r \in RequestSet : (BeenSent(r) \/ r = Request) /\ Led(r) => BeenSent(r)' /\ Led(r)'
  <2> SUFFICES ASSUME NEW r \in RequestSet, BeenSent(r) \/ r = Request, Led(r) PROVE BeenSent(r)' /\ Led(r)'
    OBVIOUS
  <2>1. BeenSent(r)'
    BY <1>2, <1>3 DEF BeenSent, SamePlace
  <2>2. Led(r)'
    BY <1>1, <1>2, LedStill DEF SamePlace
  <2> QED BY <2>1, <2>2
<1>5. \A d \in done : d.request # Request
  BY <1>1, <1>3 DEF HTTPInv, SentInv, BeenSent
<1>6. \A r \in onTheWay' : r \in RequestSet /\ BeenSent(r)' /\ Led(r)'
  BY <1>1, <1>3, <1>4 DEF HTTPInv, SentInv
<1>7. \A d \in done' : BeenSent(d.request)' /\ Led(d.request)'
  <2> SUFFICES ASSUME NEW d \in done' PROVE BeenSent(d.request)' /\ Led(d.request)'
    OBVIOUS
  <2>1. PICK r : r = d.request
    OBVIOUS
  <2>2. r \in RequestSet /\ BeenSent(r) /\ Led(r)
    BY <1>1, <2>1 DEF HTTPInv, SentInv
  <2>3. BeenSent(r)' /\ Led(r)'
    BY <1>4, <2>2
  <2> QED BY <1>1, <2>1, <2>3 DEF BeenSent, Led
<1>8. SentInv'
  BY <1>1, <1>5, <1>6, <1>7 DEF HTTPInv, SentInv
<1>9. CurrentInv'
  <2>1. PICK r : r = Request
    OBVIOUS
  <2>2. Led(r)'
    BY <1>1, <1>3, <1>4, <2>1
  <2>3. Request' = r
    BY <1>2, <2>1 DEF Request, SamePlace
  <2>4. Led(Request)'
    BY <2>2, <2>3 DEF Led
  <2> QED BY <1>1, <1>2, <2>4 DEF CurrentInv, SamePlace
<1>10. ReturnInv'
  BY <1>2 DEF ReturnInv, Replies
<1> QED BY <1>2, <1>8, <1>9, <1>10 DEF HTTPInv

\* The client goes on to another request: where it is led, or where it began.
LEMMA NextKeeps ==
  ASSUME HTTPInv, FollowRedirect \/ Backoff
  PROVE  HTTPInv'
<1>1. /\ httpCall \in CallRecord /\ httpCall.pc \in {"wait", "pause"} /\ httpCall.returned = "nothing"
      /\ ~Blocked(httpCall.url) /\ UNCHANGED <<onTheWay, done>>
  BY DEF HTTPInv, FollowRedirect, Backoff, CurrentInv, ReturnInv
<1>2. /\ httpCall.attempt \in Nat /\ Retries \in Nat /\ httpCall.attempt <= Retries
      /\ httpCall.hop \in Nat /\ MaxHops \in Nat
  BY <1>1, CallFields
<1>3. \/ /\ httpCall'.attempt = httpCall.attempt /\ httpCall'.hop = httpCall.hop + 1 /\ httpCall'.hop \in 0 .. MaxHops
         /\ httpCall'.at \in Destinations
         /\ \E e \in done : /\ e.reply = "3xx" /\ e.request.attempt = httpCall.attempt
                           /\ e.request.hop = httpCall.hop
      \/ /\ httpCall'.attempt = httpCall.attempt + 1 /\ httpCall'.attempt \in 0 .. Retries
         /\ httpCall'.hop = 0 /\ httpCall'.at = httpCall.url
  <2>1. CASE FollowRedirect
    <3>1. PICK to \in Destinations : httpCall' = [httpCall EXCEPT !.pc = "send", !.at = to, !.hop = @ + 1]
      BY <2>1 DEF FollowRedirect
    <3>2. [request |-> Request, reply |-> "3xx"] \in done /\ httpCall.hop < MaxHops
      BY <2>1 DEF FollowRedirect
    <3>3. \E e \in done : /\ e.reply = "3xx" /\ e.request.attempt = httpCall.attempt
                          /\ e.request.hop = httpCall.hop
      BY <3>2 DEF Request
    <3>4. httpCall'.attempt = httpCall.attempt /\ httpCall'.hop = httpCall.hop + 1 /\ httpCall'.at = to
      BY <1>1, <3>1 DEF CallRecord
    <3> QED BY <1>2, <3>2, <3>3, <3>4
  <2>2. CASE Backoff
    <3>1. httpCall' = [httpCall EXCEPT !.pc = "send", !.at = httpCall.url, !.attempt = @ + 1, !.hop = 0]
      BY <2>2 DEF Backoff
    <3>2. httpCall.attempt < Retries
      BY <2>2 DEF Backoff, HTTPInv, ReturnInv
    <3>3. httpCall'.attempt = httpCall.attempt + 1 /\ httpCall'.hop = 0 /\ httpCall'.at = httpCall.url
      BY <1>1, <3>1 DEF CallRecord
    <3> QED BY <1>2, <3>2, <3>3
  <2> QED BY <2>1, <2>2
<1>4. httpCall'.pc = "send" /\ httpCall'.url = httpCall.url /\ httpCall'.returned = "nothing"
  BY <1>1 DEF FollowRedirect, Backoff, CallRecord
<1>5. httpCall' \in CallRecord
  <2>1. /\ httpCall' = [pc |-> httpCall'.pc, url |-> httpCall'.url, at |-> httpCall'.at, attempt |-> httpCall'.attempt,
                        hop |-> httpCall'.hop, returned |-> httpCall'.returned]
    BY <1>1 DEF FollowRedirect, Backoff, CallRecord
  <2>2. /\ httpCall'.attempt \in 0 .. Retries /\ httpCall'.hop \in 0 .. MaxHops
        /\ httpCall'.at \in Destinations \cup {"public"} /\ httpCall'.url \in Destinations \cup {"public"}
    <3>1. /\ httpCall.url \in Destinations \cup {"public"} /\ httpCall.attempt \in 0 .. Retries
      BY <1>1 DEF CallRecord
    <3>a. 0 \in 0 .. MaxHops
      BY <1>2
    <3>2. httpCall'.attempt \in 0 .. Retries /\ httpCall'.hop \in 0 .. MaxHops
      BY <1>3, <3>1, <3>a
    <3>3. httpCall'.at \in Destinations \cup {"public"}
      BY <1>3, <3>1
    <3> QED BY <1>4, <3>1, <3>2, <3>3
  <2> QED BY <1>4, <2>1, <2>2 DEF CallRecord
<1>6. \A r \in RequestSet : BeenSent(r) => BeenSent(r)'
  BY <1>2, <1>3 DEF BeenSent, RequestSet
<1>7. SentInv'
  BY <1>1, <1>4, <1>6, SentStill DEF HTTPInv
<1>8. Led(Request)'
  BY <1>1, <1>2, <1>3, <1>4 DEF Led, Request
<1>9. CurrentInv'
  BY <1>1, <1>4, <1>8 DEF CurrentInv
<1>10. ReturnInv'
  BY <1>4 DEF ReturnInv, Replies
<1> QED BY <1>5, <1>7, <1>9, <1>10 DEF HTTPInv

\* The server carries out what is on its way, late or not.
LEMMA CarryOutKeeps ==
  ASSUME HTTPInv, NEW r \in onTheWay, CarryOut(r)
  PROVE  HTTPInv'
<1>1. PICK reply \in Replies : done' = done \cup {[request |-> r, reply |-> reply]}
  BY DEF CarryOut
<1>2. onTheWay' = onTheWay \ {r} /\ httpCall' = httpCall /\ httpCall \in CallRecord
  BY DEF CarryOut, HTTPInv
<1>3. \A q : (Led(q) => Led(q)') /\ (BeenSent(q) => BeenSent(q)')
  BY <1>1, <1>2 DEF Led, BeenSent
<1>4. r \in RequestSet /\ BeenSent(r) /\ Led(r) /\ \A d \in done : d.request # r
  BY DEF HTTPInv, SentInv
<1>5. \A q \in onTheWay' : q \in RequestSet /\ BeenSent(q)' /\ Led(q)'
  BY <1>2, <1>3 DEF HTTPInv, SentInv
<1>6. \A d \in done' : BeenSent(d.request)' /\ Led(d.request)'
  <2> SUFFICES ASSUME NEW d \in done' PROVE BeenSent(d.request)' /\ Led(d.request)'
    OBVIOUS
  <2>1. PICK q : q = d.request
    OBVIOUS
  <2>2. BeenSent(q) /\ Led(q)
    BY <1>1, <1>4, <2>1 DEF HTTPInv, SentInv
  <2>3. BeenSent(q)' /\ Led(q)'
    BY <1>3, <2>2
  <2> QED BY <2>1, <2>3 DEF BeenSent, Led
<1>7. /\ done' \subseteq [request : RequestSet, reply : Replies]
      /\ \A d \in done' : d.request \notin onTheWay' /\ \A e \in done' : e.request = d.request => e = d
  <2>1. [request |-> r, reply |-> reply] \in [request : RequestSet, reply : Replies]
    BY <1>4
  <2> QED BY <1>1, <1>2, <1>4, <2>1 DEF HTTPInv, SentInv
<1>8. SentInv'
  BY <1>5, <1>6, <1>7 DEF SentInv
<1>9. CurrentInv'
  <2>1. PICK q : q = Request
    OBVIOUS
  <2>2. Request' = q
    BY <1>2, <2>1 DEF Request
  <2>3. httpCall.pc \in {"send", "wait"} => Led(q)'
    BY <1>3, <2>1 DEF HTTPInv, CurrentInv
  <2>4. httpCall.pc \in {"send", "wait"} => Led(Request)'
    BY <2>2, <2>3 DEF Led
  <2>5. httpCall.pc # "new" /\ httpCall.returned # "refused"
    BY DEF HTTPInv, CurrentInv
  <2> QED BY <1>2, <2>4, <2>5 DEF HTTPInv, CurrentInv
<1>10. ReturnInv'
  BY <1>1, <1>2 DEF HTTPInv, ReturnInv, Request
<1> QED BY <1>2, <1>8, <1>9, <1>10 DEF HTTPInv

\* Every step of a call keeps the invariant.
LEMMA HTTPSteps == HTTPInv /\ [HTTPNext]_httpVars => HTTPInv'
<1>1. ASSUME HTTPInv, HTTPNext PROVE HTTPInv'
  BY <1>1, ValidateKeeps, WaitKeeps, SendKeeps, NextKeeps, CarryOutKeeps DEF HTTPNext, Client
<1>2. ASSUME HTTPInv, UNCHANGED httpVars PROVE HTTPInv'
  BY <1>2 DEF httpVars, HTTPInv, SentInv, CurrentInv, ReturnInv, BeenSent, Led, Request
<1> QED BY <1>1, <1>2

\* The invariant is what the caller relies on.
LEMMA HTTPInvTrue == HTTPInv => AnswersTrue
<1> SUFFICES ASSUME HTTPInv PROVE AnswersTrue
  OBVIOUS
<1>1. httpCall.attempt \in Nat /\ httpCall.hop \in Nat
  BY CallFields DEF HTTPInv
<1>2. \A d \in done :
        /\ d.request.attempt <= httpCall.attempt
        /\ d.request.attempt = httpCall.attempt => d.request.hop <= httpCall.hop
  BY <1>1 DEF HTTPInv, SentInv, BeenSent, RequestSet
<1>3. \A d \in done : Led(d.request)
  BY DEF HTTPInv, SentInv
<1> QED BY <1>2, <1>3 DEF HTTPInv, SentInv, CurrentInv, ReturnInv, Led, AnswersTrue
-----------------------------------------------------------------------------
(***************************************************************************)
(* Publications (realtime.py).                                             *)
(***************************************************************************)

Distinct(s) == \A i, j \in DOMAIN s : s[i] = s[j] => i = j

\* The rest of a sequence without repetitions has not its head.
LEMMA DistinctRest ==
  ASSUME NEW S, NEW s \in Seq(S), s # <<>>, Distinct(s)
  PROVE  /\ Head(s) \in S /\ Tail(s) \in Seq(S) /\ Distinct(Tail(s)) /\ Len(s) = Len(Tail(s)) + 1
         /\ ToSet(Tail(s)) = ToSet(s) \ {Head(s)} /\ Head(s) \in ToSet(s)
<1>1. /\ Len(s) \in Nat /\ Len(s) >= 1 /\ DOMAIN s = 1 .. Len(s) /\ Head(s) = s[1] /\ Tail(s) \in Seq(S)
      /\ Len(Tail(s)) = Len(s) - 1 /\ DOMAIN Tail(s) = 1 .. Len(s) - 1
      /\ \A i \in 1 .. Len(s) - 1 : Tail(s)[i] = s[i + 1]
  OBVIOUS
<1>2. Distinct(Tail(s))
  BY <1>1 DEF Distinct
<1>3. ASSUME NEW x PROVE x \in ToSet(Tail(s)) <=> x \in ToSet(s) \ {Head(s)}
  <2>1. ASSUME NEW i \in 1 .. Len(s) - 1, x = Tail(s)[i] PROVE x \in ToSet(s) \ {Head(s)}
    BY <1>1, <2>1 DEF ToSet, Distinct
  <2>2. ASSUME NEW i \in 1 .. Len(s), x = s[i], x # Head(s) PROVE x \in ToSet(Tail(s))
    <3>1. i - 1 \in 1 .. Len(s) - 1 /\ Tail(s)[i - 1] = x
      BY <1>1, <2>2
    <3> QED BY <1>1, <3>1 DEF ToSet
  <2> QED BY <1>1, <2>1, <2>2 DEF ToSet
<1> QED BY <1>1, <1>2, <1>3 DEF ToSet

\* Two sequences without repetitions that have nothing in common.
LEMMA DistinctJoin ==
  ASSUME NEW S, NEW s \in Seq(S), NEW t \in Seq(S), Distinct(s), Distinct(t), ToSet(s) \cap ToSet(t) = {}
  PROVE  s \o t \in Seq(S) /\ Distinct(s \o t) /\ ToSet(s \o t) = ToSet(s) \cup ToSet(t)
<1>1. /\ s \o t \in Seq(S) /\ Len(s) \in Nat /\ Len(t) \in Nat /\ DOMAIN s = 1 .. Len(s) /\ DOMAIN t = 1 .. Len(t)
      /\ Len(s \o t) = Len(s) + Len(t) /\ DOMAIN (s \o t) = 1 .. Len(s) + Len(t)
  OBVIOUS
<1>2. /\ \A i \in 1 .. Len(s) : (s \o t)[i] = s[i]
      /\ \A i \in Len(s) + 1 .. Len(s) + Len(t) : i - Len(s) \in 1 .. Len(t) /\ (s \o t)[i] = t[i - Len(s)]
      /\ \A i \in 1 .. Len(t) : i + Len(s) \in 1 .. Len(s) + Len(t) /\ (s \o t)[i + Len(s)] = t[i]
  BY <1>1
<1>3. Distinct(s \o t)
  <2> SUFFICES ASSUME NEW i \in 1 .. Len(s) + Len(t), NEW j \in 1 .. Len(s) + Len(t), (s \o t)[i] = (s \o t)[j]
               PROVE  i = j
    BY <1>1 DEF Distinct
  <2>1. CASE i <= Len(s) /\ j <= Len(s)
    <3>1. i \in 1 .. Len(s) /\ j \in 1 .. Len(s)
      BY <1>1, <2>1
    <3> QED BY <1>1, <1>2, <3>1 DEF Distinct
  <2>2. CASE i > Len(s) /\ j > Len(s)
    <3>1. i \in Len(s) + 1 .. Len(s) + Len(t) /\ j \in Len(s) + 1 .. Len(s) + Len(t)
      BY <1>1, <2>2
    <3>2. t[i - Len(s)] = t[j - Len(s)] /\ i - Len(s) \in DOMAIN t /\ j - Len(s) \in DOMAIN t
      BY <1>1, <1>2, <3>1
    <3>3. i - Len(s) = j - Len(s)
      BY <3>2 DEF Distinct
    <3> QED BY <1>1, <3>3
  <2>3. ASSUME NEW k \in 1 .. Len(s), NEW l \in Len(s) + 1 .. Len(s) + Len(t) PROVE (s \o t)[k] # (s \o t)[l]
    BY <1>1, <1>2 DEF ToSet
  <2>4. CASE i <= Len(s) /\ j > Len(s)
    <3>1. i \in 1 .. Len(s) /\ j \in Len(s) + 1 .. Len(s) + Len(t)
      BY <1>1, <2>4
    <3> QED BY <2>3, <3>1
  <2>5. CASE i > Len(s) /\ j <= Len(s)
    <3>1. j \in 1 .. Len(s) /\ i \in Len(s) + 1 .. Len(s) + Len(t)
      BY <1>1, <2>5
    <3> QED BY <2>3, <3>1
  <2> QED BY <1>1, <2>1, <2>2, <2>4, <2>5
<1>4. ASSUME NEW x PROVE x \in ToSet(s \o t) <=> x \in ToSet(s) \cup ToSet(t)
  <2>1. ASSUME NEW i \in 1 .. Len(s) + Len(t), x = (s \o t)[i] PROVE x \in ToSet(s) \cup ToSet(t)
    <3>1. i \in 1 .. Len(s) \/ i \in Len(s) + 1 .. Len(s) + Len(t)
      BY <1>1
    <3> QED BY <1>1, <1>2, <2>1, <3>1 DEF ToSet
  <2>2. ASSUME NEW i \in 1 .. Len(s), x = s[i] PROVE x \in ToSet(s \o t)
    <3>1. i \in 1 .. Len(s) + Len(t)
      BY <1>1
    <3> QED BY <1>1, <1>2, <2>2, <3>1 DEF ToSet
  <2>3. ASSUME NEW i \in 1 .. Len(t), x = t[i] PROVE x \in ToSet(s \o t)
    BY <1>1, <1>2, <2>3 DEF ToSet
  <2> QED BY <1>1, <2>1, <2>2, <2>3 DEF ToSet
<1> QED BY <1>1, <1>3, <1>4 DEF ToSet

\* A sequence without one of its elements.
LEMMA DistinctWithout ==
  ASSUME NEW S, NEW s \in Seq(S), Distinct(s), NEW k \in DOMAIN s
  PROVE  RemoveAt(s, k) \in Seq(S) /\ Distinct(RemoveAt(s, k)) /\ ToSet(RemoveAt(s, k)) = ToSet(s) \ {s[k]}
<1> DEFINE a == SubSeq(s, 1, k - 1)
           b == SubSeq(s, k + 1, Len(s))
<1>1. Len(s) \in Nat /\ DOMAIN s = 1 .. Len(s) /\ k \in 1 .. Len(s) /\ (\A i \in 1 .. Len(s) : s[i] \in S)
  OBVIOUS
<1>2. /\ a \in Seq(S) /\ Len(a) = k - 1 /\ DOMAIN a = 1 .. k - 1 /\ \A i \in 1 .. k - 1 : a[i] = s[i]
  <2>1. 1 \in Int /\ k - 1 \in Int /\ (\A i \in 1 .. k - 1 : s[i] \in S) /\ k - 1 - 1 + 1 = k - 1
    BY <1>1
  <2>2. a \in Seq(S) /\ Len(a) = (IF 1 <= k - 1 THEN k - 1 - 1 + 1 ELSE 0) /\ \A i \in 1 .. k - 1 - 1 + 1 : a[i] = s[1 + i - 1]
    BY <2>1, SubSeqProperties
  <2> QED BY <1>1, <2>1, <2>2
<1>3. /\ b \in Seq(S) /\ Len(b) = Len(s) - k /\ DOMAIN b = 1 .. Len(s) - k /\ \A i \in 1 .. Len(s) - k : b[i] = s[k + i]
  <2>1. k + 1 \in Int /\ Len(s) \in Int /\ (\A i \in k + 1 .. Len(s) : s[i] \in S) /\ Len(s) - (k + 1) + 1 = Len(s) - k
    BY <1>1
  <2>2. /\ b \in Seq(S) /\ Len(b) = (IF k + 1 <= Len(s) THEN Len(s) - (k + 1) + 1 ELSE 0)
        /\ \A i \in 1 .. Len(s) - (k + 1) + 1 : b[i] = s[k + 1 + i - 1]
    BY <2>1, SubSeqProperties
  <2>3. Len(b) = Len(s) - k
    BY <1>1, <2>1, <2>2
  <2>4. \A i \in 1 .. Len(s) - k : k + 1 + i - 1 = k + i
    BY <1>1
  <2> QED BY <1>1, <2>1, <2>2, <2>3, <2>4
<1> HIDE DEF a, b
<1>4. Distinct(a) /\ Distinct(b)
  <2>1. ASSUME NEW i \in 1 .. k - 1, NEW j \in 1 .. k - 1, a[i] = a[j] PROVE i = j
    BY <1>1, <1>2, <2>1 DEF Distinct
  <2>2. ASSUME NEW i \in 1 .. Len(s) - k, NEW j \in 1 .. Len(s) - k, b[i] = b[j] PROVE i = j
    <3>1. s[k + i] = s[k + j] /\ k + i \in DOMAIN s /\ k + j \in DOMAIN s
      BY <1>1, <1>3, <2>2
    <3>2. k + i = k + j
      BY <3>1 DEF Distinct
    <3> QED BY <1>1, <3>2
  <2> QED BY <1>2, <1>3, <2>1, <2>2 DEF Distinct
<1>5. ToSet(a) \cap ToSet(b) = {}
  <2>1. ASSUME NEW i \in 1 .. k - 1, NEW j \in 1 .. Len(s) - k PROVE a[i] # b[j]
    <3>1. i \in DOMAIN s /\ k + j \in DOMAIN s /\ i # k + j /\ a[i] = s[i] /\ b[j] = s[k + j]
      BY <1>1, <1>2, <1>3
    <3> QED BY <3>1 DEF Distinct
  <2> QED BY <1>2, <1>3, <2>1 DEF ToSet
<1>6. ToSet(a) \cup ToSet(b) = ToSet(s) \ {s[k]}
  <2>1. ASSUME NEW i \in 1 .. k - 1 PROVE s[i] \in ToSet(s) \ {s[k]}
    BY <1>1 DEF Distinct, ToSet
  <2>2. ASSUME NEW i \in 1 .. Len(s) - k PROVE s[k + i] \in ToSet(s) \ {s[k]}
    BY <1>1 DEF Distinct, ToSet
  <2>3. ASSUME NEW i \in 1 .. Len(s), s[i] # s[k] PROVE s[i] \in ToSet(a) \cup ToSet(b)
    <3>1. CASE i < k
      <4>1. i \in 1 .. k - 1
        BY <1>1, <3>1
      <4> QED BY <1>2, <4>1 DEF ToSet
    <3>2. CASE i > k
      <4>1. i - k \in 1 .. Len(s) - k /\ s[k + (i - k)] = s[i]
        BY <1>1, <3>2
      <4> QED BY <1>3, <4>1 DEF ToSet
    <3> QED BY <1>1, <2>3, <3>1, <3>2
  <2>4. ToSet(a) \subseteq ToSet(s) \ {s[k]}
    BY <1>2, <2>1 DEF ToSet
  <2>5. ToSet(b) \subseteq ToSet(s) \ {s[k]}
    BY <1>3, <2>2 DEF ToSet
  <2>6. ToSet(s) \ {s[k]} \subseteq ToSet(a) \cup ToSet(b)
    BY <1>1, <2>3 DEF ToSet
  <2> QED BY <2>4, <2>5, <2>6
<1>7. RemoveAt(s, k) = a \o b
  BY DEF RemoveAt, a, b
<1> QED BY <1>2, <1>3, <1>4, <1>5, <1>6, <1>7, DistinctJoin
PublishRecord ==
  [pc : {"new", "calls", "again", "raised", "end"}, topic : Topics \cup {Wild}, todo : Seq(Handlers),
   round : Nat, count : Nat]

\* What each variable holds.
PubTyped ==
  /\ subscribers \in [Topics \cup {Wild} -> Seq(Handlers)] /\ publish \in [Publishers -> PublishRecord]
  /\ got \in [Publishers -> [Handlers -> Nat]] /\ since \in [Publishers -> SUBSET Handlers] /\ left \subseteq Handlers

\* A handler is subscribed once, to one topic, and not when it has left.
SubscribedOnce ==
  /\ \A t \in Topics \cup {Wild} : Distinct(subscribers[t]) /\ ToSet(subscribers[t]) \cap left = {}
  /\ \A t, u \in Topics \cup {Wild} : t # u => ToSet(subscribers[t]) \cap ToSet(subscribers[u]) = {}

Subscribed(t) == ToSet(subscribers[t]) \cup ToSet(subscribers[Wild])
ToCome(p, h) == IF h \in ToSet(publish[p].todo) THEN 1 ELSE 0

\* Every handler has been called once for each round, but for the calls to come,
\* and who was there at the beginning and has not left is still there.
PublishInv(p) ==
  /\ Distinct(publish[p].todo) /\ publish[p].round <= Rounds(p)
  /\ publish[p].pc = "new" => publish[p].round = 0 /\ publish[p].count = 0
  /\ publish[p].pc # "new" => publish[p].topic \in Topics
  /\ publish[p].pc = "again" => publish[p].round < Rounds(p)
  /\ publish[p].pc = "end" => publish[p].round = Rounds(p)
  /\ publish[p].pc \in {"new", "again", "end"} => publish[p].todo = <<>>
  /\ \A h \in Handlers : got[p][h] + ToCome(p, h) <= publish[p].round
  /\ publish[p].pc \in {"calls", "again", "end"} =>
       /\ \A h \in since[p] \ left : h \in Subscribed(publish[p].topic) /\ got[p][h] + ToCome(p, h) = publish[p].round
       /\ publish[p].count = Cardinality(Calls(p)) + Len(publish[p].todo)

PubInv == PubTyped /\ SubscribedOnce /\ \A p \in Publishers : PublishInv(p)

\* Nobody is subscribed at first, and nothing published.
LEMMA PubInvInit == PubInit => PubInv
<1> SUFFICES ASSUME PubInit PROVE PubInv
  OBVIOUS
<1>1. PubTyped
  BY DEF PubInit, PubTyped, PublishRecord, NewPublish
<1>2. SubscribedOnce
  BY DEF PubInit, SubscribedOnce, Distinct, ToSet
<1>3. ASSUME NEW p \in Publishers PROVE PublishInv(p)
  <2>1. publish[p] = NewPublish(p) /\ \A h \in Handlers : got[p][h] = 0
    BY DEF PubInit
  <2>2. Rounds(p) \in {1, 2} /\ ToSet(<<>>) = {}
    BY DEF Rounds, ToSet
  <2> QED BY <2>1, <2>2 DEF PublishInv, NewPublish, ToCome, Distinct
<1> QED BY <1>1, <1>2, <1>3 DEF PubInv

\* A publish in which nothing happens goes on as it was, whoever comes or leaves.
LEMMA PublishStays ==
  ASSUME NEW p \in Publishers, PubTyped, PublishInv(p),
         publish'[p] = publish[p], got'[p] = got[p], since'[p] = since[p], left \subseteq left',
         \A t \in Topics \cup {Wild} : ToSet(subscribers[t]) \ left' \subseteq ToSet(subscribers'[t])
  PROVE  PublishInv(p)'
<1>1. Calls(p)' = Calls(p) /\ \A h \in Handlers : ToCome(p, h)' = ToCome(p, h)
  BY DEF Calls, ToCome
<1>2. ASSUME NEW h, publish[p].topic \in Topics, h \in Subscribed(publish[p].topic), h \notin left' PROVE h \in Subscribed(publish[p].topic)'
  BY <1>2 DEF Subscribed
<1>3. publish[p].pc \in {"calls", "again", "end"} =>
        \A h \in since[p] \ left' : h \in Subscribed(publish[p].topic)' /\ got[p][h] + ToCome(p, h) = publish[p].round
  <2> SUFFICES ASSUME publish[p].pc \in {"calls", "again", "end"}, NEW h \in since[p] \ left'
               PROVE  h \in Subscribed(publish[p].topic)' /\ got[p][h] + ToCome(p, h) = publish[p].round
    OBVIOUS
  <2>1. h \in since[p] \ left /\ publish[p].topic \in Topics
    BY DEF PublishInv
  <2> QED BY <1>2, <2>1 DEF PublishInv
<1>4. (\A h \in Handlers : got[p][h] + ToCome(p, h) <= publish[p].round)'
  BY <1>1 DEF PublishInv
<1>5. (publish[p].pc \in {"calls", "again", "end"} =>
         /\ \A h \in since[p] \ left : h \in Subscribed(publish[p].topic) /\ got[p][h] + ToCome(p, h) = publish[p].round
         /\ publish[p].count = Cardinality(Calls(p)) + Len(publish[p].todo))'
  <2>1. since[p] \subseteq Handlers
    BY DEF PubTyped
  <2>3. publish[p].pc \in {"calls", "again", "end"} => publish[p].count = Cardinality(Calls(p)) + Len(publish[p].todo)
    BY DEF PublishInv
  <2>4. ASSUME NEW h \in Handlers PROVE (got[p][h] + ToCome(p, h))' = got[p][h] + ToCome(p, h)
    BY <1>1, <2>4
  <2> QED BY <1>1, <1>3, <2>1, <2>3, <2>4
<1>6. Rounds(p)' = Rounds(p)
  BY DEF Rounds
<1> QED BY <1>4, <1>5, <1>6 DEF PublishInv

\* What a publish takes when it begins, and when it goes to the bus again.
LEMMA ListenersDistinct ==
  ASSUME PubTyped, SubscribedOnce, NEW t \in Topics
  PROVE  /\ Listeners(t) \in Seq(Handlers) /\ Len(Listeners(t)) \in Nat
         /\ Distinct(Listeners(t)) /\ ToSet(Listeners(t)) = Subscribed(t)
<1>1. t # Wild /\ subscribers[t] \in Seq(Handlers) /\ subscribers[Wild] \in Seq(Handlers)
  BY PubSubAssumption DEF PubTyped
<1>2. Distinct(subscribers[t]) /\ Distinct(subscribers[Wild]) /\ ToSet(subscribers[t]) \cap ToSet(subscribers[Wild]) = {}
  BY <1>1 DEF SubscribedOnce
<1>3. /\ Listeners(t) \in Seq(Handlers) /\ Distinct(Listeners(t))
      /\ ToSet(Listeners(t)) = ToSet(subscribers[t]) \cup ToSet(subscribers[Wild])
  BY <1>1, <1>2, DistinctJoin DEF Listeners
<1> QED BY <1>3 DEF Subscribed
\* The calls of a publish are counted.
LEMMA CallsFinite ==
  ASSUME NEW p
  PROVE  IsFiniteSet(Calls(p)) /\ Cardinality(Calls(p)) \in Nat
<1>1. Rounds(p) \in Nat /\ IsFiniteSet(Handlers) /\ IsFiniteSet(1 .. Rounds(p))
  BY PubSubAssumption, FS_Interval DEF Rounds
<1>2. IsFiniteSet(Handlers \X (1 .. Rounds(p)))
  BY <1>1, FS_Product
<1>3. IsFiniteSet(Calls(p))
  BY <1>2, FS_Subset DEF Calls
<1> QED BY <1>3, FS_CardinalityType

\* A publish that takes its listeners starts a round.
LEMMA PublishKeeps ==
  ASSUME PubInv, NEW p \in Publishers, Publish(p)
  PROVE  PubInv'
<1>1. /\ subscribers \in [Topics \cup {Wild} -> Seq(Handlers)] /\ publish \in [Publishers -> PublishRecord]
      /\ got \in [Publishers -> [Handlers -> Nat]] /\ since \in [Publishers -> SUBSET Handlers] /\ left \subseteq Handlers
      /\ PubTyped /\ SubscribedOnce /\ PublishInv(p) /\ UNCHANGED <<subscribers, got, left>>
  BY DEF PubInv, PubTyped, Publish
<1>2. PICK t \in Topics :
        /\ publish' = [publish EXCEPT ![p] = [pc |-> "calls", topic |-> t, todo |-> Listeners(t), round |-> publish[p].round + 1,
                                              count |-> publish[p].count + Len(Listeners(t))]]
        /\ publish[p].pc = "new" \/ (publish[p].pc = "again" /\ t = publish[p].topic)
        /\ since' = [since EXCEPT ![p] = IF publish[p].pc = "new" THEN ToSet(Listeners(t)) ELSE @]
  BY <1>1 DEF Publish, PublishInv
<1>3. /\ Listeners(t) \in Seq(Handlers) /\ Len(Listeners(t)) \in Nat
      /\ Distinct(Listeners(t)) /\ ToSet(Listeners(t)) = Subscribed(t)
  BY <1>1, ListenersDistinct
<1>4. publish[p] \in PublishRecord /\ publish[p].round \in Nat /\ publish[p].count \in Nat
  BY <1>1 DEF PublishRecord
<1>5. /\ publish'[p].pc = "calls" /\ publish'[p].topic = t /\ publish'[p].todo = Listeners(t)
      /\ publish'[p].round = publish[p].round + 1 /\ publish'[p].count = publish[p].count + Len(Listeners(t))
      /\ publish' \in [Publishers -> PublishRecord] /\ \A r \in Publishers \ {p} : publish'[r] = publish[r]
  BY <1>1, <1>2, <1>3, <1>4 DEF PublishRecord
<1>6. /\ since' \in [Publishers -> SUBSET Handlers] /\ \A r \in Publishers \ {p} : since'[r] = since[r]
      /\ since'[p] = IF publish[p].pc = "new" THEN ToSet(Listeners(t)) ELSE since[p]
  <2>1. ToSet(Listeners(t)) \subseteq Handlers
    BY <1>3 DEF ToSet
  <2> QED BY <1>1, <1>2, <2>1
<1>7. PubTyped' /\ SubscribedOnce'
  BY <1>1, <1>5, <1>6 DEF PubTyped, SubscribedOnce
<1>8. ASSUME NEW r \in Publishers \ {p} PROVE PublishInv(r)'
  BY <1>1, <1>5, <1>6, <1>8, PublishStays DEF PubInv
<1>9. PublishInv(p)'
  <2>1. publish[p].todo = <<>> /\ (\A h \in Handlers : ToCome(p, h) = 0)
    BY <1>1, <1>2 DEF PublishInv, ToCome, ToSet
  <2>2. \A h \in Handlers : got[p][h] \in Nat /\ got[p][h] <= publish[p].round
    <3>1. \A h \in Handlers : got[p][h] \in Nat
      BY <1>1
    <3>2. \A h \in Handlers : got[p][h] + ToCome(p, h) <= publish[p].round
      BY <1>1 DEF PublishInv
    <3> QED BY <1>4, <2>1, <3>1, <3>2
  <2>3. \A h \in Handlers : ToCome(p, h)' = IF h \in ToSet(Listeners(t)) THEN 1 ELSE 0
    BY <1>5 DEF ToCome
  <2>4. (\A h \in Handlers : got[p][h] + ToCome(p, h) <= publish[p].round)'
    <3>1. got' = got /\ publish'[p].round = publish[p].round + 1
      BY <1>1, <1>5
    <3>2. ASSUME NEW h \in Handlers PROVE got[p][h] + ToCome(p, h)' <= publish[p].round + 1
      BY <1>4, <2>2, <2>3
    <3> QED BY <3>1, <3>2
  <2>5. Rounds(p)' = Rounds(p) /\ Rounds(p) \in {1, 2} /\ publish'[p].round <= Rounds(p)
    BY <1>1, <1>2, <1>4, <1>5 DEF Rounds, PublishInv
  <2>6. Calls(p)' = Calls(p)
    <3>1. got' = got
      BY <1>1
    <3> QED BY <3>1 DEF Calls, Rounds
  <2>7. (publish[p].count = Cardinality(Calls(p)) + Len(publish[p].todo))'
    <3>1. Cardinality(Calls(p)) = publish[p].count
      <4>1. CASE publish[p].pc = "again"
        <5>1. publish[p].count = Cardinality(Calls(p)) + Len(publish[p].todo)
          BY <1>1, <4>1 DEF PublishInv
        <5> QED BY <1>4, <2>1, <5>1, CallsFinite
      <4>2. CASE publish[p].pc = "new"
        <5>1. publish[p].count = 0 /\ publish[p].round = 0
          BY <1>1, <4>2 DEF PublishInv
        <5>2. \A h \in Handlers : got[p][h] = 0
          BY <2>2, <5>1
        <5>3. Calls(p) = {}
          BY <5>2 DEF Calls
        <5> QED BY <5>1, <5>3, FS_EmptySet
      <4> QED BY <1>2, <4>1, <4>2
    <3> QED BY <1>3, <1>4, <1>5, <2>6, <3>1
  <2>8. ASSUME NEW h \in since'[p] \ left
        PROVE  h \in Subscribed(t) /\ got[p][h] + ToCome(p, h)' = publish[p].round + 1
    <3>1. h \in Subscribed(t) /\ got[p][h] = publish[p].round
      <4>1. CASE publish[p].pc = "new"
        BY <1>1, <1>3, <1>4, <1>6, <2>2, <2>8, <4>1 DEF PublishInv
      <4>2. CASE publish[p].pc = "again"
        BY <1>1, <1>2, <1>4, <1>6, <2>1, <2>2, <2>8, <4>2 DEF PublishInv
      <4> QED BY <1>2, <4>1, <4>2
    <3> QED BY <1>3, <1>4, <1>6, <2>3, <3>1
  <2>9. Subscribed(t)' = Subscribed(t)
    BY <1>1 DEF Subscribed
  <2> QED BY <1>1, <1>3, <1>5, <1>6, <2>4, <2>5, <2>7, <2>8, <2>9 DEF PublishInv
<1> QED BY <1>7, <1>8, <1>9 DEF PubInv
\* A call of the next handler, and the end of a round.
LEMMA CallNextKeeps ==
  ASSUME PubInv, NEW p \in Publishers, CallNext(p)
  PROVE  PubInv'
<1> DEFINE q == publish[p]
<1>1. /\ subscribers \in [Topics \cup {Wild} -> Seq(Handlers)] /\ publish \in [Publishers -> PublishRecord]
      /\ got \in [Publishers -> [Handlers -> Nat]] /\ since \in [Publishers -> SUBSET Handlers] /\ left \subseteq Handlers
      /\ PubTyped /\ SubscribedOnce /\ PublishInv(p) /\ subscribers' = subscribers /\ since' = since /\ left' = left
      /\ q.pc = "calls"
  BY DEF PubInv, PubTyped, CallNext
<1>2. /\ q \in PublishRecord /\ q.round \in Nat /\ q.count \in Nat /\ q.todo \in Seq(Handlers) /\ Len(q.todo) \in Nat
      /\ q.topic \in Topics /\ Rounds(p) \in {1, 2}
  BY <1>1 DEF PublishRecord, PublishInv, Rounds
<1>3. CASE q.todo = <<>>
  <2>1. got' = got /\ publish' = [publish EXCEPT ![p].pc = IF q.round < Rounds(p) THEN "again" ELSE "end"]
    BY <1>3 DEF CallNext
  <2>2. /\ publish'[p] = [q EXCEPT !.pc = IF q.round < Rounds(p) THEN "again" ELSE "end"]
        /\ \A r \in Publishers \ {p} : publish'[r] = publish[r]
    BY <1>1, <2>1
  <2>3. /\ publish'[p].pc = IF q.round < Rounds(p) THEN "again" ELSE "end"
        /\ publish'[p].topic = q.topic /\ publish'[p].todo = q.todo /\ publish'[p].round = q.round
        /\ publish'[p].count = q.count /\ publish'[p] \in PublishRecord
    BY <1>2, <2>2 DEF PublishRecord
  <2>4. publish' \in [Publishers -> PublishRecord]
    BY <1>1, <2>1, <2>3
  <2>5. PubTyped' /\ SubscribedOnce'
    BY <1>1, <2>1, <2>4 DEF PubTyped, SubscribedOnce
  <2>6. ASSUME NEW r \in Publishers \ {p} PROVE PublishInv(r)'
    BY <1>1, <2>1, <2>2, <2>6, PublishStays DEF PubInv
  <2>7. PublishInv(p)'
    <3>1. Calls(p)' = Calls(p) /\ (\A h \in Handlers : ToCome(p, h)' = ToCome(p, h)) /\ Rounds(p)' = Rounds(p)
      BY <2>1, <2>3 DEF Calls, ToCome, Rounds
    <3>2. \A t : Subscribed(t)' = Subscribed(t)
      BY <1>1 DEF Subscribed
    <3>3. (\A h \in Handlers : got[p][h] + ToCome(p, h) <= publish[p].round)'
      BY <1>1, <2>1, <2>3, <3>1 DEF PublishInv
    <3>4. /\ \A h \in since[p] \ left : h \in Subscribed(q.topic) /\ got[p][h] + ToCome(p, h) = q.round
          /\ q.count = Cardinality(Calls(p)) + Len(q.todo)
      BY <1>1 DEF PublishInv
    <3>5. (/\ \A h \in since[p] \ left : h \in Subscribed(publish[p].topic) /\ got[p][h] + ToCome(p, h) = publish[p].round
           /\ publish[p].count = Cardinality(Calls(p)) + Len(publish[p].todo))'
      <4>1. \A h \in since[p] \ left : h \in Handlers
        BY <1>1
      <4>2. publish'[p].count = Cardinality(Calls(p)') + Len(publish'[p].todo)
        BY <2>3, <3>1, <3>4
      <4>3. ASSUME NEW h \in since[p] \ left PROVE h \in Subscribed(publish[p].topic)' /\ (got[p][h] + ToCome(p, h) = publish[p].round)'
        BY <2>1, <2>3, <3>1, <3>2, <3>4, <4>1, <4>3 DEF Subscribed
      <4> QED BY <1>1, <4>2, <4>3
    <3> QED BY <1>1, <1>2, <1>3, <2>3, <3>1, <3>3, <3>5 DEF PublishInv
  <2> QED BY <2>5, <2>6, <2>7 DEF PubInv
<1>4. CASE q.todo # <<>>
  <2>a. PICK h0 \in Handlers : h0 = Head(q.todo)
    BY <1>1, <1>2, <1>4, DistinctRest DEF PublishInv
  <2>1. /\ publish' = [publish EXCEPT ![p].todo = Tail(@), ![p].pc = IF h0 \in RaisingHandlers THEN "raised" ELSE @]
        /\ got' = [got EXCEPT ![p][h0] = @ + 1]
    BY <1>4, <2>a DEF CallNext
  <2>2. /\ h0 \in Handlers /\ Tail(q.todo) \in Seq(Handlers) /\ Distinct(Tail(q.todo)) /\ Len(q.todo) = Len(Tail(q.todo)) + 1
        /\ ToSet(Tail(q.todo)) = ToSet(q.todo) \ {h0} /\ h0 \in ToSet(q.todo)
    BY <1>1, <1>2, <1>4, <2>a, DistinctRest DEF PublishInv
  <2>3. /\ publish'[p] = [q EXCEPT !.todo = Tail(@), !.pc = IF h0 \in RaisingHandlers THEN "raised" ELSE @]
        /\ \A r \in Publishers \ {p} : publish'[r] = publish[r] /\ got'[r] = got[r]
        /\ got'[p] = [got[p] EXCEPT ![h0] = @ + 1]
    BY <1>1, <2>1
  <2>4. /\ publish'[p].pc = (IF h0 \in RaisingHandlers THEN "raised" ELSE "calls")
        /\ publish'[p].topic = q.topic /\ publish'[p].todo = Tail(q.todo) /\ publish'[p].round = q.round
        /\ publish'[p].count = q.count /\ publish'[p] \in PublishRecord
    BY <1>1, <1>2, <2>2, <2>3 DEF PublishRecord
  <2>5. /\ publish' \in [Publishers -> PublishRecord] /\ got' \in [Publishers -> [Handlers -> Nat]]
        /\ got'[p][h0] = got[p][h0] + 1 /\ \A h \in Handlers \ {h0} : got'[p][h] = got[p][h]
    BY <1>1, <2>1, <2>2, <2>3, <2>4
  <2>6. PubTyped' /\ SubscribedOnce'
    BY <1>1, <2>5 DEF PubTyped, SubscribedOnce
  <2>7. ASSUME NEW r \in Publishers \ {p} PROVE PublishInv(r)'
    BY <1>1, <2>3, <2>7, PublishStays DEF PubInv
  <2>8. PublishInv(p)'
    <3>1. /\ ToCome(p, h0) = 1 /\ ToCome(p, h0)' = 0
          /\ \A h \in Handlers \ {h0} : ToCome(p, h)' = ToCome(p, h)
      <4>1. h0 \notin ToSet(publish'[p].todo)
        BY <2>2, <2>4
      <4>2. \A h \in Handlers \ {h0} : h \in ToSet(publish'[p].todo) <=> h \in ToSet(q.todo)
        BY <2>2, <2>4
      <4>3. ToCome(p, h0) = 1
        BY <2>2 DEF ToCome
      <4>4. ToCome(p, h0)' = 0
        BY <4>1 DEF ToCome
      <4>5. ASSUME NEW h \in Handlers \ {h0} PROVE ToCome(p, h)' = ToCome(p, h)
        BY <4>2 DEF ToCome
      <4> QED BY <4>3, <4>4, <4>5
    <3>2. \A h \in Handlers : got'[p][h] + ToCome(p, h)' = got[p][h] + ToCome(p, h)
      <4>1. ASSUME NEW h \in Handlers \ {h0} PROVE got'[p][h] + ToCome(p, h)' = got[p][h] + ToCome(p, h)
        BY <2>5, <3>1
      <4>2. got[p][h0] \in Nat
        BY <1>1, <2>2
      <4>3. got'[p][h0] + ToCome(p, h0)' = got[p][h0] + ToCome(p, h0)
        BY <2>5, <3>1, <4>2
      <4>4. ASSUME NEW h \in Handlers PROVE got'[p][h] + ToCome(p, h)' = got[p][h] + ToCome(p, h)
        <5>1. CASE h = h0
          BY <4>3, <5>1
        <5>2. CASE h # h0
          BY <4>1, <5>2
        <5> QED BY <5>1, <5>2
      <4> QED BY <4>4
    <3>3. (\A h \in Handlers : got[p][h] + ToCome(p, h) <= publish[p].round)'
      BY <1>1, <2>4, <3>2 DEF PublishInv
    <3>4. (\A t : Subscribed(t)' = Subscribed(t)) /\ Rounds(p)' = Rounds(p)
      BY <1>1 DEF Subscribed, Rounds
    <3>5. ASSUME NEW h \in since[p] \ left PROVE h \in Subscribed(publish[p].topic)' /\ (got[p][h] + ToCome(p, h) = publish[p].round)'
      <4>1. h \in Handlers /\ h \in Subscribed(q.topic) /\ got[p][h] + ToCome(p, h) = q.round
        BY <1>1, <3>5 DEF PublishInv
      <4> QED BY <2>4, <3>2, <3>4, <4>1 DEF Subscribed
    <3>6. got[p][h0] \in Nat /\ got[p][h0] + 1 \in 1 .. Rounds(p)
      <4>1. got[p][h0] + ToCome(p, h0) <= q.round /\ q.round <= Rounds(p) /\ got[p][h0] \in Nat
        BY <1>1, <2>2 DEF PublishInv
      <4> QED BY <1>2, <3>1, <4>1
    <3>7. Calls(p)' = Calls(p) \cup {<<h0, got[p][h0] + 1>>}
      <4>1. Calls(p)' = {c \in Handlers \X (1 .. Rounds(p)) : c[2] <= got'[p][c[1]]}
        BY DEF Calls, Rounds
      <4>2. ASSUME NEW h \in Handlers, NEW n \in 1 .. Rounds(p)
            PROVE  (n <= got'[p][h]) <=> (n <= got[p][h] \/ (h = h0 /\ n = got[p][h0] + 1))
        <5>1. got[p][h] \in Nat /\ n \in Nat /\ got[p][h0] \in Nat
          BY <1>1, <1>2
        <5>2. CASE h = h0
          BY <2>5, <5>1, <5>2
        <5>3. CASE h # h0
          BY <2>5, <5>3
        <5> QED BY <5>2, <5>3
      <4> QED BY <2>2, <3>6, <4>1, <4>2 DEF Calls
    <3>8. <<h0, got[p][h0] + 1>> \notin Calls(p)
      BY <3>6 DEF Calls
    <3>9. Cardinality(Calls(p)') = Cardinality(Calls(p)) + 1
      BY <3>7, <3>8, CallsFinite, FS_AddElement
    <3>10. (publish[p].count = Cardinality(Calls(p)) + Len(publish[p].todo))'
      <4>1. q.count = Cardinality(Calls(p)) + Len(q.todo) /\ Cardinality(Calls(p)) \in Nat /\ Len(Tail(q.todo)) \in Nat
        BY <1>1, <2>2, CallsFinite DEF PublishInv
      <4> QED BY <2>2, <2>4, <3>9, <4>1
    <3> QED BY <1>1, <1>2, <2>2, <2>4, <3>3, <3>4, <3>5, <3>10 DEF PublishInv
  <2> QED BY <2>6, <2>7, <2>8 DEF PubInv
<1> QED BY <1>3, <1>4

\* A handler that comes.
LEMMA SubscribeKeeps ==
  ASSUME PubInv, NEW h \in Handlers, Subscribe(h)
  PROVE  PubInv'
<1>1. /\ subscribers \in [Topics \cup {Wild} -> Seq(Handlers)] /\ PubTyped /\ SubscribedOnce
      /\ publish' = publish /\ got' = got /\ since' = since /\ left' = left
  BY DEF PubInv, PubTyped, Subscribe
<1>2. PICK t \in Topics \cup {Wild} : subscribers' = [subscribers EXCEPT ![t] = Append(@, h)]
  BY <1>1 DEF Subscribe
<1>3. h \notin left /\ \A u \in Topics \cup {Wild} : h \notin ToSet(subscribers[u])
  BY <1>1 DEF Subscribe, Everywhere
<1>4. /\ Append(subscribers[t], h) \in Seq(Handlers) /\ Distinct(Append(subscribers[t], h))
      /\ ToSet(Append(subscribers[t], h)) = ToSet(subscribers[t]) \cup {h}
  <2>1. /\ <<h>> \in Seq(Handlers) /\ Distinct(<<h>>) /\ ToSet(<<h>>) = {h}
        /\ subscribers[t] \in Seq(Handlers) /\ Append(subscribers[t], h) = subscribers[t] \o <<h>>
    BY <1>1, AppendIsConcat DEF Distinct, ToSet
  <2>2. Distinct(subscribers[t]) /\ ToSet(subscribers[t]) \cap ToSet(<<h>>) = {}
    BY <1>1, <1>3, <2>1 DEF SubscribedOnce
  <2>3. /\ subscribers[t] \o <<h>> \in Seq(Handlers) /\ Distinct(subscribers[t] \o <<h>>)
        /\ ToSet(subscribers[t] \o <<h>>) = ToSet(subscribers[t]) \cup ToSet(<<h>>)
    BY <2>1, <2>2, DistinctJoin
  <2> QED BY <2>1, <2>3
<1>5. /\ subscribers' \in [Topics \cup {Wild} -> Seq(Handlers)]
      /\ \A u \in Topics \cup {Wild} : subscribers'[u] = IF u = t THEN Append(subscribers[t], h) ELSE subscribers[u]
  BY <1>1, <1>2, <1>4
<1>6. PubTyped'
  BY <1>1, <1>5 DEF PubTyped
<1>7. SubscribedOnce'
  <2>1. \A u \in Topics \cup {Wild} : Distinct(subscribers'[u]) /\ ToSet(subscribers'[u]) \cap left = {}
    BY <1>1, <1>3, <1>4, <1>5 DEF SubscribedOnce
  <2>2. ASSUME NEW u \in Topics \cup {Wild}, NEW v \in Topics \cup {Wild}, u # v
        PROVE  ToSet(subscribers'[u]) \cap ToSet(subscribers'[v]) = {}
    <3>1. ToSet(subscribers[u]) \cap ToSet(subscribers[v]) = {}
      BY <1>1, <2>2 DEF SubscribedOnce
    <3>2. CASE u = t
      <4>1. subscribers'[v] = subscribers[v] /\ subscribers'[u] = Append(subscribers[t], h)
        BY <1>5, <2>2, <3>2
      <4>2. h \notin ToSet(subscribers[v])
        BY <1>3
      <4> QED BY <1>4, <3>1, <3>2, <4>1, <4>2
    <3>3. CASE v = t
      <4>1. subscribers'[u] = subscribers[u] /\ subscribers'[v] = Append(subscribers[t], h)
        BY <1>5, <2>2, <3>3
      <4>2. h \notin ToSet(subscribers[u])
        BY <1>3
      <4> QED BY <1>4, <3>1, <3>3, <4>1, <4>2
    <3>4. CASE u # t /\ v # t
      <4>1. subscribers'[u] = subscribers[u] /\ subscribers'[v] = subscribers[v]
        BY <1>5, <2>2, <3>4
      <4> QED BY <3>1, <4>1, Zenon
    <3> QED BY <3>2, <3>3, <3>4
  <2> QED BY <1>1, <2>1, <2>2 DEF SubscribedOnce
<1>8. ASSUME NEW r \in Publishers PROVE PublishInv(r)'
  <2>1. \A u \in Topics \cup {Wild} : ToSet(subscribers[u]) \ left' \subseteq ToSet(subscribers'[u])
    BY <1>4, <1>5
  <2> QED BY <1>1, <2>1, PublishStays DEF PubInv
<1> QED BY <1>6, <1>7, <1>8 DEF PubInv

\* A handler that leaves.
LEMMA UnsubscribeKeeps ==
  ASSUME PubInv, NEW h \in Handlers, Unsubscribe(h)
  PROVE  PubInv'
<1>1. /\ subscribers \in [Topics \cup {Wild} -> Seq(Handlers)] /\ PubTyped /\ SubscribedOnce
      /\ publish' = publish /\ got' = got /\ since' = since /\ left' = left \cup {h}
  BY DEF PubInv, PubTyped, Unsubscribe
<1>a. PICK t \in Topics \cup {Wild} : \E i \in DOMAIN subscribers[t] :
        subscribers[t][i] = h /\ subscribers' = [subscribers EXCEPT ![t] = RemoveAt(@, i)]
  BY <1>1 DEF Unsubscribe
<1>2. PICK i \in DOMAIN subscribers[t] :
        subscribers[t][i] = h /\ subscribers' = [subscribers EXCEPT ![t] = RemoveAt(@, i)]
  BY <1>a
<1>3. /\ RemoveAt(subscribers[t], i) \in Seq(Handlers) /\ Distinct(RemoveAt(subscribers[t], i))
      /\ ToSet(RemoveAt(subscribers[t], i)) = ToSet(subscribers[t]) \ {h}
  BY <1>1, <1>2, DistinctWithout DEF SubscribedOnce
<1>4. h \in ToSet(subscribers[t])
  BY <1>2 DEF ToSet
<1>5. /\ subscribers' \in [Topics \cup {Wild} -> Seq(Handlers)]
      /\ \A u \in Topics \cup {Wild} : subscribers'[u] = IF u = t THEN RemoveAt(subscribers[t], i) ELSE subscribers[u]
  BY <1>1, <1>2, <1>3
<1>6. PubTyped'
  BY <1>1, <1>5 DEF PubTyped
<1>7. SubscribedOnce'
  <2>1. \A u \in Topics \cup {Wild} : ToSet(subscribers'[u]) \subseteq ToSet(subscribers[u])
    BY <1>3, <1>5
  <2>2. \A u \in Topics \cup {Wild} : h \notin ToSet(subscribers'[u])
    BY <1>1, <1>3, <1>4, <1>5 DEF SubscribedOnce
  <2>3. \A u \in Topics \cup {Wild} : Distinct(subscribers'[u])
    BY <1>1, <1>3, <1>5 DEF SubscribedOnce
  <2>4. \A u \in Topics \cup {Wild} : ToSet(subscribers'[u]) \cap left' = {}
    BY <1>1, <2>1, <2>2 DEF SubscribedOnce
  <2>5. \A u, v \in Topics \cup {Wild} : u # v => ToSet(subscribers'[u]) \cap ToSet(subscribers'[v]) = {}
    BY <1>1, <2>1 DEF SubscribedOnce
  <2> QED BY <2>3, <2>4, <2>5 DEF SubscribedOnce
<1>8. ASSUME NEW r \in Publishers PROVE PublishInv(r)'
  <2>1. \A u \in Topics \cup {Wild} : ToSet(subscribers[u]) \ left' \subseteq ToSet(subscribers'[u])
    BY <1>1, <1>3, <1>5
  <2> QED BY <1>1, <2>1, PublishStays DEF PubInv
<1> QED BY <1>6, <1>7, <1>8 DEF PubInv

\* Every step of the bus keeps the invariant.
LEMMA PubSteps == PubInv /\ [PubNext]_pubVars => PubInv'
<1>1. ASSUME PubInv, PubNext PROVE PubInv'
  BY <1>1, PublishKeeps, CallNextKeeps, SubscribeKeeps, UnsubscribeKeeps DEF PubNext
<1>2. ASSUME PubInv, UNCHANGED pubVars PROVE PubInv'
  <2>1. ASSUME NEW p \in Publishers PROVE PublishInv(p)'
    BY <1>2, <2>1, PublishStays DEF pubVars, PubInv
  <2> QED BY <1>2, <2>1 DEF pubVars, PubInv, PubTyped, SubscribedOnce
<1> QED BY <1>1, <1>2

\* The invariant is what a publisher relies on.
LEMMA PubInvTrue == PubInv => DeliveredOnce
<1> SUFFICES ASSUME PubInv, NEW p \in Publishers
             PROVE  /\ \A h \in Handlers : got[p][h] <= Rounds(p)
                    /\ publish[p].pc = "end" => \A h \in since[p] \ left : got[p][h] = Rounds(p)
                    /\ publish[p].pc = "end" => publish[p].count = Cardinality(Calls(p))
  BY DEF DeliveredOnce
<1>1. /\ publish[p] \in PublishRecord /\ publish[p].round \in Nat /\ PublishInv(p) /\ since[p] \subseteq Handlers
      /\ \A h \in Handlers : got[p][h] \in Nat /\ ToCome(p, h) \in {0, 1}
  BY DEF PubInv, PubTyped, PublishRecord, ToCome
<1>2. \A h \in Handlers : got[p][h] <= Rounds(p)
  BY <1>1 DEF PublishInv, Rounds
<1>3. ASSUME publish[p].pc = "end" PROVE /\ \A h \in since[p] \ left : got[p][h] = Rounds(p)
                                         /\ publish[p].count = Cardinality(Calls(p))
  <2>1. publish[p].todo = <<>> /\ \A h : ToCome(p, h) = 0
    BY <1>1, <1>3 DEF PublishInv, ToCome, ToSet
  <2>2. \A h \in since[p] \ left : got[p][h] + ToCome(p, h) = Rounds(p)
    BY <1>1, <1>3 DEF PublishInv
  <2>3. publish[p].count = Cardinality(Calls(p)) + Len(publish[p].todo) /\ Cardinality(Calls(p)) \in Nat
    BY <1>1, <1>3, CallsFinite DEF PublishInv
  <2> QED BY <1>1, <2>1, <2>2, <2>3
<1> QED BY <1>2, <1>3
-----------------------------------------------------------------------------
(***************************************************************************)
(* Requests and sessions (web.py, security.py).                            *)
(***************************************************************************)

\* A set of numbers has a least one.
LEMMA LeastNumber ==
  ASSUME NEW S \in SUBSET Nat, S # {}
  PROVE  Min(S) \in S /\ \A y \in S : Min(S) <= y
<1> DEFINE R == {ss \in Nat \X Nat : ss[1] < ss[2]}
<1>1. IsWellFoundedOn(R, Nat)
  BY NatLessThanWellFounded DEF OpToRel
<1> HIDE DEF R
<1>2. PICK x \in S : \A y \in S : ~ (<<y, x>> \in R)
  BY <1>1, WFMin
<1>3. ASSUME NEW y \in S PROVE x <= y
  <2>1. x \in Nat /\ y \in Nat /\ ~ (<<y, x>> \in R)
    BY <1>2
  <2>2. ~ (y < x)
    BY <2>1 DEF R
  <2> QED BY <2>1, <2>2
<1> QED BY <1>3 DEF Min

\* The beginning of two sequences joined, and of three.
LEMMA WholeSequence ==
  ASSUME NEW S, NEW s \in Seq(S)
  PROVE  SubSeq(s, 1, Len(s)) = s
<1>1. \A i \in 1 .. Len(s) : s[i] \in S
  OBVIOUS
<1>2. 1 \in Int /\ Len(s) \in Int /\ Len(s) \in Nat
  OBVIOUS
<1>3. /\ SubSeq(s, 1, Len(s)) \in Seq(S)
      /\ Len(SubSeq(s, 1, Len(s))) = IF 1 <= Len(s) THEN Len(s) - 1 + 1 ELSE 0
      /\ \A i \in 1 .. Len(s) - 1 + 1 : SubSeq(s, 1, Len(s))[i] = s[1 + i - 1]
  BY <1>1, <1>2, SubSeqProperties
<1>4. Len(SubSeq(s, 1, Len(s))) = Len(s) /\ \A i \in 1 .. Len(s) : SubSeq(s, 1, Len(s))[i] = s[i]
  BY <1>2, <1>3
<1> QED BY <1>3, <1>4, SeqEqual

\* A beginning of a sequence is a prefix of it, item by item.
LEMMA Beginning ==
  ASSUME NEW S, NEW s \in Seq(S), NEW n \in 0 .. Len(s)
  PROVE  /\ SubSeq(s, 1, n) \in Seq(S) /\ Len(SubSeq(s, 1, n)) = n
         /\ \A i \in 1 .. n : SubSeq(s, 1, n)[i] = s[i]
         /\ IsPrefix(SubSeq(s, 1, n), s)
<1>1. 1 \in Int /\ n \in Nat /\ Len(s) \in Nat /\ n <= Len(s) /\ \A i \in 1 .. n : s[i] \in S
  OBVIOUS
<1>2. /\ SubSeq(s, 1, n) \in Seq(S)
      /\ Len(SubSeq(s, 1, n)) = IF 1 <= n THEN n - 1 + 1 ELSE 0
      /\ \A i \in 1 .. n - 1 + 1 : SubSeq(s, 1, n)[i] = s[1 + i - 1]
  BY <1>1, SubSeqProperties
<1>3. Len(SubSeq(s, 1, n)) = n /\ \A i \in 1 .. n : SubSeq(s, 1, n)[i] = s[i]
  BY <1>1, <1>2
<1>4. SubSeq(SubSeq(s, 1, n), 1, n) = SubSeq(s, 1, n)
  BY <1>2, <1>3, WholeSequence
<1> QED BY <1>1, <1>2, <1>3, <1>4 DEF IsPrefix

\* A beginning of two sequences joined is one of the first, or the first and
\* a beginning of the second.
LEMMA BeginningOfJoin ==
  ASSUME NEW S, NEW s \in Seq(S), NEW t \in Seq(S)
  PROVE  /\ \A n \in 0 .. Len(s) : SubSeq(s \o t, 1, n) = SubSeq(s, 1, n)
         /\ \A m \in 0 .. Len(t) : SubSeq(s \o t, 1, Len(s) + m) = s \o SubSeq(t, 1, m)
<1>1. /\ Len(s) \in Nat /\ Len(t) \in Nat /\ s \o t \in Seq(S) /\ Len(s \o t) = Len(s) + Len(t)
      /\ \A i \in 1 .. Len(s) : (s \o t)[i] = s[i]
      /\ \A i \in Len(s) + 1 .. Len(s) + Len(t) : (s \o t)[i] = t[i - Len(s)]
  OBVIOUS
<1>2. ASSUME NEW n \in 0 .. Len(s) PROVE SubSeq(s \o t, 1, n) = SubSeq(s, 1, n)
  <2>1. n \in 0 .. Len(s \o t)
    BY <1>1
  <2>2. /\ SubSeq(s \o t, 1, n) \in Seq(S) /\ Len(SubSeq(s \o t, 1, n)) = n
        /\ \A i \in 1 .. n : SubSeq(s \o t, 1, n)[i] = (s \o t)[i]
    BY <1>1, <2>1, Beginning
  <2>3. /\ SubSeq(s, 1, n) \in Seq(S) /\ Len(SubSeq(s, 1, n)) = n
        /\ \A i \in 1 .. n : SubSeq(s, 1, n)[i] = s[i]
    BY <1>1, Beginning
  <2>4. \A i \in 1 .. n : SubSeq(s \o t, 1, n)[i] = SubSeq(s, 1, n)[i]
    BY <1>1, <2>2, <2>3
  <2> QED BY <2>2, <2>3, <2>4, SeqEqual
<1>3. ASSUME NEW m \in 0 .. Len(t) PROVE SubSeq(s \o t, 1, Len(s) + m) = s \o SubSeq(t, 1, m)
  <2>1. Len(s) + m \in 0 .. Len(s \o t) /\ m \in Nat
    BY <1>1
  <2>2. /\ SubSeq(s \o t, 1, Len(s) + m) \in Seq(S) /\ Len(SubSeq(s \o t, 1, Len(s) + m)) = Len(s) + m
        /\ \A i \in 1 .. Len(s) + m : SubSeq(s \o t, 1, Len(s) + m)[i] = (s \o t)[i]
    BY <1>1, <2>1, Beginning
  <2> DEFINE b == SubSeq(t, 1, m)
  <2>3. b \in Seq(S) /\ Len(b) = m /\ \A i \in 1 .. m : b[i] = t[i]
    BY <1>1, Beginning
  <2> HIDE DEF b
  <2>4. /\ s \o b \in Seq(S) /\ Len(s \o b) = Len(s) + m
        /\ \A i \in 1 .. Len(s) : (s \o b)[i] = s[i]
        /\ \A i \in Len(s) + 1 .. Len(s) + m : (s \o b)[i] = b[i - Len(s)]
    BY <1>1, <2>1, <2>3
  <2>5. ASSUME NEW i \in 1 .. Len(s) + m PROVE (s \o t)[i] = (s \o b)[i]
    <3>1. CASE i <= Len(s)
      BY <1>1, <2>4, <3>1
    <3>2. CASE i > Len(s)
      <4>1. i \in Len(s) + 1 .. Len(s) + m /\ i - Len(s) \in 1 .. m /\ i \in Len(s) + 1 .. Len(s) + Len(t)
        BY <1>1, <2>1, <3>2
      <4>2. (s \o t)[i] = t[i - Len(s)] /\ (s \o b)[i] = b[i - Len(s)] /\ b[i - Len(s)] = t[i - Len(s)]
        BY <1>1, <2>3, <2>4, <4>1
      <4> QED BY <4>2
    <3>3. i <= Len(s) \/ i > Len(s)
      BY <1>1, <2>1
    <3> QED BY <3>1, <3>2, <3>3, Zenon
  <2>6. SubSeq(s \o t, 1, Len(s) + m) = s \o b
    BY <2>2, <2>4, <2>5, SeqEqual
  <2> QED BY <2>6 DEF b
<1> QED BY <1>2, <1>3

\* Only application steps raise, and nothing answers "ok" before the handler.
Answers == {"pass", "answer", "too large", "unauthorized", "forbidden"} \cup Raising

\* Steps are called up to the first that does not pass.
LEMMA CalledUpTo ==
  ASSUME NEW steps \in Seq(Steps), NEW q, NEW own \in Verdicts
  PROVE  /\ Outcome(steps, q, own) \in Answers
         /\ Outcome(steps, q, own) = "pass" => Called(steps, q, own) = steps
         /\ \E n \in 0 .. Len(steps) : Called(steps, q, own) = SubSeq(steps, 1, n)
<1> DEFINE stops == Stops(steps, q, own)
<1>1. Len(steps) \in Nat /\ DOMAIN steps = 1 .. Len(steps) /\ \A i \in DOMAIN steps : steps[i] \in Steps
  OBVIOUS
<1>2. stops \in SUBSET Nat /\ stops \subseteq 1 .. Len(steps)
  BY <1>1 DEF Stops
<1>3. \A step \in Steps : Verdict(step, q, own) \in Answers
  BY DEF Verdict, Steps, Answers, Verdicts, Raising, Own
<1>4. CASE stops = {}
  <2>1. Min(stops \cup {Len(steps)}) = Len(steps)
    <3>1. stops \cup {Len(steps)} = {Len(steps)} /\ {Len(steps)} \in SUBSET Nat /\ {Len(steps)} # {}
      BY <1>1, <1>4
    <3>2. Min({Len(steps)}) \in {Len(steps)}
      BY <3>1, LeastNumber
    <3> QED BY <3>1, <3>2
  <2>2. Called(steps, q, own) = steps /\ Called(steps, q, own) = SubSeq(steps, 1, Len(steps))
    BY <2>1, WholeSequence DEF Called
  <2> QED BY <1>1, <1>4, <2>2 DEF Outcome, Answers
<1>5. CASE stops # {}
  <2>1. Min(stops) \in stops
    BY <1>2, <1>5, LeastNumber
  <2>2. Outcome(steps, q, own) = Verdict(steps[Min(stops)], q, own) /\ Outcome(steps, q, own) # "pass"
    BY <1>5, <2>1 DEF Outcome, Stops
  <2>3. Outcome(steps, q, own) \in Answers
    BY <1>1, <1>2, <1>3, <2>1, <2>2
  <2>4. Min(stops \cup {Len(steps)}) \in 0 .. Len(steps)
    <3>1. stops \cup {Len(steps)} \in SUBSET Nat /\ stops \cup {Len(steps)} # {}
      BY <1>1, <1>2
    <3>2. Min(stops \cup {Len(steps)}) \in stops \cup {Len(steps)}
      BY <3>1, LeastNumber
    <3> QED BY <1>1, <1>2, <3>2
  <2> QED BY <2>2, <2>3, <2>4 DEF Called
<1> QED BY <1>4, <1>5

\* The after handlers are all called unless one raises.
LEMMA AfterAll ==
  ASSUME NEW q
  PROVE  Called(After, q, "pass") = After
<1>1. After \in Seq(Steps) /\ \A i \in DOMAIN After : After[i] \in {"security_headers", "own"}
  BY WebAssumption DEF Steps
<1>2. \A step \in {"security_headers", "own"} : Verdict(step, q, "pass") = "pass"
  BY DEF Verdict, Own
<1>3. Stops(After, q, "pass") = {}
  BY <1>1, <1>2 DEF Stops
<1>4. Outcome(After, q, "pass") = "pass"
  BY <1>3 DEF Outcome
<1> QED BY <1>1, <1>4, CalledUpTo DEF Verdicts

\* The first route that matches.
LEMMA RouteFound ==
  ASSUME NEW q, Matching(q) # {}
  PROVE  /\ RouteOf(q).middleware \in Seq(Steps) /\ RouteOf(q).deed \in {"login", "logout", "page"}
<1>1. Matching(q) \in SUBSET Nat /\ Matching(q) \subseteq DOMAIN Routes
  BY WebAssumption DEF Matching
<1>2. Min(Matching(q)) \in DOMAIN Routes
  BY <1>1, LeastNumber
<1> QED BY <1>2, WebAssumption DEF RouteOf
Tokens == {NoToken} \cup [user : Users, iat : 0 .. MaxClock]

\* A token was given for a login from this browser.
LoginKnown(b, token) == token = NoToken \/ \E l \in logins : l.browser = b /\ l.user = token.user /\ l.at = token.iat
CookieKnown(b, cookie) == cookie = KeepCookie \/ (cookie \in Tokens /\ LoginKnown(b, cookie))

\* What has been called, up to a step of the route ...
Begun(q, ran) == \E n \in Len(Before) .. Len(WholeRoute(q)) : ran = SubSeq(WholeRoute(q), 1, n)
\* ... or short of the handler.
Stopped(q, ran) == IsPrefix(ran, Before) \/ (Matching(q) # {} /\ IsPrefix(ran, Guards(q)))

RequestInv(r) ==
  /\ r = [pc |-> r.pc, req |-> r.req, ran |-> r.ran, user |-> r.user, seen |-> r.seen,
          resp |-> [status |-> r.resp.status, cookie |-> r.resp.cookie]]
  /\ r.pc \in {"idle", "handler", "after", "write", "answered", "dead"}
  /\ r.pc \in {"handler", "after", "write"} => r.req.browser \in Browsers /\ CookieKnown(r.req.browser, r.resp.cookie)
  /\ r.pc \in {"handler", "after"} => Matching(r.req) # {}
  /\ r.pc = "handler" => r.ran = Guards(r.req)
  /\ r.pc = "after" => \/ r.resp.status = "ok" /\ r.ran = WholeRoute(r.req)
                       \/ r.resp.status \in Raising /\ Begun(r.req, r.ran)
                       \/ r.resp.status = "odd"
  /\ r.pc = "write" => r.resp.status \notin Raising \cup {"ok"} /\ Stopped(r.req, r.ran)
  /\ r.pc = "answered" =>
       /\ r.resp.status = "ok" => r.ran = WholeRoute(r.req) \o After
       /\ r.resp.status \in Raising =>
            \E n \in Len(Before) .. Len(WholeRoute(r.req)) : r.ran = SubSeq(WholeRoute(r.req), 1, n) \o After
       /\ r.resp.status \notin Raising \cup {"ok"} => Stopped(r.req, r.ran)
  /\ r.user # Nobody => \E l \in logins : /\ l.browser = r.req.browser /\ l.user = r.user
                                          /\ r.seen - l.at <= MaxAge

ServerTyped ==
  /\ clock \in 0 .. MaxClock /\ served \in 0 .. MaxRequests /\ runs \in 0 .. MaxRuns
  /\ httpd \in {"none", "open", "closed"} /\ loop \in {"off", "starting", "on", "ended"} /\ stopping \in BOOLEAN

WebInv ==
  /\ ServerTyped
  /\ jar \in [Browsers -> Tokens] /\ \A b \in Browsers : LoginKnown(b, jar[b])
  /\ DOMAIN thread = Threads /\ \A t \in Threads : RequestInv(thread[t])

\* A request that begins, with its answer if it has one.
LEMMA RequestAt ==
  ASSUME NEW pc \in {"idle", "handler", "after", "write", "dead"}, NEW q, NEW ran, NEW status,
         pc \in {"handler", "after", "write"} => q.browser \in Browsers,
         pc \in {"handler", "after"} => Matching(q) # {},
         pc = "handler" => ran = Guards(q),
         pc = "after" => status \in Raising /\ Begun(q, ran),
         pc = "write" => status \notin Raising \cup {"ok"} /\ Stopped(q, ran)
  PROVE  RequestInv(At(pc, q, ran, status))
BY DEF RequestInv, At, Answer, CookieKnown

\* At first some browsers have logged in.
LEMMA WebInvInit == WebInit => WebInv
<1> SUFFICES ASSUME WebInit PROVE WebInv
  OBVIOUS
<1>1. ServerTyped
  <2>1. clock = 0 /\ served = 0 /\ runs = 0 /\ httpd = "none" /\ loop = "off" /\ stopping = FALSE
    BY DEF WebInit
  <2>2. 0 \in 0 .. MaxClock /\ 0 \in 0 .. MaxRuns /\ 0 \in 0 .. MaxRequests
    BY WebAssumption
  <2> QED BY <2>1, <2>2 DEF ServerTyped
<1>2. PICK u \in Users : /\ jar = [b \in Browsers |-> IF b \in SignedIn THEN [user |-> u, iat |-> 0] ELSE NoToken]
                         /\ logins = {[browser |-> b, user |-> u, at |-> 0] : b \in SignedIn}
  BY DEF WebInit
<1>3. jar \in [Browsers -> Tokens]
  BY <1>2, WebAssumption DEF Tokens
<1>4. ASSUME NEW b \in Browsers PROVE LoginKnown(b, jar[b])
  <2>1. CASE b \in SignedIn
    <3>1. jar[b] = [user |-> u, iat |-> 0] /\ [browser |-> b, user |-> u, at |-> 0] \in logins
      BY <1>2, <2>1
    <3> QED BY <3>1 DEF LoginKnown
  <2>2. CASE b \notin SignedIn
    BY <1>2, <2>2 DEF LoginKnown
  <2> QED BY <2>1, <2>2
<1>5. RequestInv(NoRequest)
  BY RequestAt DEF NoRequest
<1>6. DOMAIN thread = Threads /\ \A t \in Threads : RequestInv(thread[t])
  BY <1>5 DEF WebInit
<1> QED BY <1>1, <1>3, <1>4, <1>6 DEF WebInv

\* The user a route is shown has logged in, as long as the cookie lasts.
LEMMA UserKnown ==
  ASSUME WebInv, NEW b \in Browsers, CurrentUser(jar[b]) # Nobody
  PROVE  \E l \in logins : l.browser = b /\ l.user = CurrentUser(jar[b]) /\ clock - l.at <= MaxAge
<1>1. jar[b] # NoToken /\ CurrentUser(jar[b]) = jar[b].user /\ clock - jar[b].iat <= MaxAge
  BY DEF CurrentUser, VerifyCookie
<1>2. PICK l \in logins : l.browser = b /\ l.user = jar[b].user /\ l.at = jar[b].iat
  BY <1>1 DEF WebInv, LoginKnown
<1> QED BY <1>1, <1>2

\* What a request comes to before its handler.
LEMMA DispatchedInv ==
  ASSUME WebInv, NEW q, q.browser \in Browsers, q.token = jar[q.browser], NEW own \in Verdicts,
         NEW r \in Dispatched(q, own)
  PROVE  RequestInv(r)
<1>1. Before \in Seq(Steps) /\ After \in Seq(Steps)
  BY WebAssumption DEF Steps
<1>2. CASE Outcome(Before, q, own) # "pass"
  <2>1. r = BeforeHandlers(q, own)
    BY <1>2 DEF Dispatched
  <2>2. PICK n \in 0 .. Len(Before) : Called(Before, q, own) = SubSeq(Before, 1, n)
    BY <1>1, CalledUpTo
  <2>3. IsPrefix(Called(Before, q, own), Before)
    BY <1>1, <2>2, Beginning
  <2>4. Outcome(Before, q, own) \in Answers
    BY <1>1, CalledUpTo
  <2> QED BY <2>1, <2>3, <2>4, RequestAt DEF BeforeHandlers, Stopped, Answers
<1>3. Stopped(q, Before)
  <2>1. Len(Before) \in 0 .. Len(Before) /\ SubSeq(Before, 1, Len(Before)) = Before
    BY <1>1, WholeSequence
  <2> QED BY <1>1, <2>1, Beginning DEF Stopped
<1>4. CASE r \in TryStatic(q, own)
  BY <1>3, <1>4, RequestAt DEF TryStatic, Raising
<1>5. CASE r = At("write", q, Before, "not found")
  BY <1>3, <1>5, RequestAt DEF Raising
<1>6. CASE Matching(q) # {} /\ r = RunMiddleware(q, own)
  <2> DEFINE mw == RouteOf(q).middleware
             out == Outcome(mw, q, own)
             ran == Before \o Called(mw, q, own)
             user == IF Contains(Called(mw, q, own), "auth_required") THEN CurrentUser(q.token) ELSE Nobody
  <2>1. mw \in Seq(Steps) /\ RouteOf(q).deed \in {"login", "logout", "page"}
    BY <1>6, RouteFound
  <2>2. out \in Answers /\ (out = "pass" => Called(mw, q, own) = mw)
    BY <2>1, CalledUpTo
  <2>3. PICK m \in 0 .. Len(mw) : Called(mw, q, own) = SubSeq(mw, 1, m)
    BY <2>1, CalledUpTo
  <2>4. ran = SubSeq(Guards(q), 1, Len(Before) + m) /\ Guards(q) \in Seq(Steps) /\ Len(Before) + m \in 0 .. Len(Guards(q))
    BY <1>1, <2>1, <2>3, BeginningOfJoin DEF Guards
  <2>5. IsPrefix(ran, Guards(q))
    BY <2>4, Beginning
  <2>6. Begun(q, ran)
    <3> DEFINE S == Steps \cup {"login", "logout", "page"}
    <3>1. Guards(q) \in Seq(S) /\ <<RouteOf(q).deed>> \in Seq(S) /\ RouteOf(q).deed \in S
      BY <2>1, <2>4
    <3>2. WholeRoute(q) = Guards(q) \o <<RouteOf(q).deed>>
      BY <3>1, AppendIsConcat DEF WholeRoute
    <3>3. SubSeq(WholeRoute(q), 1, Len(Before) + m) = SubSeq(Guards(q), 1, Len(Before) + m)
      BY <2>4, <3>1, <3>2, BeginningOfJoin
    <3>4. Len(Before) + m \in Len(Before) .. Len(WholeRoute(q))
      BY <1>1, <2>1, <2>3, <2>4, <3>1, <3>2
    <3> QED BY <2>4, <3>3, <3>4 DEF Begun
  <2>7. RequestInv(At(AfterGuard(out), q, ran, out))
    <3>1. CASE out = "pass"
      BY <1>6, <2>2, <3>1, RequestAt DEF AfterGuard, Guards, Raising
    <3>2. CASE out \in Raising
      BY <1>6, <2>6, <3>2, RequestAt DEF AfterGuard, Raising
    <3>3. CASE out \notin Raising \cup {"pass"}
      BY <1>6, <2>2, <2>5, <3>3, RequestAt DEF AfterGuard, Answers, Stopped
    <3> QED BY <3>1, <3>2, <3>3
  <2>8. r = [At(AfterGuard(out), q, ran, out) EXCEPT !.seen = clock, !.user = user]
    BY <1>6 DEF RunMiddleware
  <2>9. user # Nobody => \E l \in logins : l.browser = q.browser /\ l.user = user /\ clock - l.at <= MaxAge
    BY UserKnown
  <2> HIDE DEF mw, out, ran, user
  <2> QED BY <2>7, <2>8, <2>9 DEF RequestInv, At, Answer
<1> QED BY <1>2, <1>4, <1>5, <1>6 DEF Dispatched
\* A request keeps its invariant when others log in.
LEMMA RequestStays ==
  ASSUME NEW r, RequestInv(r), logins \subseteq logins'
  PROVE  RequestInv(r)'
<1>1. \A b, k : CookieKnown(b, k) => CookieKnown(b, k)'
  BY DEF CookieKnown, LoginKnown, Tokens
<1>2. /\ Matching(r.req)' = Matching(r.req) /\ Guards(r.req)' = Guards(r.req) /\ WholeRoute(r.req)' = WholeRoute(r.req)
      /\ Begun(r.req, r.ran)' = Begun(r.req, r.ran) /\ Stopped(r.req, r.ran)' = Stopped(r.req, r.ran)
  BY DEF Matching, Guards, WholeRoute, Begun, Stopped
<1> QED BY <1>1 DEF RequestInv
\* One request goes on, the others stay.
LEMMA OthersStay ==
  ASSUME WebInv, NEW t \in Threads, NEW r, thread' = [thread EXCEPT ![t] = r], RequestInv(r)',
         logins \subseteq logins'
  PROVE  DOMAIN thread' = Threads /\ \A s \in Threads : RequestInv(thread[s])'
<1>1. DOMAIN thread = Threads /\ \A s \in Threads : RequestInv(thread[s])
  BY DEF WebInv
<1>2. ASSUME NEW s \in Threads PROVE RequestInv(thread[s])'
  <2>1. CASE s = t
    <3>1. thread'[s] = r
      BY <1>1, <2>1
    <3> QED BY <3>1
  <2>2. CASE s # t
    <3>1. PICK o : o = thread[s]
      OBVIOUS
    <3>2. RequestInv(o)'
      BY <1>1, <3>1, RequestStays
    <3>3. thread'[s] = o
      BY <1>1, <2>2, <3>1
    <3> QED BY <3>2, <3>3
  <2> QED BY <2>1, <2>2
<1> QED BY <1>1, <1>2

\* A request arrives.
LEMMA DispatchKeeps ==
  ASSUME WebInv, NEW t \in Threads, Dispatch(t)
  PROVE  WebInv'
<1>1. PICK q \in WebRequests, own \in Verdicts :
        \E r \in Dispatched([browser |-> q.browser, method |-> q.method, path |-> q.path,
                             csrf |-> q.csrf, big |-> q.big, token |-> jar[q.browser]], own) :
          thread' = [thread EXCEPT ![t] = r]
  BY DEF Dispatch
<1>2. PICK req : req = [browser |-> q.browser, method |-> q.method, path |-> q.path,
                        csrf |-> q.csrf, big |-> q.big, token |-> jar[q.browser]]
  OBVIOUS
<1>3. PICK r \in Dispatched(req, own) : thread' = [thread EXCEPT ![t] = r]
  BY <1>1, <1>2
<1>4. req.browser \in Browsers /\ req.token = jar[req.browser]
  BY <1>2 DEF Browsers
<1>5. RequestInv(r)
  BY <1>3, <1>4, DispatchedInv
<1>6. logins' = logins /\ jar' = jar /\ clock' = clock /\ served' = served + 1 /\ served < MaxRequests
      /\ UNCHANGED <<httpd, loop, stopping, runs>>
  BY DEF Dispatch
<1>7. RequestInv(r)'
  BY <1>5, <1>6, RequestStays
<1>8. DOMAIN thread' = Threads /\ \A s \in Threads : RequestInv(thread[s])'
  BY <1>3, <1>6, <1>7, OthersStay
<1>9. ServerTyped'
  BY <1>6, WebAssumption DEF WebInv, ServerTyped
<1>10. (jar \in [Browsers -> Tokens] /\ \A b \in Browsers : LoginKnown(b, jar[b]))'
  BY <1>6 DEF WebInv, LoginKnown, Browsers, Tokens
<1> QED BY <1>8, <1>9, <1>10 DEF WebInv

\* A handler returns, and perhaps signs a cookie, or raises.
LEMMA RunHandlerKeeps ==
  ASSUME WebInv, NEW t \in Threads, RunHandler(t)
  PROVE  WebInv'
<1>1. PICK r : r = thread[t]
  OBVIOUS
<1>2. RequestInv(r) /\ r.pc = "handler" /\ Matching(r.req) # {} /\ r.ran = Guards(r.req) /\ r.req.browser \in Browsers
  BY <1>1 DEF WebInv, RunHandler, RequestInv
<1>3. PICK deed \in {"login", "logout", "page"} : deed = RouteOf(r.req).deed
  BY <1>2, RouteFound
<1>4. PICK c \in Cookies(deed), s \in {"ok", "odd"} \cup Raising :
        /\ thread' = [thread EXCEPT ![t] = [r EXCEPT !.pc = "after", !.ran = Append(r.ran, deed),
                                                     !.resp = [status |-> s, cookie |-> c]]]
        /\ deed = "login" => s = "ok"
        /\ logins' = IF deed = "login" THEN logins \cup {[browser |-> r.req.browser, user |-> c.user, at |-> clock]}
                     ELSE logins
  <2>1. CASE \E c \in Cookies(deed) :
               /\ thread' = [thread EXCEPT ![t] = [r EXCEPT !.pc = "after", !.ran = Append(r.ran, deed),
                                                            !.resp = [status |-> "ok", cookie |-> c]]]
               /\ logins' = IF deed = "login" THEN logins \cup {[browser |-> r.req.browser, user |-> c.user, at |-> clock]}
                            ELSE logins
    BY <2>1
  <2>2. CASE /\ deed = "page" /\ UNCHANGED logins
             /\ \E s \in Raising \cup {"odd"} :
                  thread' = [thread EXCEPT ![t] = [r EXCEPT !.pc = "after", !.ran = Append(r.ran, deed),
                                                            !.resp = [status |-> s, cookie |-> KeepCookie]]]
    BY <2>2 DEF Cookies
  <2> QED BY <1>1, <1>3, <2>1, <2>2 DEF RunHandler
<1>5. jar' = jar /\ logins \subseteq logins' /\ UNCHANGED <<clock, served, httpd, loop, stopping, runs>>
  BY <1>4 DEF RunHandler
<1>6. PICK n : n = [r EXCEPT !.pc = "after", !.ran = Append(r.ran, deed), !.resp = [status |-> s, cookie |-> c]]
  OBVIOUS
<1>7. /\ n = [pc |-> "after", req |-> r.req, ran |-> WholeRoute(r.req), user |-> r.user, seen |-> r.seen,
              resp |-> [status |-> s, cookie |-> c]]
  BY <1>2, <1>3, <1>6 DEF RequestInv, WholeRoute
<1>8. CookieKnown(r.req.browser, c)'
  <2>1. CASE deed = "login"
    <3>1. PICK u \in Users : c = [user |-> u, iat |-> clock]
      BY <1>4, <2>1 DEF Cookies
    <3>2. clock \in 0 .. MaxClock /\ c \in Tokens
      BY <3>1 DEF WebInv, ServerTyped, Tokens
    <3>3. [browser |-> r.req.browser, user |-> c.user, at |-> c.iat] \in logins'
      BY <1>4, <2>1, <3>1
    <3> QED BY <3>2, <3>3 DEF CookieKnown, LoginKnown, Tokens
  <2>2. CASE deed # "login"
    BY <1>4, <2>2 DEF Cookies, CookieKnown, LoginKnown, Tokens
  <2> QED BY <2>1, <2>2
<1>9. s \in Raising => Begun(r.req, WholeRoute(r.req))
  <2>1. Before \in Seq(Steps) /\ RouteOf(r.req).middleware \in Seq(Steps) /\ RouteOf(r.req).deed \in {"login", "logout", "page"}
    BY <1>2, RouteFound, WebAssumption
  <2> DEFINE S == Steps \cup {"login", "logout", "page"}
  <2>2. /\ Guards(r.req) \in Seq(S) /\ Len(Guards(r.req)) = Len(Before) + Len(RouteOf(r.req).middleware)
        /\ RouteOf(r.req).deed \in S /\ Len(Before) \in Nat /\ Len(RouteOf(r.req).middleware) \in Nat
    BY <2>1 DEF Guards
  <2>3. WholeRoute(r.req) \in Seq(S) /\ Len(WholeRoute(r.req)) = Len(Guards(r.req)) + 1
    BY <2>2, AppendProperties DEF WholeRoute
  <2>4. Len(WholeRoute(r.req)) \in Len(Before) .. Len(WholeRoute(r.req))
    BY <2>2, <2>3
  <2>5. WholeRoute(r.req) = SubSeq(WholeRoute(r.req), 1, Len(WholeRoute(r.req)))
    BY <2>3, WholeSequence
  <2> QED BY <2>4, <2>5 DEF Begun
<1>10. RequestInv(n)'
  <2>1. RequestInv(r)'
    BY <1>2, <1>5, RequestStays
  <2>2. /\ n.pc = "after" /\ n.req = r.req /\ n.ran = WholeRoute(r.req) /\ n.user = r.user /\ n.seen = r.seen
        /\ n.resp.status = s /\ n.resp.cookie = c
    BY <1>7
  <2>3. s = "ok" \/ s \in Raising \/ s = "odd"
    OBVIOUS
  <2> QED BY <1>2, <1>7, <1>8, <1>9, <2>1, <2>2, <2>3 DEF RequestInv, Begun, WholeRoute, Guards, Matching
<1>11. DOMAIN thread' = Threads /\ \A u \in Threads : RequestInv(thread[u])'
  BY <1>4, <1>5, <1>6, <1>10, OthersStay
<1>12. ServerTyped'
  BY <1>5 DEF WebInv, ServerTyped
<1>13. (jar \in [Browsers -> Tokens] /\ \A b \in Browsers : LoginKnown(b, jar[b]))'
  BY <1>5 DEF WebInv, LoginKnown, Browsers, Tokens
<1> QED BY <1>11, <1>12, <1>13 DEF WebInv
\* The answer is written, with its cookie, or lost.
LEMMA WriteAnswerKeeps ==
  ASSUME WebInv, NEW t \in Threads, WriteAnswer(t)
  PROVE  WebInv'
<1>1. PICK r : r = thread[t]
  OBVIOUS
<1>2. RequestInv(r) /\ r.pc \in {"after", "write"} /\ r.req.browser \in Browsers /\ CookieKnown(r.req.browser, r.resp.cookie)
  BY <1>1 DEF WebInv, WriteAnswer, RequestInv
<1>3. PICK raises \in BOOLEAN :
        LET own == IF raises THEN "Exception" ELSE "pass"
            lost == raises \/ r.resp.status = "odd" IN
        /\ thread' = [thread EXCEPT ![t] = [r EXCEPT
             !.ran = IF r.pc = "after" THEN r.ran \o Called(After, r.req, own) ELSE r.ran,
             !.pc = IF lost THEN "dead" ELSE "answered"]]
        /\ jar' = IF lost \/ r.resp.cookie = KeepCookie THEN jar ELSE [jar EXCEPT ![r.req.browser] = r.resp.cookie]
  BY <1>1 DEF WriteAnswer
<1>4. UNCHANGED <<clock, logins, served, httpd, loop, stopping, runs>>
  BY DEF WriteAnswer
<1>5. PICK ran : ran = IF r.pc = "after" THEN r.ran \o Called(After, r.req, IF raises THEN "Exception" ELSE "pass") ELSE r.ran
  OBVIOUS
<1>6. PICK pc \in {"dead", "answered"} : pc = IF raises \/ r.resp.status = "odd" THEN "dead" ELSE "answered"
  OBVIOUS
<1>7. PICK n : n = [r EXCEPT !.ran = ran, !.pc = pc]
  OBVIOUS
<1>8. thread' = [thread EXCEPT ![t] = n]
  BY <1>3, <1>5, <1>6, <1>7
<1>9. n = [pc |-> pc, req |-> r.req, ran |-> ran, user |-> r.user, seen |-> r.seen,
           resp |-> [status |-> r.resp.status, cookie |-> r.resp.cookie]]
  <2>1. r = [pc |-> r.pc, req |-> r.req, ran |-> r.ran, user |-> r.user, seen |-> r.seen,
             resp |-> [status |-> r.resp.status, cookie |-> r.resp.cookie]]
    BY <1>2 DEF RequestInv
  <2>2. PICK p, q, a, u, k, w, c : r = [pc |-> p, req |-> q, ran |-> a, user |-> u, seen |-> k, resp |-> [status |-> w, cookie |-> c]]
    BY <2>1
  <2>3. n = [pc |-> pc, req |-> q, ran |-> ran, user |-> u, seen |-> k, resp |-> [status |-> w, cookie |-> c]]
    BY <1>7, <2>2
  <2> QED BY <2>2, <2>3
<1>10. pc = "answered" =>
         /\ r.resp.status = "ok" => ran = WholeRoute(r.req) \o After
         /\ r.resp.status \in Raising =>
              \E k \in Len(Before) .. Len(WholeRoute(r.req)) : ran = SubSeq(WholeRoute(r.req), 1, k) \o After
         /\ r.resp.status \notin Raising \cup {"ok"} => Stopped(r.req, ran)
  <2> SUFFICES ASSUME pc = "answered"
               PROVE  /\ r.resp.status = "ok" => ran = WholeRoute(r.req) \o After
                      /\ r.resp.status \in Raising =>
                           \E k \in Len(Before) .. Len(WholeRoute(r.req)) : ran = SubSeq(WholeRoute(r.req), 1, k) \o After
                      /\ r.resp.status \notin Raising \cup {"ok"} => Stopped(r.req, ran)
    OBVIOUS
  <2>1. raises = FALSE /\ r.resp.status # "odd"
    BY <1>6
  <2>2. CASE r.pc = "after"
    <3>1. ran = r.ran \o After
      BY <1>5, <2>1, <2>2, AfterAll
    <3>2. CASE r.resp.status = "ok"
      BY <1>2, <2>2, <3>1, <3>2 DEF RequestInv, Raising
    <3>3. CASE r.resp.status \in Raising
      BY <1>2, <2>2, <3>1, <3>3 DEF RequestInv, Raising, Begun
    <3> QED BY <1>2, <2>1, <2>2, <3>2, <3>3 DEF RequestInv
  <2>3. CASE r.pc = "write"
    BY <1>2, <1>5, <2>3 DEF RequestInv
  <2> QED BY <1>2, <2>2, <2>3
<1>11. RequestInv(n)'
  <2>1. /\ n.pc = pc /\ n.req = r.req /\ n.ran = ran /\ n.user = r.user /\ n.seen = r.seen
        /\ n.resp.status = r.resp.status /\ n.resp.cookie = r.resp.cookie
    BY <1>9
  <2>2. RequestInv(n)
    BY <1>2, <1>9, <1>10, <2>1 DEF RequestInv
  <2> QED BY <1>4, <2>2, RequestStays
<1>12. DOMAIN thread' = Threads /\ \A u \in Threads : RequestInv(thread[u])'
  BY <1>4, <1>8, <1>11, OthersStay
<1>13. ServerTyped'
  BY <1>4 DEF WebInv, ServerTyped
<1>14. (jar \in [Browsers -> Tokens] /\ \A b \in Browsers : LoginKnown(b, jar[b]))'
  <2>1. jar \in [Browsers -> Tokens] /\ \A b \in Browsers : LoginKnown(b, jar[b])
    BY DEF WebInv
  <2>2. \A b, k : LoginKnown(b, k)' <=> LoginKnown(b, k)
    BY <1>4 DEF LoginKnown
  <2>3. CASE jar' = jar
    BY <2>1, <2>3, <1>4 DEF LoginKnown, Tokens, Browsers
  <2>4. CASE r.resp.cookie # KeepCookie /\ jar' = [jar EXCEPT ![r.req.browser] = r.resp.cookie]
    <3>1. r.resp.cookie \in Tokens /\ LoginKnown(r.req.browser, r.resp.cookie)
      BY <1>2, <2>4 DEF CookieKnown
    <3>2. jar' \in [Browsers -> Tokens]
      BY <2>1, <2>4, <3>1
    <3>3. ASSUME NEW b \in Browsers PROVE LoginKnown(b, jar[b])'
      <4>1. PICK k : k = jar'[b]
        OBVIOUS
      <4>2. LoginKnown(b, k)
        BY <1>2, <2>1, <2>4, <3>1, <4>1
      <4> QED BY <1>4, <4>1, <4>2 DEF LoginKnown
    <3> QED BY <3>2, <3>3 DEF Tokens, Browsers
  <2> QED BY <1>3, <2>3, <2>4
<1> QED BY <1>12, <1>13, <1>14 DEF WebInv

\* Every step of the server keeps the invariant.
LEMMA WebSteps == WebInv /\ [WebNext]_webVars => WebInv'
<1>1. ASSUME WebInv, NEW t \in Threads, FinishRequest(t) PROVE WebInv'
  <2>1. thread' = [thread EXCEPT ![t] = NoRequest] /\ UNCHANGED <<clock, jar, logins, served, httpd, loop, stopping, runs>>
    BY <1>1 DEF FinishRequest
  <2>2. RequestInv(NoRequest)'
    BY RequestAt DEF NoRequest, RequestInv, At
  <2>3. DOMAIN thread' = Threads /\ \A u \in Threads : RequestInv(thread[u])'
    BY <1>1, <2>1, <2>2, OthersStay
  <2> QED BY <1>1, <2>1, <2>3 DEF WebInv, ServerTyped, LoginKnown, Browsers, Tokens
<1>2. ASSUME WebInv, UNCHANGED <<jar, logins, thread>>, ServerTyped' PROVE WebInv'
  <2>1. ASSUME NEW t \in Threads PROVE RequestInv(thread[t])'
    <3>1. PICK r : r = thread[t]
      OBVIOUS
    <3>2. RequestInv(r)'
      BY <1>2, <3>1, RequestStays DEF WebInv
    <3> QED BY <1>2, <3>1, <3>2
  <2> QED BY <1>2, <2>1 DEF WebInv, LoginKnown, Browsers, Tokens
<1>3. ASSUME WebInv, RunBackground \/ ServeForever \/ AskToStop \/ LoopEnds \/ ServerClose \/ ClockTicks \/ UNCHANGED webVars
      PROVE  WebInv'
  <2>1. UNCHANGED <<jar, logins, thread>>
    BY <1>3 DEF RunBackground, ServeForever, AskToStop, LoopEnds, ServerClose, ClockTicks, webVars
  <2>2. ServerTyped /\ MaxRuns \in Nat /\ MaxClock \in Nat
    BY <1>3, WebAssumption DEF WebInv
  <2>3. ServerTyped'
    <3>1. CASE RunBackground
      BY <3>1, <2>2 DEF ServerTyped, RunBackground
    <3>2. CASE ServeForever \/ AskToStop \/ LoopEnds \/ ServerClose \/ UNCHANGED webVars
      BY <3>2, <2>2 DEF ServerTyped, ServeForever, AskToStop, LoopEnds, ServerClose, webVars
    <3>3. CASE ClockTicks
      BY <3>3, <2>2 DEF ServerTyped, ClockTicks
    <3> QED BY <1>3, <3>1, <3>2, <3>3
  <2> QED BY <1>2, <1>3, <2>1, <2>3
<1> QED BY <1>1, <1>3, DispatchKeeps, RunHandlerKeeps, WriteAnswerKeeps DEF WebNext, Handling

\* The invariant is what the application and its users rely on.
LEMMA WebInvTrue == WebInv => WebTypeOK /\ PipelineInOrder /\ SessionsSound
<1> SUFFICES ASSUME WebInv PROVE WebTypeOK /\ PipelineInOrder /\ SessionsSound
  OBVIOUS
<1>1. WebTypeOK
  BY DEF WebInv, ServerTyped, WebTypeOK, RequestInv, Tokens
<1>2. PipelineInOrder
  BY DEF WebInv, RequestInv, PipelineInOrder, Stopped
<1>3. SessionsSound
  BY DEF WebInv, RequestInv, SessionsSound
<1> QED BY <1>1, <1>2, <1>3
-----------------------------------------------------------------------------
(***************************************************************************)
(* The frames of a WebSocket (realtime.py).                                *)
(***************************************************************************)

\* Where the pieces of a frame are: behind the head, the size and the key comes
\* the payload.
KeyAt(f) == IF Short(f.size) THEN 2 ELSE 3
DataAt(f, mask) == KeyAt(f) + (IF mask THEN 1 ELSE 0)

\* No piece, or this one.
AtMost(t, x, l) == (t = <<>> /\ l = 0) \/ (t = <<x>> /\ l = 1)

\* r is s, m pieces long, and l more, which is x.
Onto(s, m, x, r, l) == (\A i \in 1 .. m : r[i] = s[i]) /\ (l = 1 => r[m + 1] = x)
Grown(S, s, m, x, r, l) == r \in Seq(S) /\ m + l = Len(r) /\ m + l \in Nat /\ Onto(s, m, x, r, l)

\* A piece more, or none.
LEMMA OnePiece ==
  ASSUME NEW S, NEW s \in Seq(S), NEW m, m = Len(s), NEW x \in S, NEW t, NEW l, NEW r, r = s \o t, AtMost(t, x, l)
  PROVE  Grown(S, s, m, x, r, l)
<1>1. CASE t = <<x>> /\ l = 1
  BY <1>1 DEF Grown, Onto
<1>2. CASE t = <<>> /\ l = 0
  BY <1>2 DEF Grown, Onto
<1> QED BY <1>1, <1>2 DEF AtMost

Few == {0, 1}

\* In g each piece is where those before it end.
InPlace(g, head, size, key, first, rest, l, m, j, k) ==
  /\ g[1] = head
  /\ l = 1 => g[2] = size
  /\ m = 1 => g[2 + l] = key
  /\ j = 1 => g[2 + l + m] = first
  /\ k = 1 => g[2 + l + m + j] = rest

\* Behind one another, each is where those before it end.
LEMMA PiecesInPlace ==
  ASSUME NEW a, NEW b, NEW c, NEW e, NEW g, NEW head, NEW size, NEW key, NEW first, NEW rest,
         NEW l \in Few, NEW m \in Few, NEW j \in Few, NEW k \in Few,
         a[1] = head, Onto(a, 1, size, b, l), Onto(b, 1 + l, key, c, m),
         Onto(c, 1 + l + m, first, e, j), Onto(e, 1 + l + m + j, rest, g, k)
  PROVE  InPlace(g, head, size, key, first, rest, l, m, j, k)
<1>1. g[1] = head
  BY DEF Onto, Few
<1>2. l = 1 => g[2] = size
  BY DEF Onto, Few
<1>3. m = 1 => g[2 + l] = key
  BY DEF Onto, Few
<1>4. j = 1 => g[2 + l + m] = first
  BY DEF Onto, Few
<1>5. k = 1 => g[2 + l + m + j] = rest
  BY DEF Onto, Few
<1> QED BY <1>1, <1>2, <1>3, <1>4, <1>5 DEF InPlace

\* A head, and the pieces that follow it.
LEMMA FivePieces ==
  ASSUME NEW S, NEW head \in S, NEW size \in S, NEW key \in S, NEW first \in S, NEW rest \in S,
         NEW sizes, NEW keys, NEW firsts, NEW rests, NEW l, NEW m, NEW j, NEW k,
         AtMost(sizes, size, l), AtMost(keys, key, m), AtMost(firsts, first, j), AtMost(rests, rest, k),
         NEW g, g = <<head>> \o sizes \o keys \o firsts \o rests
  PROVE  g \in Seq(S) /\ 1 + l + m + j + k = Len(g) /\ InPlace(g, head, size, key, first, rest, l, m, j, k)
<1>1. PICK a : a = <<head>>
  OBVIOUS
<1>2. PICK b : b = a \o sizes
  OBVIOUS
<1>3. PICK c : c = b \o keys
  OBVIOUS
<1>4. PICK e : e = c \o firsts
  OBVIOUS
<1>5. g = e \o rests
  BY <1>1, <1>2, <1>3, <1>4
<1>6. a \in Seq(S) /\ 1 = Len(a) /\ a[1] = head
  BY <1>1
<1>7. Grown(S, a, 1, size, b, l)
  BY <1>2, <1>6, OnePiece, Zenon
<1>8. Grown(S, b, 1 + l, key, c, m)
  <2>1. b \in Seq(S) /\ 1 + l = Len(b)
    BY <1>7, Zenon DEF Grown
  <2> QED BY <1>3, <2>1, OnePiece, Zenon
<1>9. Grown(S, c, 1 + l + m, first, e, j)
  <2>1. c \in Seq(S) /\ 1 + l + m = Len(c)
    BY <1>8, Zenon DEF Grown
  <2> QED BY <1>4, <2>1, OnePiece, Zenon
<1>10. Grown(S, e, 1 + l + m + j, rest, g, k)
  <2>1. e \in Seq(S) /\ 1 + l + m + j = Len(e)
    BY <1>9, Zenon DEF Grown
  <2> QED BY <1>5, <2>1, OnePiece, Zenon
<1>11. l \in Few /\ m \in Few /\ j \in Few /\ k \in Few
  BY DEF AtMost, Few
<1>12. /\ g \in Seq(S) /\ 1 + l + m + j + k = Len(g)
       /\ Onto(a, 1, size, b, l) /\ Onto(b, 1 + l, key, c, m)
       /\ Onto(c, 1 + l + m, first, e, j) /\ Onto(e, 1 + l + m + j, rest, g, k)
  BY <1>7, <1>8, <1>9, <1>10, Zenon DEF Grown
<1>13. InPlace(g, head, size, key, first, rest, l, m, j, k)
  BY <1>6, <1>11, <1>12, PiecesInPlace, Zenon
<1> QED BY <1>12, <1>13, Zenon

\* P is frame f as number n: its first piece, and where its size, key and payload are.
EncodesIt(f, n, mask, P, q, d, len) ==
  /\ \E S : P \in Seq(S)
  /\ q \in {2, 3} /\ (q = 2 <=> f.size < 126) /\ d = (IF mask THEN q + 1 ELSE q)
  /\ len = (IF f.size = 0 THEN d - 1 ELSE IF f.size = 1 THEN d ELSE d + 1)
  /\ P[1].kind = "head" /\ P[1].op = f.op /\ P[1].of = n
  /\ P[1].value = (IF f.size < 126 THEN f.size ELSE IF f.size <= 65535 THEN 126 ELSE 127)
  /\ q = 3 => P[2].kind = "size" /\ P[2].value = f.size /\ P[2].of = n
  /\ mask => P[q].kind = "key" /\ P[q].of = n
  /\ f.size = 1 => P[d].kind = "data" /\ P[d].of = n /\ P[d].value = 1
  /\ f.size > 1 => /\ P[d].kind = "data" /\ P[d].of = n /\ P[d].value = f.size \div 2
                   /\ P[d + 1].kind = "data" /\ P[d + 1].of = n /\ P[d + 1].value = f.size - f.size \div 2

\* What is sent for a frame: a head, a size and a key where they are called for,
\* and the payload in two.
LEMMA Encoded ==
  ASSUME NEW f, f.size \in Nat, NEW n, NEW mask \in BOOLEAN, NEW P, P = EncodeFrame(f, n, mask),
         NEW q, q = KeyAt(f), NEW d, d = DataAt(f, mask), NEW len, len = Len(P)
  PROVE  EncodesIt(f, n, mask, P, q, d, len)
<1>1. PICK half : half = f.size \div 2
  OBVIOUS
<1>2. /\ half \in Nat /\ (f.size = 0 => half = 0) /\ (f.size = 1 => half = 0) /\ (f.size > 1 => half > 0)
      /\ TwoBytes(f.size) => f.size % 65536 = f.size
  BY <1>1 DEF TwoBytes
<1>3. PICK head : head = Piece("head", f.op, IF Short(f.size) THEN f.size ELSE IF TwoBytes(f.size) THEN 126 ELSE 127, n)
  OBVIOUS
<1>4. PICK size : size = Piece("size", f.op, IF TwoBytes(f.size) THEN f.size % 65536 ELSE f.size, n)
  OBVIOUS
<1>5. PICK key : key = Piece("key", f.op, 0, n)
  OBVIOUS
<1>6. PICK first : first = Piece("data", f.op, half, n)
  OBVIOUS
<1>7. PICK rest : rest = Piece("data", f.op, f.size - half, n)
  OBVIOUS
<1>8. PICK sizes : sizes = IF Short(f.size) THEN <<>> ELSE <<size>>
  OBVIOUS
<1>9. PICK keys : keys = IF mask THEN <<key>> ELSE <<>>
  OBVIOUS
<1>10. PICK firsts : firsts = IF half > 0 THEN <<first>> ELSE <<>>
  OBVIOUS
<1>11. PICK rests : rests = IF f.size > 0 THEN <<rest>> ELSE <<>>
  OBVIOUS
<1>12. P = <<head>> \o sizes \o keys \o firsts \o rests
  BY <1>1, <1>3, <1>4, <1>5, <1>6, <1>7, <1>8, <1>9, <1>10, <1>11 DEF EncodeFrame
<1>13. PICK S : head \in S /\ size \in S /\ key \in S /\ first \in S /\ rest \in S
  <2>1. WITNESS {head, size, key, first, rest}
  <2> QED OBVIOUS
<1>14. PICK l : l = IF f.size < 126 THEN 0 ELSE 1
  OBVIOUS
<1>15. PICK m : m = IF mask THEN 1 ELSE 0
  OBVIOUS
<1>16. PICK j : j = IF f.size > 1 THEN 1 ELSE 0
  OBVIOUS
<1>17. PICK k : k = IF f.size > 0 THEN 1 ELSE 0
  OBVIOUS
<1>18. AtMost(sizes, size, l) /\ AtMost(keys, key, m) /\ AtMost(firsts, first, j) /\ AtMost(rests, rest, k)
  BY <1>2, <1>8, <1>9, <1>10, <1>11, <1>14, <1>15, <1>16, <1>17 DEF Short, AtMost
<1>19. /\ P \in Seq(S) /\ 1 + l + m + j + k = len
       /\ P[1] = head
       /\ l = 1 => P[2] = size
       /\ m = 1 => P[2 + l] = key
       /\ j = 1 => P[2 + l + m] = first
       /\ k = 1 => P[2 + l + m + j] = rest
  <2>1. P \in Seq(S) /\ 1 + l + m + j + k = Len(P) /\ InPlace(P, head, size, key, first, rest, l, m, j, k)
    BY <1>12, <1>13, <1>18, FivePieces, Zenon
  <2> QED BY <2>1, Zenon DEF InPlace
<1>20. q = 2 + l /\ l \in {0, 1} /\ (l = 0 <=> f.size < 126)
  BY <1>14 DEF Short, KeyAt
<1>21. d = 2 + l + m /\ m \in {0, 1} /\ (m = 1 <=> mask) /\ d = q + (IF mask THEN 1 ELSE 0)
  BY <1>15, <1>20 DEF DataAt
<1>22. /\ f.size > 1 => j = 1 /\ k = 1
       /\ f.size = 1 => j = 0 /\ k = 1
       /\ f.size = 0 => j = 0 /\ k = 0
  BY <1>16, <1>17
<1>23. len = (IF f.size = 0 THEN d - 1 ELSE IF f.size = 1 THEN d ELSE d + 1)
  BY <1>19, <1>20, <1>21, <1>22
<1>24. /\ head.kind = "head" /\ head.op = f.op /\ head.of = n
       /\ head.value = (IF f.size < 126 THEN f.size ELSE IF f.size <= 65535 THEN 126 ELSE 127)
  BY <1>3 DEF Piece, Short, TwoBytes
<1>25. size.kind = "size" /\ size.value = f.size /\ size.of = n /\ key.kind = "key" /\ key.of = n
  BY <1>2, <1>4, <1>5 DEF Piece
<1>26. /\ first.kind = "data" /\ first.value = half /\ first.of = n
       /\ rest.kind = "data" /\ rest.value = f.size - half /\ rest.of = n
  BY <1>6, <1>7 DEF Piece
<1>27. q = 3 => P[2] = size
  BY <1>19, <1>20
<1>28. mask => P[q] = key
  BY <1>19, <1>20, <1>21
<1>29. f.size = 1 => P[d] = rest /\ half = 0
  BY <1>2, <1>19, <1>20, <1>21, <1>22
<1>30. f.size > 1 => P[d] = first /\ P[d + 1] = rest
  BY <1>19, <1>20, <1>21, <1>22
<1>31. q \in {2, 3} /\ (q = 2 <=> f.size < 126) /\ d = (IF mask THEN q + 1 ELSE q)
  BY <1>20, <1>21
<1>32. f.size = 1 => P[d].kind = "data" /\ P[d].of = n /\ P[d].value = 1
  <2>1. f.size = 1 => f.size - half = 1
    BY <1>2
  <2> QED BY <1>26, <1>29, <2>1
<1>33. f.size > 1 => P[d].kind = "data" /\ P[d].of = n /\ P[d].value = f.size \div 2
  BY <1>1, <1>26, <1>30
<1>34. f.size > 1 => P[d + 1].kind = "data" /\ P[d + 1].of = n /\ P[d + 1].value = f.size - f.size \div 2
  BY <1>1, <1>26, <1>30
<1>35. P[1].kind = "head" /\ P[1].op = f.op /\ P[1].of = n
  BY <1>19, <1>24
<1>36. P[1].value = (IF f.size < 126 THEN f.size ELSE IF f.size <= 65535 THEN 126 ELSE 127)
  BY <1>19, <1>24
<1>37. q = 3 => P[2].kind = "size" /\ P[2].value = f.size /\ P[2].of = n
  BY <1>25, <1>27
<1>38. mask => P[q].kind = "key" /\ P[q].of = n
  BY <1>25, <1>28
<1>39. \E T : P \in Seq(T)
  BY <1>19
<1> QED BY <1>23, <1>31, <1>32, <1>33, <1>34, <1>35, <1>36, <1>37, <1>38, <1>39 DEF EncodesIt

\* Everything a socket may carry.
Carried(fs, mask) ==
  {HandshakeAnswer} \cup {EncodeFrame(fs[n], n, mask)[i] : n \in DOMAIN fs, i \in 1 .. 5}

Frames(fs) == fs \in Seq({fs[i] : i \in DOMAIN fs}) /\ \A i \in DOMAIN fs : fs[i].size \in Nat

\* The pieces in s are those of the first m frames from piece i of frame n on: fr
\* and ix say of each which it is.
Follow(fs, mask, m, s, fr, ix) ==
  /\ fr \in [1 .. Len(s) + 1 -> Nat] /\ ix \in [1 .. Len(s) + 1 -> Nat]
  /\ fr[Len(s) + 1] = m + 1 /\ ix[Len(s) + 1] = 1
  /\ \A j \in 1 .. Len(s) :
       LET P == EncodeFrame(fs[fr[j]], fr[j], mask) IN
       /\ fr[j] \in 1 .. m /\ ix[j] \in 1 .. Len(P) /\ s[j] = P[ix[j]]
       /\ IF ix[j] < Len(P) THEN fr[j + 1] = fr[j] /\ ix[j + 1] = ix[j] + 1
                            ELSE fr[j + 1] = fr[j] + 1 /\ ix[j + 1] = 1
StandsAt(fs, mask, m, s, n, i) ==
  \E fr, ix : Follow(fs, mask, m, s, fr, ix) /\ fr[1] = n /\ ix[1] = i

\* A frame is a sequence of one to five pieces.
LEMMA FrameCarried ==
  ASSUME NEW fs, Frames(fs), NEW mask \in BOOLEAN, NEW n \in DOMAIN fs, NEW P, P = EncodeFrame(fs[n], n, mask)
  PROVE  P \in Seq(Carried(fs, mask)) /\ Len(P) \in 1 .. 5
<1>1. fs[n].size \in Nat
  BY DEF Frames
<1>2. PICK q : q = KeyAt(fs[n])
  OBVIOUS
<1>3. PICK d : d = DataAt(fs[n], mask)
  OBVIOUS
<1>4. PICK len : len = Len(P)
  OBVIOUS
<1>5. /\ \E S : P \in Seq(S)
      /\ q \in {2, 3} /\ d = (IF mask THEN q + 1 ELSE q)
      /\ len = (IF fs[n].size = 0 THEN d - 1 ELSE IF fs[n].size = 1 THEN d ELSE d + 1)
  <2>1. EncodesIt(fs[n], n, mask, P, q, d, len)
    BY <1>1, <1>2, <1>3, <1>4, Encoded
  <2> QED BY <2>1 DEF EncodesIt
<1>6. len \in 1 .. 5
  BY <1>1, <1>5
<1>7. \A i \in 1 .. len : P[i] \in Carried(fs, mask)
  BY <1>6 DEF Carried
<1>8. PICK S : P \in Seq(S)
  BY <1>5
<1>9. P \in [1 .. len -> Carried(fs, mask)]
  BY <1>4, <1>7, <1>8
<1> QED BY <1>4, <1>6, <1>9

\* Where nothing has been sent, the first frame is next.
LEMMA NothingSent == ASSUME NEW fs, NEW mask PROVE StandsAt(fs, mask, 0, <<>>, 1, 1)
<1>1. PICK one : one = [j \in 1 .. 1 |-> 1]
  OBVIOUS
<1>2. Follow(fs, mask, 0, <<>>, one, one) /\ one[1] = 1
  BY <1>1 DEF Follow
<1> QED BY <1>2 DEF StandsAt

\* Where nothing is left, all that was sent has been read.
LEMMA NothingLeft ==
  ASSUME NEW fs, NEW mask, NEW m \in Nat, NEW n, NEW i, StandsAt(fs, mask, m, <<>>, n, i)
  PROVE  n = m + 1 /\ i = 1
<1>1. PICK fr, ix : Follow(fs, mask, m, <<>>, fr, ix) /\ fr[1] = n /\ ix[1] = i
  BY DEF StandsAt
<1> QED BY <1>1 DEF Follow

\* Reading a piece.
LEMMA PieceRead ==
  ASSUME NEW fs, NEW mask, NEW m \in Nat, NEW S, NEW s \in Seq(S), s # <<>>, NEW n, NEW i,
         StandsAt(fs, mask, m, s, n, i), NEW P, P = EncodeFrame(fs[n], n, mask), NEW len, len = Len(P)
  PROVE  /\ n \in 1 .. m /\ i \in 1 .. len /\ Head(s) = P[i]
         /\ i < len => StandsAt(fs, mask, m, Tail(s), n, i + 1)
         /\ ~(i < len) => StandsAt(fs, mask, m, Tail(s), n + 1, 1)
<1>1. PICK fr, ix : Follow(fs, mask, m, s, fr, ix) /\ fr[1] = n /\ ix[1] = i
  BY DEF StandsAt
<1>2. PICK l \in Nat : l = Len(s) /\ l > 0
  OBVIOUS
<1>3. /\ n \in 1 .. m /\ i \in 1 .. len /\ s[1] = P[i]
      /\ IF i < len THEN fr[2] = n /\ ix[2] = i + 1 ELSE fr[2] = n + 1 /\ ix[2] = 1
  BY <1>1, <1>2 DEF Follow
<1>4. PICK t : t = Tail(s) /\ l - 1 = Len(t) /\ \A j \in 1 .. l - 1 : t[j] = s[j + 1]
  <2>1. /\ Tail(s) \in Seq(S) /\ l - 1 = Len(Tail(s)) /\ \A j \in 1 .. l - 1 : Tail(s)[j] = s[j + 1]
    BY <1>2, HeadTailProperties
  <2> QED BY <2>1
<1>5. PICK gr : gr = [j \in 1 .. l |-> fr[j + 1]]
  OBVIOUS
<1>6. PICK jx : jx = [j \in 1 .. l |-> ix[j + 1]]
  OBVIOUS
<1>7. Follow(fs, mask, m, t, gr, jx)
  <2>1. gr \in [1 .. l -> Nat] /\ jx \in [1 .. l -> Nat] /\ gr[l] = m + 1 /\ jx[l] = 1
    BY <1>1, <1>2, <1>5, <1>6 DEF Follow
  <2>2. ASSUME NEW j \in 1 .. l - 1
        PROVE  LET F == EncodeFrame(fs[gr[j]], gr[j], mask) IN
               /\ gr[j] \in 1 .. m /\ jx[j] \in 1 .. Len(F) /\ t[j] = F[jx[j]]
               /\ IF jx[j] < Len(F) THEN gr[j + 1] = gr[j] /\ jx[j + 1] = jx[j] + 1
                                    ELSE gr[j + 1] = gr[j] + 1 /\ jx[j + 1] = 1
    <3>1. PICK k : k = j + 1 /\ k \in 1 .. l
      BY <2>2
    <3>2. gr[j] = fr[k] /\ jx[j] = ix[k] /\ gr[j + 1] = fr[k + 1] /\ jx[j + 1] = ix[k + 1] /\ t[j] = s[k]
      BY <1>2, <1>4, <1>5, <1>6, <3>1
    <3>3. LET F == EncodeFrame(fs[fr[k]], fr[k], mask) IN
          /\ fr[k] \in 1 .. m /\ ix[k] \in 1 .. Len(F) /\ s[k] = F[ix[k]]
          /\ IF ix[k] < Len(F) THEN fr[k + 1] = fr[k] /\ ix[k + 1] = ix[k] + 1
                               ELSE fr[k + 1] = fr[k] + 1 /\ ix[k + 1] = 1
      BY <1>1, <1>2, <3>1 DEF Follow
    <3> QED BY <3>2, <3>3
  <2>3. Len(t) + 1 = l
    BY <1>2, <1>4
  <2> QED BY <1>2, <1>4, <2>1, <2>2, <2>3 DEF Follow
<1>8. gr[1] = fr[2] /\ jx[1] = ix[2]
  BY <1>2, <1>5, <1>6
<1>9. StandsAt(fs, mask, m, Tail(s), fr[2], ix[2])
  BY <1>4, <1>7, <1>8 DEF StandsAt
<1>10. Head(s) = s[1]
  BY <1>2
<1> QED BY <1>3, <1>9, <1>10
\* Sending one more frame.
LEMMA FrameSent ==
  ASSUME NEW fs, Frames(fs), NEW mask \in BOOLEAN, NEW m \in Nat, m + 1 \in DOMAIN fs, NEW S, NEW s \in Seq(S),
         NEW n, NEW i, StandsAt(fs, mask, m, s, n, i), NEW P, P = EncodeFrame(fs[m + 1], m + 1, mask), P \in Seq(S)
  PROVE  StandsAt(fs, mask, m + 1, s \o P, n, i)
<1>1. PICK fr, ix : Follow(fs, mask, m, s, fr, ix) /\ fr[1] = n /\ ix[1] = i
  BY DEF StandsAt
<1>2. PICK l \in Nat : l = Len(s)
  OBVIOUS
<1>3. PICK len \in Nat : len = Len(P) /\ len > 0
  <2>1. Len(P) \in 1 .. 5
    BY FrameCarried, Zenon
  <2>2. \A x \in 1 .. 5 : x \in Nat /\ x > 0
    OBVIOUS
  <2> QED BY <2>1, <2>2, Zenon
<1>4. PICK t : t = s \o P
  OBVIOUS
<1>5. /\ l + len = Len(t)
      /\ \A j \in 1 .. l : t[j] = s[j]
      /\ \A j \in 1 .. len : t[l + j] = P[j]
  <2>1. /\ Len(s \o P) = l + len
        /\ \A j \in 1 .. l + len : (s \o P)[j] = IF j <= l THEN s[j] ELSE P[j - l]
    BY <1>2, <1>3, ConcatProperties
  <2>2. l + len = Len(t) /\ \A j \in 1 .. l + len : t[j] = IF j <= l THEN s[j] ELSE P[j - l]
    BY <1>4, <2>1, Zenon
  <2>3. \A j \in 1 .. l : t[j] = s[j]
    BY <1>3, <2>2
  <2>4. ASSUME NEW j \in 1 .. len PROVE t[l + j] = P[j]
    <3>1. l + j \in 1 .. l + len /\ ~(l + j <= l) /\ (l + j) - l = j
      OBVIOUS
    <3> QED BY <2>2, <3>1
  <2> QED BY <2>2, <2>3, <2>4
<1>6. PICK gr : gr = [j \in 1 .. l + len + 1 |-> IF j <= l THEN fr[j] ELSE IF j <= l + len THEN m + 1 ELSE m + 2]
  OBVIOUS
<1>7. PICK jx : jx = [j \in 1 .. l + len + 1 |-> IF j <= l THEN ix[j] ELSE IF j <= l + len THEN j - l ELSE 1]
  OBVIOUS
<1>8. /\ fr \in [1 .. l + 1 -> Nat] /\ ix \in [1 .. l + 1 -> Nat] /\ fr[l + 1] = m + 1 /\ ix[l + 1] = 1
  BY <1>1, <1>2 DEF Follow
<1>9. /\ gr \in [1 .. l + len + 1 -> Nat] /\ jx \in [1 .. l + len + 1 -> Nat]
      /\ gr[l + len + 1] = (m + 1) + 1 /\ jx[l + len + 1] = 1
  BY <1>3, <1>6, <1>7, <1>8
<1>10. \A j \in 1 .. l + 1 : gr[j] = fr[j] /\ jx[j] = ix[j]
  BY <1>3, <1>6, <1>7, <1>8
<1>11. ASSUME NEW j \in 1 .. l + len
       PROVE  LET F == EncodeFrame(fs[gr[j]], gr[j], mask) IN
              /\ gr[j] \in 1 .. m + 1 /\ jx[j] \in 1 .. Len(F) /\ t[j] = F[jx[j]]
              /\ IF jx[j] < Len(F) THEN gr[j + 1] = gr[j] /\ jx[j + 1] = jx[j] + 1
                                   ELSE gr[j + 1] = gr[j] + 1 /\ jx[j + 1] = 1
  <2>1. CASE j <= l
    <3>1. /\ gr[j] = fr[j] /\ jx[j] = ix[j] /\ gr[j + 1] = fr[j + 1] /\ jx[j + 1] = ix[j + 1] /\ t[j] = s[j]
          /\ j \in 1 .. l
      BY <1>5, <1>10, <2>1
    <3>2. LET F == EncodeFrame(fs[fr[j]], fr[j], mask) IN
          /\ fr[j] \in 1 .. m /\ ix[j] \in 1 .. Len(F) /\ s[j] = F[ix[j]]
          /\ IF ix[j] < Len(F) THEN fr[j + 1] = fr[j] /\ ix[j + 1] = ix[j] + 1
                               ELSE fr[j + 1] = fr[j] + 1 /\ ix[j + 1] = 1
      BY <1>1, <1>2, <3>1 DEF Follow
    <3>3. fr[j] \in 1 .. m + 1
      BY <3>2
    <3> QED BY <3>1, <3>2, <3>3
  <2>2. CASE j > l
    <3>1. PICK k \in 1 .. len : j = l + k
      <4>1. j - l \in 1 .. len /\ j = l + (j - l)
        BY <2>2, <1>11
      <4> QED BY <4>1
    <3>2. gr[j] = m + 1 /\ jx[j] = k
      BY <1>6, <1>7, <3>1
    <3>3. t[j] = P[k]
      BY <1>5, <3>1
    <3>4. IF k < len THEN gr[j + 1] = m + 1 /\ jx[j + 1] = k + 1 ELSE gr[j + 1] = (m + 1) + 1 /\ jx[j + 1] = 1
      BY <1>6, <1>7, <3>1
    <3>5. EncodeFrame(fs[gr[j]], gr[j], mask) = P
      BY <3>2
    <3>6. m + 1 \in 1 .. m + 1 /\ k \in 1 .. Len(P) /\ Len(P) = len
      BY <1>3
    <3> QED BY <3>2, <3>3, <3>4, <3>5, <3>6
  <2> QED BY <2>1, <2>2
<1>12. Follow(fs, mask, m + 1, t, gr, jx)
  BY <1>5, <1>9, <1>11 DEF Follow
<1>13. gr[1] = n /\ jx[1] = i
  BY <1>1, <1>10
<1> QED BY <1>4, <1>12, <1>13 DEF StandsAt

\* Frame n has been sent, and this is its size.
AtFrame(fs, m, n, size) == n \in 1 .. m /\ n \in DOMAIN fs /\ size \in Nat /\ size = fs[n].size

\* p is piece i of frame f, which is number n.
PieceOf(f, n, mask, p, i, size, q, d) ==
  /\ q = KeyAt(f) /\ d = DataAt(f, mask)
  /\ q \in {2, 3} /\ (q = 2 <=> size < 126) /\ d = (IF mask THEN q + 1 ELSE q)
  /\ i = 1 => /\ p.kind = "head" /\ p.op = f.op /\ p.of = n
              /\ p.value = (IF size < 126 THEN size ELSE IF size <= 65535 THEN 126 ELSE 127)
  /\ i = 2 /\ q = 3 => p.kind = "size" /\ p.value = size /\ p.of = n
  /\ i = q /\ mask => p.kind = "key" /\ p.of = n
  /\ i = d /\ size = 1 => p.kind = "data" /\ p.of = n /\ p.value = 1
  /\ i = d /\ size > 1 => p.kind = "data" /\ p.of = n /\ p.value = size \div 2
  /\ i = d + 1 /\ size > 1 => p.kind = "data" /\ p.of = n /\ p.value = size - size \div 2

\* Behind piece i comes the next piece of the frame, or the next frame.
Behind(fs, mask, m, t, n, i, size, d, last) ==
  /\ last = (IF size = 0 THEN d - 1 ELSE IF size = 1 THEN d ELSE d + 1)
  /\ i \in 1 .. last
  /\ i < last => StandsAt(fs, mask, m, t, n, i + 1)
  /\ ~(i < last) => StandsAt(fs, mask, m, t, n + 1, 1)

\* What the next piece is, and what comes behind it.
LEMMA NextPiece ==
  ASSUME NEW fs, Frames(fs), NEW mask \in BOOLEAN, NEW m \in 0 .. Len(fs), NEW S, NEW s \in Seq(S), s # <<>>,
         NEW n, NEW i, StandsAt(fs, mask, m, s, n, i), NEW f, f = fs[n], NEW size, size = f.size,
         NEW q, q = KeyAt(f), NEW d, d = DataAt(f, mask), NEW last, last = Len(EncodeFrame(f, n, mask))
  PROVE  AtFrame(fs, m, n, size) /\ PieceOf(f, n, mask, Head(s), i, size, q, d) /\ Behind(fs, mask, m, Tail(s), n, i, size, d, last)
<1>1. PICK P : P = EncodeFrame(f, n, mask) /\ P = EncodeFrame(fs[n], n, mask) /\ last = Len(P)
  OBVIOUS
<1>2. m \in Nat
  BY DEF Frames
<1>3. /\ n \in 1 .. m /\ i \in 1 .. last /\ Head(s) = P[i]
      /\ i < last => StandsAt(fs, mask, m, Tail(s), n, i + 1)
      /\ ~(i < last) => StandsAt(fs, mask, m, Tail(s), n + 1, 1)
  BY <1>1, <1>2, PieceRead, Zenon
<1>4. AtFrame(fs, m, n, size)
  BY <1>3 DEF Frames, AtFrame
<1>5. EncodesIt(f, n, mask, P, q, d, last)
  <2>1. f.size \in Nat
    BY <1>4 DEF AtFrame
  <2>2. last = Len(P)
    BY <1>1
  <2> QED BY <1>1, <2>1, <2>2, Encoded, Zenon
<1>6. PieceOf(f, n, mask, Head(s), i, size, q, d)
  <2>1. PICK p : p = Head(s) /\ p = P[i]
    BY <1>3
  <2>2. /\ i = 1 => /\ p.kind = "head" /\ p.op = f.op /\ p.of = n
                    /\ p.value = (IF size < 126 THEN size ELSE IF size <= 65535 THEN 126 ELSE 127)
        /\ q \in {2, 3} /\ (q = 2 <=> size < 126) /\ d = (IF mask THEN q + 1 ELSE q)
    BY <1>5, <2>1 DEF EncodesIt
  <2>3. i = 2 /\ q = 3 => p.kind = "size" /\ p.value = size /\ p.of = n
    BY <1>5, <2>1 DEF EncodesIt
  <2>4. i = q /\ mask => p.kind = "key" /\ p.of = n
    BY <1>5, <2>1 DEF EncodesIt
  <2>5. i = d /\ size = 1 => p.kind = "data" /\ p.of = n /\ p.value = 1
    BY <1>5, <2>1 DEF EncodesIt
  <2>6. /\ i = d /\ size > 1 => p.kind = "data" /\ p.of = n /\ p.value = size \div 2
        /\ i = d + 1 /\ size > 1 => p.kind = "data" /\ p.of = n /\ p.value = size - size \div 2
    BY <1>5, <2>1 DEF EncodesIt
  <2> QED BY <2>1, <2>2, <2>3, <2>4, <2>5, <2>6 DEF PieceOf
<1>7. last = (IF size = 0 THEN d - 1 ELSE IF size = 1 THEN d ELSE d + 1)
  BY <1>5 DEF EncodesIt
<1> QED BY <1>3, <1>4, <1>6, <1>7 DEF Behind

\* The numbers of the first n frames with one of these operations, in order.
ListsOf(fs, s, n, ops) ==
  /\ s \in Seq(Nat)
  /\ \A i, j \in DOMAIN s : i < j => s[i] < s[j]
  /\ \A k : (\E i \in DOMAIN s : s[i] = k) <=> k \in 1 .. n /\ fs[k].op \in ops

\* One frame more, on the list or not.
LEMMA ListsOneMore ==
  ASSUME NEW fs, NEW s, NEW n \in Nat, NEW ops, ListsOf(fs, s, n, ops), NEW m, m = n + 1, NEW t,
         t = IF fs[m].op \in ops THEN Append(s, m) ELSE s
  PROVE  ListsOf(fs, t, m, ops)
<1>1. s \in Seq(Nat) /\ m \in Nat
  BY DEF ListsOf
<1>2. \A i \in DOMAIN s : s[i] \in 1 .. n
  BY DEF ListsOf
<1>3. PICK l \in Nat : l = Len(s) /\ DOMAIN s = 1 .. l
  BY <1>1
<1>4. CASE fs[m].op \in ops
  <2>1. /\ t \in Seq(Nat) /\ DOMAIN t = 1 .. l + 1
        /\ t[l + 1] = m /\ \A i \in 1 .. l : t[i] = s[i]
    BY <1>1, <1>3, <1>4
  <2>2. ASSUME NEW i \in DOMAIN t, NEW j \in DOMAIN t, i < j PROVE t[i] < t[j]
    <3>1. CASE j = l + 1
      BY <1>2, <1>3, <2>1, <2>2, <3>1
    <3>2. CASE j # l + 1
      BY <1>3, <2>1, <2>2, <3>2 DEF ListsOf
    <3> QED BY <3>1, <3>2
  <2>3. ASSUME NEW k, NEW i \in DOMAIN t, t[i] = k PROVE k \in 1 .. m /\ fs[k].op \in ops
    <3>1. CASE i = l + 1
      BY <1>1, <1>4, <2>1, <2>3, <3>1
    <3>2. CASE i # l + 1
      <4>1. i \in DOMAIN s /\ s[i] = k
        BY <1>3, <2>1, <2>3, <3>2
      <4> QED BY <4>1 DEF ListsOf
    <3> QED BY <3>1, <3>2
  <2>4. ASSUME NEW k \in 1 .. m, fs[k].op \in ops PROVE \E i \in DOMAIN t : t[i] = k
    <3>1. CASE k = m
      <4>1. l + 1 \in DOMAIN t /\ t[l + 1] = k
        BY <2>1, <3>1
      <4> QED BY <4>1
    <3>2. CASE k # m
      <4>1. k \in 1 .. n
        BY <3>2
      <4>2. PICK i \in DOMAIN s : s[i] = k
        BY <2>4, <4>1 DEF ListsOf
      <4>3. i \in DOMAIN t /\ t[i] = k
        BY <1>3, <2>1, <4>2
      <4> QED BY <4>3
    <3> QED BY <3>1, <3>2
  <2> QED BY <2>1, <2>2, <2>3, <2>4 DEF ListsOf
<1>5. CASE fs[m].op \notin ops
  <2>1. t = s
    BY <1>5
  <2>2. \A k : k \in 1 .. m /\ fs[k].op \in ops <=> k \in 1 .. n /\ fs[k].op \in ops
    BY <1>5
  <2> QED BY <2>1, <2>2 DEF ListsOf
<1> QED BY <1>4, <1>5
\* Taking the first piece of what has arrived.
LEMMA TakeFirst ==
  ASSUME NEW S, NEW b \in Seq(S), NEW w \in Seq(S), b # <<>>
  PROVE  /\ b \o w \in Seq(S) /\ b \o w # <<>> /\ Head(b \o w) = Head(b)
         /\ Tail(b) \in Seq(S) /\ Tail(b \o w) = Tail(b) \o w
<1>1. PICK l \in Nat : l = Len(b) /\ l > 0
  OBVIOUS
<1>2. PICK k \in Nat : k = Len(w)
  OBVIOUS
<1>3. PICK s : s = b \o w
  OBVIOUS
<1>4. s \in Seq(S) /\ l + k = Len(s) /\ \A j \in 1 .. l + k : s[j] = IF j <= l THEN b[j] ELSE w[j - l]
  BY <1>1, <1>2, <1>3, ConcatProperties
<1>5. s # <<>> /\ Head(s) = Head(b)
  BY <1>1, <1>2, <1>4
<1>6. PICK c : c = Tail(b)
  OBVIOUS
<1>7. c \in Seq(S) /\ l - 1 = Len(c) /\ \A j \in 1 .. l - 1 : c[j] = b[j + 1]
  BY <1>1, <1>6, HeadTailProperties
<1>8. PICK t : t = Tail(s)
  OBVIOUS
<1>9. t \in Seq(S) /\ l + k - 1 = Len(t) /\ \A j \in 1 .. l + k - 1 : t[j] = s[j + 1]
  BY <1>4, <1>5, <1>8, HeadTailProperties
<1>10. PICK u : u = c \o w
  OBVIOUS
<1>11. u \in Seq(S) /\ l - 1 + k = Len(u) /\ \A j \in 1 .. l - 1 + k : u[j] = IF j <= l - 1 THEN c[j] ELSE w[j - (l - 1)]
  <2>1. PICK e \in Nat : e = l - 1
    BY <1>1
  <2>2. u \in Seq(S) /\ e + k = Len(u) /\ \A j \in 1 .. e + k : u[j] = IF j <= e THEN c[j] ELSE w[j - e]
    BY <1>2, <1>7, <1>10, <2>1, ConcatProperties
  <2> QED BY <2>1, <2>2, Zenon
<1>12. ASSUME NEW j \in 1 .. l + k - 1 PROVE t[j] = u[j]
  <2>1. t[j] = s[j + 1] /\ j + 1 \in 1 .. l + k
    BY <1>9
  <2>2. CASE j <= l - 1
    BY <1>1, <1>4, <1>7, <1>11, <2>1, <2>2
  <2>3. CASE j > l - 1
    <3>1. s[j + 1] = w[(j + 1) - l] /\ u[j] = w[j - (l - 1)] /\ (j + 1) - l = j - (l - 1)
      BY <1>1, <1>4, <1>11, <2>1, <2>3
    <3> QED BY <2>1, <3>1
  <2> QED BY <2>2, <2>3
<1>13. t = u
  <2>1. l - 1 + k = l + k - 1
    OBVIOUS
  <2>2. Len(t) = Len(u) /\ \A j \in 1 .. Len(t) : t[j] = u[j]
    BY <1>9, <1>11, <1>12, <2>1, Zenon
  <2> QED BY <1>9, <1>11, <2>2, SeqEqual, Zenon
<1> QED BY <1>3, <1>4, <1>5, <1>6, <1>7, <1>8, <1>10, <1>13

\* A piece that arrives stays where it is in the order.
LEMMA PieceArrives ==
  ASSUME NEW S, NEW b \in Seq(S), NEW w \in Seq(S), w # <<>>
  PROVE  /\ Append(b, Head(w)) \in Seq(S) /\ Tail(w) \in Seq(S)
         /\ Append(b, Head(w)) \o Tail(w) = b \o w
<1>1. PICK l \in Nat : l = Len(b)
  OBVIOUS
<1>2. PICK k \in Nat : k = Len(w) /\ k > 0
  OBVIOUS
<1>3. PICK c : c = Append(b, Head(w))
  OBVIOUS
<1>4. Head(w) = w[1] /\ Head(w) \in S
  BY <1>2
<1>5. c \in Seq(S) /\ l + 1 = Len(c) /\ c[l + 1] = w[1] /\ \A j \in 1 .. l : c[j] = b[j]
  BY <1>1, <1>3, <1>4, AppendProperties
<1>6. PICK v : v = Tail(w)
  OBVIOUS
<1>7. v \in Seq(S) /\ k - 1 = Len(v) /\ \A j \in 1 .. k - 1 : v[j] = w[j + 1]
  BY <1>2, <1>6, HeadTailProperties
<1>8. PICK s : s = b \o w
  OBVIOUS
<1>9. s \in Seq(S) /\ l + k = Len(s) /\ \A j \in 1 .. l + k : s[j] = IF j <= l THEN b[j] ELSE w[j - l]
  BY <1>1, <1>2, <1>8, ConcatProperties
<1>10. PICK u : u = c \o v
  OBVIOUS
<1>11. u \in Seq(S) /\ l + k = Len(u)
       /\ \A j \in 1 .. l + k : u[j] = IF j <= l + 1 THEN c[j] ELSE v[j - (l + 1)]
  <2>1. PICK e \in Nat : e = l + 1
    BY <1>1
  <2>2. PICK f \in Nat : f = k - 1
    BY <1>2
  <2>3. u \in Seq(S) /\ e + f = Len(u) /\ \A j \in 1 .. e + f : u[j] = IF j <= e THEN c[j] ELSE v[j - e]
    <3>1. c \in Seq(S) /\ v \in Seq(S) /\ e = Len(c) /\ f = Len(v)
      BY <1>5, <1>7, <2>1, <2>2
    <3> QED BY <1>10, <3>1, ConcatProperties
  <2>4. e + f = l + k
    BY <2>1, <2>2
  <2> QED BY <2>1, <2>3, <2>4, Zenon
<1>12. ASSUME NEW j \in 1 .. l + k PROVE u[j] = s[j]
  <2>1. CASE j <= l
    <3>1. u[j] = c[j] /\ s[j] = b[j] /\ j \in 1 .. l
      BY <1>9, <1>11, <2>1
    <3> QED BY <1>5, <3>1
  <2>2. CASE j = l + 1
    <3>1. s[j] = w[j - l] /\ j - l = 1
      BY <1>2, <1>9, <2>2
    <3>2. u[j] = c[l + 1]
      BY <1>2, <1>11, <2>2
    <3> QED BY <1>5, <3>1, <3>2
  <2>3. CASE j > l + 1
    <3>1. j - (l + 1) \in 1 .. k - 1 /\ (j - (l + 1)) + 1 = j - l /\ ~(j <= l) /\ ~(j <= l + 1)
      BY <2>3
    <3>2. s[j] = w[j - l] /\ u[j] = v[j - (l + 1)]
      BY <1>9, <1>11, <3>1
    <3> QED BY <1>7, <3>1, <3>2
  <2> QED BY <2>1, <2>2, <2>3
<1>13. Len(u) = Len(s) /\ \A j \in 1 .. Len(u) : u[j] = s[j]
  BY <1>9, <1>11, <1>12, Zenon
<1>14. u = s
  BY <1>9, <1>11, <1>13, SeqEqual, Zenon
<1> QED BY <1>3, <1>5, <1>6, <1>7, <1>8, <1>10, <1>14
OpsOf(fs) == {"none"} \cup {fs[i].op : i \in DOMAIN fs}
Readers(fs) ==
  [pc : {"out", "handshake", "head", "size", "key", "data"}, op : OpsOf(fs), left : Nat,
   timed : BOOLEAN, connected : BOOLEAN]

\* A reader that stands at piece i of frame f asks for what that piece is.
ReaderAt(f, mask, r, i) ==
  /\ r.pc \in {"out", "handshake", "head"} => i = 1
  /\ r.pc = "size" => i = 2 /\ f.size >= 126 /\ r.op = f.op
  /\ r.pc = "key" => mask /\ i = KeyAt(f) /\ r.op = f.op /\ r.left = f.size
  /\ r.pc = "data" => /\ r.op = f.op
                      /\ \/ f.size > 0 /\ i = DataAt(f, mask) /\ r.left = f.size
                         \/ f.size > 1 /\ i = DataAt(f, mask) + 1 /\ r.left = f.size - f.size \div 2

\* What is still to be read is where the reader stands, and every frame before it
\* has been handed out.
InStep(fs, mask, m, r, s, rec, pon) ==
  \E n \in 1 .. m + 1 : \E i \in Nat :
    /\ StandsAt(fs, mask, m, s, n, i) /\ ReaderAt(fs[n], mask, r, i)
    /\ ListsOf(fs, rec, n - 1, {"text", "binary"}) /\ ListsOf(fs, pon, n - 1, {"ping"})

\* Before the handshake is read its answer stands before the frames.
SocketSound(fs, mask, m, r, b, w, rec, pon) ==
  /\ m \in 0 .. Len(fs) /\ b \in Seq(Carried(fs, mask)) /\ w \in Seq(Carried(fs, mask)) /\ r \in Readers(fs)
  /\ r.pc = "handshake" => b \o w # <<>>
  /\ InStep(fs, mask, m, r, IF r.pc = "handshake" THEN Tail(b \o w) ELSE b \o w, rec, pon)

SocketInv ==
  /\ Frames(frames) /\ masked \in BOOLEAN /\ swallowed \in BOOLEAN /\ outOfStep \in BOOLEAN
  /\ "pc" \in DOMAIN reader /\ (reader.pc = "handshake" => ~swallowed /\ ~outOfStep)
  /\ ~swallowed /\ ~outOfStep => SocketSound(frames, masked, sent, reader, buffer, wire, received, ponged)

\* The invariant gives the checked property.
LEMMA SocketInvTrue == SocketInv => FramesRead
<1>1. SUFFICES ASSUME SocketInv, ~swallowed, ~outOfStep
               PROVE  /\ reader.pc # "misread" /\ \E n \in 0 .. sent : Handed(n)
                      /\ wire = <<>> /\ buffer = <<>> /\ reader.pc \in {"out", "head"} => Handed(sent)
  BY DEF FramesRead
<1>2. SocketSound(frames, masked, sent, reader, buffer, wire, received, ponged)
  BY <1>1 DEF SocketInv
<1>3. reader.pc # "misread" /\ sent \in Nat
  BY <1>2 DEF SocketSound, Readers
<1>4. ASSUME NEW s, NEW n, NEW ops, ListsOf(frames, s, n, ops) PROVE Lists(s, n, ops)
  BY <1>4 DEF ListsOf, Lists, ToSet
<1>5. \E n \in 0 .. sent : Handed(n)
  <2>1. PICK n \in 1 .. sent + 1 : ListsOf(frames, received, n - 1, {"text", "binary"}) /\ ListsOf(frames, ponged, n - 1, {"ping"})
    BY <1>2 DEF SocketSound, InStep
  <2>2. n - 1 \in 0 .. sent
    BY <1>3
  <2>3. Handed(n - 1)
    BY <1>4, <2>1 DEF Handed
  <2> QED BY <2>2, <2>3
<1>6. ASSUME wire = <<>>, buffer = <<>>, reader.pc \in {"out", "head"} PROVE Handed(sent)
  <2>1. buffer \o wire = <<>> /\ reader.pc # "handshake"
    BY <1>6
  <2>2. InStep(frames, masked, sent, reader, <<>>, received, ponged)
    BY <1>2, <2>1 DEF SocketSound
  <2>3. PICK n \in 1 .. sent + 1 : \E i \in Nat :
          /\ StandsAt(frames, masked, sent, <<>>, n, i)
          /\ ListsOf(frames, received, n - 1, {"text", "binary"}) /\ ListsOf(frames, ponged, n - 1, {"ping"})
    BY <2>2 DEF InStep
  <2>4. n = sent + 1
    BY <1>3, <2>3, NothingLeft
  <2>5. n - 1 = sent
    BY <1>3, <2>4
  <2> QED BY <1>4, <2>3, <2>5 DEF Handed
<1> QED BY <1>3, <1>5, <1>6

\* The initial states satisfy it.
LEMMA SocketInvInit == SocketInit \/ SocketIdle => SocketInv
<1>1. SUFFICES ASSUME SocketInit \/ SocketIdle PROVE SocketInv
  OBVIOUS
<1>2. Frames(frames) /\ masked \in BOOLEAN /\ swallowed = FALSE /\ outOfStep = FALSE
  <2>1. CASE SocketInit
    BY <2>1, SocketAssumption DEF SocketInit, Frames
  <2>2. CASE SocketIdle
    <3>1. frames = <<>> /\ masked = FALSE /\ swallowed = FALSE /\ outOfStep = FALSE
      BY <2>2 DEF SocketIdle
    <3>2. Frames(<<>>)
      BY DEF Frames
    <3> QED BY <3>1, <3>2
  <2> QED BY <1>1, <2>1, <2>2
<1>3. sent = 0 /\ sent \in 0 .. Len(frames)
  BY <1>1, <1>2 DEF SocketInit, SocketIdle, Frames
<1>4. received = <<>> /\ ponged = <<>> /\ buffer = <<>>
  BY <1>1 DEF SocketInit, SocketIdle
<1>5. \/ wire = <<>> /\ reader = Listening
      \/ wire = <<HandshakeAnswer>> /\ reader = [Listening EXCEPT !.pc = "handshake"]
  BY <1>1 DEF SocketInit, SocketIdle, Listening
<1>6. PICK S : S = Carried(frames, masked) /\ HandshakeAnswer \in S
  <2>1. HandshakeAnswer \in Carried(frames, masked)
    BY DEF Carried
  <2> QED BY <2>1, Zenon
<1>7. /\ reader \in Readers(frames) /\ reader.pc \in {"out", "handshake"} /\ wire \in Seq(S)
      /\ reader.pc = "handshake" => buffer \o wire # <<>>
      /\ (IF reader.pc = "handshake" THEN Tail(buffer \o wire) ELSE buffer \o wire) = <<>>
  <2>1. CASE wire = <<>> /\ reader = Listening
    <3>1. reader = [pc |-> "out", op |-> "none", left |-> 0, timed |-> FALSE, connected |-> TRUE]
      BY <2>1 DEF Listening
    <3>2. buffer \o wire = <<>> /\ wire \in Seq(S)
      BY <1>4, <2>1
    <3> QED BY <3>1, <3>2 DEF Readers, OpsOf
  <2>2. CASE wire = <<HandshakeAnswer>> /\ reader = [Listening EXCEPT !.pc = "handshake"]
    <3>1. reader = [pc |-> "handshake", op |-> "none", left |-> 0, timed |-> FALSE, connected |-> TRUE]
      BY <2>2 DEF Listening
    <3>2. wire \in Seq(S) /\ buffer \o wire = <<HandshakeAnswer>>
      BY <1>4, <1>6, <2>2
    <3>3. buffer \o wire # <<>> /\ Tail(buffer \o wire) = <<>>
      BY <3>2
    <3> QED BY <3>1, <3>2, <3>3 DEF Readers, OpsOf
  <2> QED BY <1>5, <2>1, <2>2
<1>8. buffer \in Seq(S)
  BY <1>4
<1>9. StandsAt(frames, masked, 0, <<>>, 1, 1)
  BY NothingSent
<1>10. ListsOf(frames, received, 0, {"text", "binary"}) /\ ListsOf(frames, ponged, 0, {"ping"})
  BY <1>4 DEF ListsOf
<1>11. ReaderAt(frames[1], masked, reader, 1)
  BY <1>7 DEF ReaderAt
<1>12. 1 \in 1 .. sent + 1 /\ 1 \in Nat /\ 1 - 1 = 0
  BY <1>3
<1>13. InStep(frames, masked, sent, reader, <<>>, received, ponged)
  BY <1>3, <1>9, <1>10, <1>11, <1>12 DEF InStep
<1>14. SocketSound(frames, masked, sent, reader, buffer, wire, received, ponged)
  BY <1>3, <1>6, <1>7, <1>8, <1>13, Zenon DEF SocketSound
<1>15. "pc" \in DOMAIN reader
  BY <1>7 DEF Readers
<1> QED BY <1>2, <1>14, <1>15 DEF SocketInv

\* What the reader looks for at piece i of frame f.
LooksFor(f, mask, r, i, size, q, d) ==
  /\ r.pc = "head" => i = 1
  /\ r.pc = "size" => i = 2 /\ size >= 126 /\ r.op = f.op
  /\ r.pc = "key" => mask /\ i = q /\ r.op = f.op /\ r.left = size
  /\ r.pc = "data" => /\ r.op = f.op
                      /\ \/ size > 0 /\ i = d /\ r.left = size
                         \/ size > 1 /\ i = d + 1 /\ r.left = size - size \div 2

\* The frames before frame n are on the lists they belong on.
Listed(fs, n, rec, pon) == ListsOf(fs, rec, n - 1, {"text", "binary"}) /\ ListsOf(fs, pon, n - 1, {"ping"})

\* What the reader finds when it takes a piece.
Finds(fs, mask, m, p, t, r, rec, pon, n, i, size, q, d, last) ==
  /\ AtFrame(fs, m, n, size) /\ i \in Nat
  /\ PieceOf(fs[n], n, mask, p, i, size, q, d) /\ Behind(fs, mask, m, t, n, i, size, d, last)
  /\ LooksFor(fs[n], mask, r, i, size, q, d) /\ Listed(fs, n, rec, pon)

\* What a reader in step finds at the head of its buffer is the piece it looks
\* for, of the frame it is at.
LEMMA ReaderFinds ==
  ASSUME NEW fs, Frames(fs), NEW mask \in BOOLEAN, NEW m, NEW r, NEW b, NEW w, NEW rec, NEW pon,
         SocketSound(fs, mask, m, r, b, w, rec, pon), r.pc # "handshake", b # <<>>
  PROVE  /\ Tail(b) \in Seq(Carried(fs, mask))
         /\ \E n, i, size, q, d, last : Finds(fs, mask, m, Head(b), Tail(b) \o w, r, rec, pon, n, i, size, q, d, last)
<1>1. PICK S : S = Carried(fs, mask)
  OBVIOUS
<1>2. m \in 0 .. Len(fs) /\ b \in Seq(S) /\ w \in Seq(S) /\ InStep(fs, mask, m, r, b \o w, rec, pon)
  BY <1>1, Zenon DEF SocketSound
<1>3. PICK s : s = b \o w
  OBVIOUS
<1>4. PICK t : t = Tail(b) \o w
  OBVIOUS
<1>5. s \in Seq(S) /\ s # <<>> /\ Head(s) = Head(b) /\ Tail(b) \in Seq(S) /\ Tail(s) = t
  BY <1>2, <1>3, <1>4, TakeFirst, Zenon
<1>6. PICK n \in 1 .. m + 1 : \E i \in Nat :
        /\ StandsAt(fs, mask, m, s, n, i) /\ ReaderAt(fs[n], mask, r, i)
        /\ ListsOf(fs, rec, n - 1, {"text", "binary"}) /\ ListsOf(fs, pon, n - 1, {"ping"})
  BY <1>2, <1>3, Zenon DEF InStep
<1>7. PICK i \in Nat :
        /\ StandsAt(fs, mask, m, s, n, i) /\ ReaderAt(fs[n], mask, r, i)
        /\ ListsOf(fs, rec, n - 1, {"text", "binary"}) /\ ListsOf(fs, pon, n - 1, {"ping"})
  BY <1>6, Zenon
<1>8. PICK f : f = fs[n]
  OBVIOUS
<1>9. PICK size : size = f.size
  OBVIOUS
<1>10. PICK q : q = KeyAt(f)
  OBVIOUS
<1>11. PICK d : d = DataAt(f, mask)
  OBVIOUS
<1>12. PICK last : last = Len(EncodeFrame(f, n, mask))
  OBVIOUS
<1>13. AtFrame(fs, m, n, size) /\ PieceOf(f, n, mask, Head(s), i, size, q, d) /\ Behind(fs, mask, m, Tail(s), n, i, size, d, last)
  BY <1>2, <1>5, <1>7, <1>8, <1>9, <1>10, <1>11, <1>12, NextPiece, Zenon
<1>14. LooksFor(f, mask, r, i, size, q, d)
  BY <1>7, <1>8, <1>9, <1>10, <1>11 DEF ReaderAt, LooksFor
<1>15. Listed(fs, n, rec, pon)
  BY <1>7 DEF Listed
<1>16. Finds(fs, mask, m, Head(b), t, r, rec, pon, n, i, size, q, d, last)
  BY <1>5, <1>7, <1>8, <1>13, <1>14, <1>15, Zenon DEF Finds
<1> QED BY <1>1, <1>4, <1>5, <1>16, Zenon

\* What becomes of the reader and the lists once a frame is handled.
HandsOut(op, n, r, rec, pon, r2, rec2, pon2) ==
  /\ r2 = [r EXCEPT !.left = 0, !.pc = IF op \in {"ping", "pong"} THEN "head" ELSE "out", !.connected = (op # "close")]
  /\ rec2 = (IF op \in {"text", "binary"} THEN Append(rec, n) ELSE rec)
  /\ pon2 = (IF op = "ping" THEN Append(pon, n) ELSE pon)

\* Once a frame is handled the reader stands before the next one, and the frame is
\* on its list.
LEMMA FrameHandled ==
  ASSUME NEW fs, NEW mask, NEW m \in Nat, NEW t, NEW n \in 1 .. m, StandsAt(fs, mask, m, t, n + 1, 1),
         NEW r \in Readers(fs), NEW op, op = fs[n].op, NEW rec, NEW pon, Listed(fs, n, rec, pon),
         NEW r2, NEW rec2, NEW pon2, HandsOut(op, n, r, rec, pon, r2, rec2, pon2)
  PROVE  r2 \in Readers(fs) /\ r2.pc # "handshake" /\ InStep(fs, mask, m, r2, t, rec2, pon2)
<1>1. r2 = [pc |-> IF op \in {"ping", "pong"} THEN "head" ELSE "out", op |-> r.op, left |-> 0, timed |-> r.timed,
            connected |-> (op # "close")]
  BY DEF Readers, HandsOut
<1>2. r2 \in Readers(fs) /\ r2.pc \in {"head", "out"}
  <2>1. PICK x : x = IF op \in {"ping", "pong"} THEN "head" ELSE "out"
    OBVIOUS
  <2>2. PICK y \in BOOLEAN : y = (op # "close")
    OBVIOUS
  <2>3. x \in {"head", "out"} /\ r.op \in OpsOf(fs) /\ r.timed \in BOOLEAN
    BY <2>1 DEF Readers
  <2>4. r2 = [pc |-> x, op |-> r.op, left |-> 0, timed |-> r.timed, connected |-> y]
    BY <1>1, <2>1, <2>2
  <2> QED BY <2>3, <2>4 DEF Readers
<1>3. PICK k \in Nat : k = n - 1
  OBVIOUS
<1>4. n = k + 1
  BY <1>3
<1>5. ListsOf(fs, rec2, n, {"text", "binary"})
  BY <1>3, <1>4, ListsOneMore DEF HandsOut, Listed
<1>6. pon2 = (IF op \in {"ping"} THEN Append(pon, n) ELSE pon) /\ ListsOf(fs, pon, k, {"ping"})
  BY <1>3 DEF HandsOut, Listed
<1>7. ListsOf(fs, pon2, n, {"ping"})
  BY <1>3, <1>4, <1>6, ListsOneMore
<1>8. ReaderAt(fs[n + 1], mask, r2, 1)
  BY <1>2 DEF ReaderAt
<1>9. n + 1 \in 1 .. m + 1 /\ (n + 1) - 1 = n /\ 1 \in Nat
  OBVIOUS
<1>10. InStep(fs, mask, m, r2, t, rec2, pon2)
  BY <1>5, <1>7, <1>8, <1>9 DEF InStep
<1> QED BY <1>2, <1>10
\* The handshake is read at the beginning, or never.
LEMMA HandshakeOnce ==
  SocketInv /\ SocketNext => /\ "pc" \in DOMAIN reader'
                             /\ reader'.pc = "handshake" => reader' = reader /\ UNCHANGED <<swallowed, outOfStep>>
                             /\ ~swallowed' => ~swallowed
<1>1. SUFFICES ASSUME SocketInv, SocketNext
               PROVE  /\ "pc" \in DOMAIN reader'
                      /\ reader'.pc = "handshake" => reader' = reader /\ UNCHANGED <<swallowed, outOfStep>>
                      /\ ~swallowed' => ~swallowed
  OBVIOUS
<1>2. "pc" \in DOMAIN reader /\ (reader.pc = "handshake" => ~swallowed /\ ~outOfStep)
  BY <1>1 DEF SocketInv
<1>3. CASE SendFrame
  BY <1>2, <1>3 DEF SendFrame
<1>4. CASE Arrive
  BY <1>2, <1>4 DEF Arrive
<1>5. CASE ReadHandshake
  BY <1>2, <1>5 DEF ReadHandshake
<1>6. CASE CallReceive
  BY <1>2, <1>6 DEF CallReceive
<1>7. CASE ReadHead
  BY <1>2, <1>7 DEF ReadHead, Wanted, Handled, AfterHead
<1>8. CASE ReadSize
  BY <1>2, <1>8 DEF ReadSize, Wanted
<1>9. CASE ReadKey
  BY <1>2, <1>9 DEF ReadKey, Wanted, Handled
<1>10. CASE ReadData
  BY <1>2, <1>10 DEF ReadData, Wanted, Handled
<1>11. CASE Misread
  BY <1>2, <1>11 DEF Misread
<1>12. CASE TimesOut
  BY <1>2, <1>12 DEF TimesOut
<1> QED BY <1>1, <1>3, <1>4, <1>5, <1>6, <1>7, <1>8, <1>9, <1>10, <1>11, <1>12 DEF SocketNext

\* What a step has still to keep.
LEMMA SocketStays ==
  ASSUME SocketInv, SocketNext, UNCHANGED <<frames, masked>>, swallowed' \in BOOLEAN, outOfStep' \in BOOLEAN,
         ~outOfStep' => ~outOfStep,
         /\ ~swallowed /\ ~outOfStep /\ ~swallowed' /\ ~outOfStep'
         /\ SocketSound(frames, masked, sent, reader, buffer, wire, received, ponged)
         => SocketSound(frames, masked, sent', reader', buffer', wire', received', ponged')
  PROVE  SocketInv'
<1>1. /\ "pc" \in DOMAIN reader'
      /\ reader'.pc = "handshake" => reader' = reader /\ UNCHANGED <<swallowed, outOfStep>>
      /\ ~swallowed' => ~swallowed
  BY HandshakeOnce
<1>2. reader'.pc = "handshake" => ~swallowed' /\ ~outOfStep'
  BY <1>1 DEF SocketInv
<1> QED BY <1>1, <1>2 DEF SocketInv

\* The sender puts the pieces of the next frame on the wire.
LEMMA SendFrameKeeps == SocketInv /\ SendFrame => SocketInv'
<1>1. SUFFICES ASSUME SocketInv, SendFrame, ~swallowed, ~outOfStep,
                      SocketSound(frames, masked, sent, reader, buffer, wire, received, ponged)
               PROVE  SocketSound(frames, masked, sent', reader', buffer', wire', received', ponged')
  BY SocketStays DEF SendFrame, SocketInv, SocketNext
<1>2. PICK fs : fs = frames /\ Frames(fs)
  BY <1>1 DEF SocketInv
<1>3. PICK mask \in BOOLEAN : mask = masked
  BY <1>1 DEF SocketInv
<1>4. PICK m \in 0 .. Len(fs) : m = sent
  BY <1>1, <1>2 DEF SocketSound
<1>5. PICK S : S = Carried(fs, mask)
  OBVIOUS
<1>6. PICK b \in Seq(S) : b = buffer
  BY <1>1, <1>2, <1>3, <1>5 DEF SocketSound
<1>7. PICK w \in Seq(S) : w = wire
  BY <1>1, <1>2, <1>3, <1>5 DEF SocketSound
<1>8. PICK r \in Readers(fs) : r = reader
  BY <1>1, <1>2 DEF SocketSound
<1>9. /\ r.pc = "handshake" => b \o w # <<>>
      /\ InStep(fs, mask, m, r, IF r.pc = "handshake" THEN Tail(b \o w) ELSE b \o w, received, ponged)
  BY <1>1, <1>2, <1>3, <1>4, <1>6, <1>7, <1>8 DEF SocketSound
<1>10. m < Len(fs) /\ m + 1 \in DOMAIN fs /\ m \in Nat /\ m + 1 \in 0 .. Len(fs)
  BY <1>1, <1>2, <1>4 DEF SendFrame, Frames
<1>11. PICK P : P = EncodeFrame(fs[m + 1], m + 1, mask)
  OBVIOUS
<1>12. P \in Seq(S)
  BY <1>2, <1>5, <1>10, <1>11, FrameCarried, Zenon
<1>13. /\ sent' = m + 1 /\ wire' = w \o P /\ buffer' = b /\ reader' = r /\ received' = received /\ ponged' = ponged
  BY <1>1, <1>2, <1>3, <1>4, <1>6, <1>7, <1>8, <1>11 DEF SendFrame
<1>14. w \o P \in Seq(S) /\ b \o (w \o P) = (b \o w) \o P /\ b \o w \in Seq(S)
  BY <1>12, ConcatAssociative
<1>15. PICK s : s = IF r.pc = "handshake" THEN Tail(b \o w) ELSE b \o w
  OBVIOUS
<1>16. /\ s \in Seq(S)
       /\ r.pc = "handshake" => b \o (w \o P) # <<>>
       /\ (IF r.pc = "handshake" THEN Tail(b \o (w \o P)) ELSE b \o (w \o P)) = s \o P
  <2>1. PICK v \in Seq(S) : v = b \o w
    BY <1>14
  <2>2. CASE r.pc = "handshake"
    <3>1. v # <<>> /\ s = Tail(v)
      BY <1>9, <1>15, <2>1, <2>2
    <3>2. v \o P # <<>> /\ Tail(v) \in Seq(S) /\ Tail(v \o P) = Tail(v) \o P
      BY <1>12, <3>1, TakeFirst, Zenon
    <3> QED BY <1>14, <2>1, <2>2, <3>1, <3>2, Zenon
  <2>3. CASE r.pc # "handshake"
    BY <1>14, <1>15, <2>1, <2>3, Zenon
  <2> QED BY <2>2, <2>3
<1>17. PICK n \in 1 .. m + 1 : \E i \in Nat :
         /\ StandsAt(fs, mask, m, s, n, i) /\ ReaderAt(fs[n], mask, r, i)
         /\ ListsOf(fs, received, n - 1, {"text", "binary"}) /\ ListsOf(fs, ponged, n - 1, {"ping"})
  BY <1>9, <1>15, Zenon DEF InStep
<1>18. PICK i \in Nat :
         /\ StandsAt(fs, mask, m, s, n, i) /\ ReaderAt(fs[n], mask, r, i)
         /\ ListsOf(fs, received, n - 1, {"text", "binary"}) /\ ListsOf(fs, ponged, n - 1, {"ping"})
  BY <1>17, Zenon
<1>19. StandsAt(fs, mask, m + 1, s \o P, n, i)
  BY <1>2, <1>10, <1>11, <1>12, <1>16, <1>18, FrameSent, Zenon
<1>20. n \in 1 .. (m + 1) + 1
  BY <1>10
<1>21. InStep(fs, mask, m + 1, r, s \o P, received, ponged)
  BY <1>18, <1>19, <1>20, Zenon DEF InStep
<1>22. SocketSound(fs, mask, m + 1, r, b, w \o P, received, ponged)
  BY <1>5, <1>10, <1>14, <1>16, <1>21, Zenon DEF SocketSound
<1> QED BY <1>2, <1>3, <1>13, <1>22, Zenon

\* A piece that arrives goes from the wire to the buffer.
LEMMA ArriveKeeps == SocketInv /\ Arrive => SocketInv'
<1>1. SUFFICES ASSUME SocketInv, Arrive, ~swallowed, ~outOfStep,
                      SocketSound(frames, masked, sent, reader, buffer, wire, received, ponged)
               PROVE  SocketSound(frames, masked, sent', reader', buffer', wire', received', ponged')
  BY SocketStays DEF Arrive, SocketInv, SocketNext
<1>2. PICK S : S = Carried(frames, masked)
  OBVIOUS
<1>3. PICK b \in Seq(S) : b = buffer
  BY <1>1, <1>2 DEF SocketSound
<1>4. PICK w \in Seq(S) : w = wire
  BY <1>1, <1>2 DEF SocketSound
<1>5. w # <<>> /\ buffer' = Append(b, Head(w)) /\ wire' = Tail(w)
  BY <1>1, <1>3, <1>4 DEF Arrive
<1>6. buffer' \in Seq(S) /\ wire' \in Seq(S) /\ buffer' \o wire' = buffer \o wire
  BY <1>3, <1>4, <1>5, PieceArrives
<1>7. UNCHANGED <<frames, masked, sent, reader, received, ponged>>
  BY <1>1 DEF Arrive
<1> QED BY <1>1, <1>2, <1>6, <1>7 DEF SocketSound

\* Reading the handshake keeps, or throws away, what came with it.
LEMMA ReadHandshakeKeeps == SocketInv /\ ReadHandshake => SocketInv'
<1>1. SUFFICES ASSUME SocketInv, ReadHandshake, ~swallowed, ~outOfStep, ~swallowed',
                      SocketSound(frames, masked, sent, reader, buffer, wire, received, ponged)
               PROVE  SocketSound(frames, masked, sent', reader', buffer', wire', received', ponged')
  BY SocketStays DEF ReadHandshake, SocketInv, SocketNext
<1>2. PICK S : S = Carried(frames, masked)
  OBVIOUS
<1>3. PICK b \in Seq(S) : b = buffer
  BY <1>1, <1>2 DEF SocketSound
<1>4. PICK w \in Seq(S) : w = wire
  BY <1>1, <1>2 DEF SocketSound
<1>5. PICK r \in Readers(frames) : r = reader
  BY <1>1 DEF SocketSound
<1>6. /\ r.pc = "handshake" /\ b # <<>> /\ UNCHANGED <<frames, masked, sent, wire, received, ponged>>
      /\ reader' = [r EXCEPT !.pc = "out"]
      /\ \E k \in DOMAIN b : buffer' = SubSeq(b, k + 1, Len(b)) /\ swallowed' = (k > 1)
  BY <1>1, <1>3, <1>5 DEF ReadHandshake
<1>7. buffer' = Tail(b)
  <2>1. PICK l \in Nat : l = Len(b) /\ DOMAIN b = 1 .. l
    OBVIOUS
  <2>2. PICK k \in 1 .. l : buffer' = SubSeq(b, k + 1, l) /\ swallowed' = (k > 1)
    BY <1>6, <2>1, Zenon
  <2>3. ~(k > 1)
    BY <1>1, <2>2, Zenon
  <2>4. buffer' = SubSeq(b, 2, l)
    <3>1. k = 1
      BY <2>3
    <3> QED BY <2>2, <3>1
  <2>5. Tail(b) = SubSeq(b, 2, l)
    BY <2>1, <1>6
  <2> QED BY <2>4, <2>5
<1>8. Tail(b) \in Seq(S) /\ Tail(b \o w) = Tail(b) \o w
  BY <1>6, TakeFirst
<1>9. PICK r2 : r2 = [r EXCEPT !.pc = "out"]
  OBVIOUS
<1>10. r2 \in Readers(frames) /\ r2.pc = "out"
  BY <1>9 DEF Readers
<1>11. InStep(frames, masked, sent, r, Tail(b) \o w, received, ponged)
  BY <1>1, <1>3, <1>4, <1>5, <1>6, <1>8 DEF SocketSound
<1>12. ASSUME NEW f, NEW i, ReaderAt(f, masked, r, i) PROVE ReaderAt(f, masked, r2, i)
  BY <1>6, <1>10, <1>12 DEF ReaderAt
<1>13. InStep(frames, masked, sent, r2, Tail(b) \o w, received, ponged)
  BY <1>11, <1>12, Zenon DEF InStep
<1>14. sent \in 0 .. Len(frames)
  BY <1>1 DEF SocketSound
<1>15. SocketSound(frames, masked, sent, r2, Tail(b), w, received, ponged)
  BY <1>2, <1>8, <1>10, <1>13, <1>14 DEF SocketSound
<1> QED BY <1>4, <1>6, <1>7, <1>9, <1>15

\* The application asks for the next message.
LEMMA CallReceiveKeeps == SocketInv /\ CallReceive => SocketInv'
<1>1. SUFFICES ASSUME SocketInv, CallReceive, SocketSound(frames, masked, sent, reader, buffer, wire, received, ponged)
               PROVE  SocketSound(frames, masked, sent', reader', buffer', wire', received', ponged')
  <2>1. ASSUME SocketInv, CallReceive
        PROVE  SocketNext /\ UNCHANGED <<frames, masked, swallowed, outOfStep>> /\ swallowed \in BOOLEAN /\ outOfStep \in BOOLEAN
    BY <2>1, Zenon DEF CallReceive, SocketInv, SocketNext
  <2> QED BY <2>1, SocketStays
<1>2. PICK r \in Readers(frames) : r = reader
  BY <1>1 DEF SocketSound
<1>3. PICK timed \in BOOLEAN : reader' = [r EXCEPT !.pc = "head", !.timed = timed]
  BY <1>1, <1>2 DEF CallReceive
<1>4. r.pc = "out" /\ UNCHANGED <<sent, wire, buffer, received, ponged>>
  BY <1>1, <1>2 DEF CallReceive
<1>5. PICK r2 : r2 = [r EXCEPT !.pc = "head", !.timed = timed]
  OBVIOUS
<1>6. r2 \in Readers(frames) /\ r2.pc = "head"
  BY <1>5 DEF Readers
<1>7. ASSUME NEW f, NEW i, ReaderAt(f, masked, r, i) PROVE ReaderAt(f, masked, r2, i)
  BY <1>4, <1>6, <1>7 DEF ReaderAt
<1>8. InStep(frames, masked, sent, r, buffer \o wire, received, ponged)
  BY <1>1, <1>2, <1>4 DEF SocketSound
<1>9. InStep(frames, masked, sent, r2, buffer \o wire, received, ponged)
  BY <1>7, <1>8, Zenon DEF InStep
<1>10. SocketSound(frames, masked, sent, r2, buffer, wire, received, ponged)
  BY <1>1, <1>6, <1>9 DEF SocketSound
<1> QED BY <1>3, <1>4, <1>5, <1>10

\* A timeout leaves the frame it interrupts half read.
LEMMA TimesOutKeeps == SocketInv /\ TimesOut => SocketInv'
<1>1. SUFFICES ASSUME SocketInv, TimesOut, ~outOfStep',
                      SocketSound(frames, masked, sent, reader, buffer, wire, received, ponged)
               PROVE  SocketSound(frames, masked, sent', reader', buffer', wire', received', ponged')
  BY SocketStays DEF TimesOut, SocketInv, SocketNext
<1>2. PICK r \in Readers(frames) : r = reader
  BY <1>1 DEF SocketSound
<1>3. r.pc = "head" /\ reader' = [r EXCEPT !.pc = "out", !.left = 0] /\ UNCHANGED <<sent, wire, buffer, received, ponged>>
  BY <1>1, <1>2 DEF TimesOut
<1>4. PICK r2 : r2 = [r EXCEPT !.pc = "out", !.left = 0]
  OBVIOUS
<1>5. r2 \in Readers(frames) /\ r2.pc = "out"
  BY <1>4 DEF Readers
<1>6. ASSUME NEW f, NEW i, ReaderAt(f, masked, r, i) PROVE ReaderAt(f, masked, r2, i)
  BY <1>3, <1>5, <1>6 DEF ReaderAt
<1>7. InStep(frames, masked, sent, r, buffer \o wire, received, ponged)
  BY <1>1, <1>2, <1>3 DEF SocketSound
<1>8. InStep(frames, masked, sent, r2, buffer \o wire, received, ponged)
  BY <1>6, <1>7, Zenon DEF InStep
<1>9. SocketSound(frames, masked, sent, r2, buffer, wire, received, ponged)
  BY <1>1, <1>5, <1>8 DEF SocketSound
<1> QED BY <1>3, <1>4, <1>9

\* A piece is never taken for another.
LEMMA MisreadKeeps == SocketInv /\ Misread => SocketInv'
<1>1. SUFFICES ASSUME SocketInv, Misread, ~swallowed, ~outOfStep,
                      SocketSound(frames, masked, sent, reader, buffer, wire, received, ponged)
               PROVE  FALSE
  BY SocketStays DEF Misread, SocketInv, SocketNext
<1>2. PICK r \in Readers(frames) : r = reader
  BY <1>1 DEF SocketSound
<1>3. PICK p : p = Head(buffer)
  OBVIOUS
<1>4. /\ r.pc \in {"head", "size", "key", "data"} /\ buffer # <<>>
      /\ p.kind # r.pc \/ (r.pc = "data" /\ p.value > r.left)
  BY <1>1, <1>2, <1>3 DEF Misread
<1>5. \E n, i, size, q, d, last :
        Finds(frames, masked, sent, p, Tail(buffer) \o wire, r, received, ponged, n, i, size, q, d, last)
  <2>1. Frames(frames) /\ masked \in BOOLEAN /\ r.pc # "handshake"
    BY <1>1, <1>4 DEF SocketInv
  <2> QED BY <1>1, <1>2, <1>3, <1>4, <2>1, ReaderFinds, Zenon
<1>6. PICK n, i, size, q, d, last :
        Finds(frames, masked, sent, p, Tail(buffer) \o wire, r, received, ponged, n, i, size, q, d, last)
  BY <1>5, Zenon
<1>7. r.left \in Nat
  BY DEF Readers
<1>8. CASE r.pc \in {"head", "size", "key"}
  <2>1. PieceOf(frames[n], n, masked, p, i, size, q, d) /\ LooksFor(frames[n], masked, r, i, size, q, d)
    BY <1>6 DEF Finds
  <2>2. CASE r.pc = "head"
    BY <1>4, <2>1, <2>2 DEF PieceOf, LooksFor
  <2>3. CASE r.pc = "size"
    <3>1. size \in Nat
      BY <1>6 DEF Finds, AtFrame
    <3>2. i = 2 /\ q = 3
      BY <2>1, <2>3, <3>1 DEF PieceOf, LooksFor
    <3> QED BY <1>4, <2>1, <2>3, <3>2 DEF PieceOf
  <2>4. CASE r.pc = "key"
    BY <1>4, <2>1, <2>4 DEF PieceOf, LooksFor
  <2> QED BY <1>8, <2>2, <2>3, <2>4
<1>9. CASE r.pc = "data"
  <2>1. /\ size \in Nat
        /\ i = d /\ size = 1 => p.kind = "data" /\ p.value = 1
        /\ i = d /\ size > 1 => p.kind = "data" /\ p.value = size \div 2
        /\ i = d + 1 /\ size > 1 => p.kind = "data" /\ p.value = size - size \div 2
        /\ \/ size > 0 /\ i = d /\ r.left = size
           \/ size > 1 /\ i = d + 1 /\ r.left = size - size \div 2
    BY <1>6, <1>9 DEF Finds, AtFrame, PieceOf, LooksFor
  <2>2. PICK half \in Nat : half = size \div 2 /\ half <= size
    BY <2>1
  <2>3. p.kind = "data" /\ (p.value > r.left)
    BY <1>4, <1>9, <2>1, <2>2
  <2>4. p.value \in {1, half, size - half} /\ (p.value = 1 => r.left >= 1)
    BY <2>1, <2>2
  <2> QED BY <1>7, <2>1, <2>2, <2>3, <2>4
<1> QED BY <1>4, <1>8, <1>9
\* The state before a piece is read, in constants.
LEMMA BeforeRead ==
  ASSUME SocketInv, ~swallowed, ~outOfStep, reader.pc # "handshake", buffer # <<>>,
         SocketSound(frames, masked, sent, reader, buffer, wire, received, ponged)
  PROVE  \E n, i, size, q, d, last :
           /\ Finds(frames, masked, sent, Head(buffer), Tail(buffer) \o wire, reader, received, ponged, n, i, size, q, d, last)
           /\ reader \in Readers(frames) /\ Tail(buffer) \in Seq(Carried(frames, masked)) /\ sent \in Nat
<1>1. Frames(frames) /\ masked \in BOOLEAN
  BY DEF SocketInv
<1>2. /\ Tail(buffer) \in Seq(Carried(frames, masked))
      /\ \E n, i, size, q, d, last :
           Finds(frames, masked, sent, Head(buffer), Tail(buffer) \o wire, reader, received, ponged, n, i, size, q, d, last)
  BY <1>1, ReaderFinds, Zenon
<1>3. reader \in Readers(frames) /\ sent \in Nat
  BY DEF SocketSound
<1> QED BY <1>2, <1>3, Zenon

\* How the state after it is put together again.
LEMMA AfterRead ==
  ASSUME SocketSound(frames, masked, sent, reader, buffer, wire, received, ponged),
         Tail(buffer) \in Seq(Carried(frames, masked)), UNCHANGED <<sent, wire>>, buffer' = Tail(buffer),
         reader' \in Readers(frames), reader'.pc # "handshake",
         InStep(frames, masked, sent, reader', Tail(buffer) \o wire, received', ponged')
  PROVE  SocketSound(frames, masked, sent', reader', buffer', wire', received', ponged')
  BY DEF SocketSound

\* A reader that goes on within the frame.
LEMMA ReadsOn ==
  ASSUME NEW fs, NEW mask, NEW m \in Nat, NEW t, NEW n \in 1 .. m, NEW i \in Nat, NEW j, j = i + 1,
         StandsAt(fs, mask, m, t, n, j), NEW r2, ReaderAt(fs[n], mask, r2, j), NEW rec, NEW pon,
         Listed(fs, n, rec, pon)
  PROVE  InStep(fs, mask, m, r2, t, rec, pon)
<1>1. n \in 1 .. m + 1 /\ j \in Nat
  OBVIOUS
<1> QED BY <1>1, Zenon DEF InStep, Listed

\* The reader takes the two bytes a frame begins with.
LEMMA ReadHeadKeeps == SocketInv /\ ReadHead => SocketInv'
<1>1. SUFFICES ASSUME SocketInv, ReadHead, ~swallowed, ~outOfStep,
                      SocketSound(frames, masked, sent, reader, buffer, wire, received, ponged)
               PROVE  SocketSound(frames, masked, sent', reader', buffer', wire', received', ponged')
  <2>1. ASSUME SocketInv, ReadHead
        PROVE  SocketNext /\ UNCHANGED <<frames, masked, swallowed, outOfStep>> /\ swallowed \in BOOLEAN /\ outOfStep \in BOOLEAN
    BY <2>1, Zenon DEF ReadHead, SocketInv, SocketNext
  <2> QED BY <2>1, SocketStays
<1>2. PICK r : r = reader
  OBVIOUS
<1>3. PICK p : p = Head(buffer)
  OBVIOUS
<1>4. PICK t : t = Tail(buffer) \o wire
  OBVIOUS
<1>5. r.pc = "head" /\ buffer # <<>> /\ buffer' = Tail(buffer) /\ UNCHANGED <<sent, wire>>
  BY <1>1, <1>2 DEF ReadHead, Wanted
<1>6. PICK n, i, size, q, d, last :
        /\ Finds(frames, masked, sent, p, t, r, received, ponged, n, i, size, q, d, last)
        /\ r \in Readers(frames) /\ Tail(buffer) \in Seq(Carried(frames, masked)) /\ sent \in Nat
  BY <1>1, <1>2, <1>3, <1>4, <1>5, BeforeRead, Zenon
<1>7. /\ n \in 1 .. sent /\ size \in Nat /\ size = frames[n].size /\ i = 1 /\ q = KeyAt(frames[n]) /\ d = DataAt(frames[n], masked)
      /\ q \in {2, 3} /\ (q = 2 <=> size < 126) /\ d = (IF masked THEN q + 1 ELSE q)
      /\ p.op = frames[n].op /\ p.of = n
      /\ p.value = (IF size < 126 THEN size ELSE IF size <= 65535 THEN 126 ELSE 127)
      /\ Listed(frames, n, received, ponged)
  BY <1>5, <1>6 DEF Finds, AtFrame, PieceOf, LooksFor
<1>8. /\ last = (IF size = 0 THEN d - 1 ELSE IF size = 1 THEN d ELSE d + 1)
      /\ i < last => StandsAt(frames, masked, sent, t, n, i + 1)
      /\ ~(i < last) => StandsAt(frames, masked, sent, t, n + 1, 1)
  BY <1>6 DEF Finds, Behind
<1>9. n \in DOMAIN frames
  BY <1>6 DEF Finds, AtFrame
<1>10. CASE p.value = 0 /\ ~masked
  <2>1. size = 0 /\ d = 2 /\ ~(i < last)
    BY <1>7, <1>8, <1>10
  <2>2. HandsOut(p.op, n, r, received, ponged, reader', received', ponged')
    BY <1>1, <1>2, <1>3, <1>7, <1>10 DEF ReadHead, Handled, HandsOut
  <2>3. reader' \in Readers(frames) /\ reader'.pc # "handshake" /\ InStep(frames, masked, sent, reader', t, received', ponged')
    <3>1. n \in 1 .. sent /\ p.op = frames[n].op /\ Listed(frames, n, received, ponged)
      BY <1>7
    <3>2. StandsAt(frames, masked, sent, t, n + 1, 1)
      BY <1>8, <2>1
    <3> QED BY <1>6, <2>2, <3>1, <3>2, FrameHandled, Zenon
  <2> QED BY <1>1, <1>4, <1>5, <1>6, <2>3, AfterRead, Zenon
<1>11. CASE ~(p.value = 0 /\ ~masked)
  <2>1. PICK pc : pc = AfterHead(p.value)
    OBVIOUS
  <2>2. reader' = [r EXCEPT !.op = p.op, !.left = p.value, !.pc = pc] /\ UNCHANGED <<received, ponged>>
    BY <1>1, <1>2, <1>3, <1>11, <2>1 DEF ReadHead
  <2>3. PICK r2 : r2 = [r EXCEPT !.op = p.op, !.left = p.value, !.pc = pc]
    OBVIOUS
  <2>4. pc \in {"size", "key", "data"} /\ p.value \in Nat /\ p.op \in OpsOf(frames)
    BY <1>7, <1>9, <2>1 DEF AfterHead, OpsOf
  <2>5. r2 \in Readers(frames) /\ r2.pc = pc /\ r2.op = p.op /\ r2.left = p.value
    BY <1>6, <2>3, <2>4 DEF Readers
  <2>6. i < last
    BY <1>7, <1>8, <1>11
  <2>7. /\ pc = "size" => size >= 126
        /\ pc = "key" => masked /\ size < 126
        /\ pc = "data" => ~masked /\ size < 126 /\ size > 0
    BY <1>7, <1>11, <2>1 DEF AfterHead
  <2>8. ReaderAt(frames[n], masked, r2, 2)
    BY <1>7, <2>4, <2>5, <2>7 DEF ReaderAt
  <2>9. InStep(frames, masked, sent, r2, t, received, ponged)
    <3>1. 2 = i + 1 /\ StandsAt(frames, masked, sent, t, n, 2) /\ i \in Nat
      BY <1>7, <1>8, <2>6
    <3>2. n \in 1 .. sent /\ Listed(frames, n, received, ponged)
      BY <1>7
    <3> QED BY <1>6, <2>8, <3>1, <3>2, ReadsOn, Zenon
  <2>10. reader' = r2 /\ r2.pc # "handshake"
    BY <2>2, <2>3, <2>4, <2>5
  <2> QED BY <1>1, <1>4, <1>5, <1>6, <2>2, <2>5, <2>9, <2>10, AfterRead, Zenon
<1> QED BY <1>10, <1>11

\* The reader takes the extended length.
LEMMA ReadSizeKeeps == SocketInv /\ ReadSize => SocketInv'
<1>1. SUFFICES ASSUME SocketInv, ReadSize, ~swallowed, ~outOfStep, ~outOfStep',
                      SocketSound(frames, masked, sent, reader, buffer, wire, received, ponged)
               PROVE  SocketSound(frames, masked, sent', reader', buffer', wire', received', ponged')
  <2>1. ASSUME SocketInv, ReadSize
        PROVE  /\ SocketNext /\ UNCHANGED <<frames, masked, swallowed>> /\ swallowed \in BOOLEAN
               /\ outOfStep \in BOOLEAN /\ (outOfStep' = outOfStep \/ outOfStep' = TRUE)
    BY <2>1, Zenon DEF ReadSize, SocketInv, SocketNext
  <2> QED BY <2>1, SocketStays
<1>2. PICK r : r = reader
  OBVIOUS
<1>3. PICK p : p = Head(buffer)
  OBVIOUS
<1>4. PICK t : t = Tail(buffer) \o wire
  OBVIOUS
<1>5. /\ r.pc = "size" /\ buffer # <<>> /\ buffer' = Tail(buffer) /\ UNCHANGED <<sent, wire, received, ponged>>
      /\ reader' = [r EXCEPT !.left = p.value, !.pc = IF masked THEN "key" ELSE "data"]
  BY <1>1, <1>2, <1>3 DEF ReadSize, Wanted
<1>6. PICK n, i, size, q, d, last :
        /\ Finds(frames, masked, sent, p, t, r, received, ponged, n, i, size, q, d, last)
        /\ r \in Readers(frames) /\ Tail(buffer) \in Seq(Carried(frames, masked)) /\ sent \in Nat
  BY <1>1, <1>2, <1>3, <1>4, <1>5, BeforeRead, Zenon
<1>7. /\ n \in 1 .. sent /\ size \in Nat /\ size = frames[n].size /\ i = 2 /\ q = KeyAt(frames[n]) /\ d = DataAt(frames[n], masked)
      /\ q \in {2, 3} /\ (q = 2 <=> size < 126) /\ d = (IF masked THEN q + 1 ELSE q)
      /\ size >= 126 /\ r.op = frames[n].op
      /\ i = 2 /\ q = 3 => p.value = size
      /\ Listed(frames, n, received, ponged)
  BY <1>5, <1>6 DEF Finds, AtFrame, PieceOf, LooksFor
<1>8. /\ last = (IF size = 0 THEN d - 1 ELSE IF size = 1 THEN d ELSE d + 1)
      /\ i < last => StandsAt(frames, masked, sent, t, n, i + 1)
  BY <1>6 DEF Finds, Behind
<1>9. q = 3 /\ p.value = size /\ d = (IF masked THEN 4 ELSE 3) /\ last = d + 1
  BY <1>7, <1>8
<1>10. PICK pc : pc = IF masked THEN "key" ELSE "data"
  OBVIOUS
<1>11. PICK r2 : r2 = [r EXCEPT !.left = p.value, !.pc = pc]
  OBVIOUS
<1>12. r2 \in Readers(frames) /\ r2.pc = pc /\ r2.op = r.op /\ r2.left = size /\ pc \in {"key", "data"}
  BY <1>6, <1>7, <1>9, <1>10, <1>11 DEF Readers
<1>13. ReaderAt(frames[n], masked, r2, 3)
  BY <1>7, <1>9, <1>10, <1>12 DEF ReaderAt
<1>14. 3 = i + 1 /\ StandsAt(frames, masked, sent, t, n, 3) /\ i \in Nat
  BY <1>7, <1>8, <1>9
<1>15. InStep(frames, masked, sent, r2, t, received, ponged)
  BY <1>6, <1>7, <1>13, <1>14, ReadsOn, Zenon
<1>16. reader' = r2 /\ r2.pc # "handshake"
  BY <1>5, <1>10, <1>11, <1>12
<1> QED BY <1>1, <1>4, <1>5, <1>6, <1>12, <1>15, <1>16, AfterRead, Zenon

\* The reader takes the masking key.
LEMMA ReadKeyKeeps == SocketInv /\ ReadKey => SocketInv'
<1>1. SUFFICES ASSUME SocketInv, ReadKey, ~swallowed, ~outOfStep,
                      SocketSound(frames, masked, sent, reader, buffer, wire, received, ponged)
               PROVE  SocketSound(frames, masked, sent', reader', buffer', wire', received', ponged')
  <2>1. ASSUME SocketInv, ReadKey
        PROVE  SocketNext /\ UNCHANGED <<frames, masked, swallowed, outOfStep>> /\ swallowed \in BOOLEAN /\ outOfStep \in BOOLEAN
    BY <2>1, Zenon DEF ReadKey, SocketInv, SocketNext
  <2> QED BY <2>1, SocketStays
<1>2. PICK r : r = reader
  OBVIOUS
<1>3. PICK p : p = Head(buffer)
  OBVIOUS
<1>4. PICK t : t = Tail(buffer) \o wire
  OBVIOUS
<1>5. r.pc = "key" /\ buffer # <<>> /\ buffer' = Tail(buffer) /\ UNCHANGED <<sent, wire>>
  BY <1>1, <1>2 DEF ReadKey, Wanted
<1>6. PICK n, i, size, q, d, last :
        /\ Finds(frames, masked, sent, p, t, r, received, ponged, n, i, size, q, d, last)
        /\ r \in Readers(frames) /\ Tail(buffer) \in Seq(Carried(frames, masked)) /\ sent \in Nat
  BY <1>1, <1>2, <1>3, <1>4, <1>5, BeforeRead, Zenon
<1>7. /\ n \in 1 .. sent /\ size \in Nat /\ size = frames[n].size /\ q = KeyAt(frames[n]) /\ d = DataAt(frames[n], masked)
      /\ q \in {2, 3} /\ d = (IF masked THEN q + 1 ELSE q)
      /\ masked /\ i = q /\ r.op = frames[n].op /\ r.left = size
      /\ i = q /\ masked => p.of = n
      /\ Listed(frames, n, received, ponged)
  BY <1>5, <1>6 DEF Finds, AtFrame, PieceOf, LooksFor
<1>8. /\ last = (IF size = 0 THEN d - 1 ELSE IF size = 1 THEN d ELSE d + 1)
      /\ i < last => StandsAt(frames, masked, sent, t, n, i + 1)
      /\ ~(i < last) => StandsAt(frames, masked, sent, t, n + 1, 1)
  BY <1>6 DEF Finds, Behind
<1>9. d = q + 1 /\ p.of = n
  BY <1>7
<1>10. CASE r.left = 0
  <2>1. ~(i < last)
    BY <1>7, <1>8, <1>9, <1>10
  <2>2. HandsOut(r.op, n, r, received, ponged, reader', received', ponged')
    BY <1>1, <1>2, <1>3, <1>9, <1>10 DEF ReadKey, Handled, HandsOut
  <2>3. reader' \in Readers(frames) /\ reader'.pc # "handshake" /\ InStep(frames, masked, sent, reader', t, received', ponged')
    <3>1. n \in 1 .. sent /\ r.op = frames[n].op /\ Listed(frames, n, received, ponged)
      BY <1>7
    <3>2. StandsAt(frames, masked, sent, t, n + 1, 1)
      BY <1>8, <2>1
    <3> QED BY <1>6, <2>2, <3>1, <3>2, FrameHandled, Zenon
  <2> QED BY <1>1, <1>4, <1>5, <1>6, <2>3, AfterRead, Zenon
<1>11. CASE r.left # 0
  <2>1. reader' = [r EXCEPT !.pc = "data"] /\ UNCHANGED <<received, ponged>>
    BY <1>1, <1>2, <1>11 DEF ReadKey
  <2>2. PICK r2 : r2 = [r EXCEPT !.pc = "data"]
    OBVIOUS
  <2>3. r2 \in Readers(frames) /\ r2.pc = "data" /\ r2.op = r.op /\ r2.left = r.left
    BY <1>6, <2>2 DEF Readers
  <2>4. i < last /\ size > 0
    BY <1>7, <1>8, <1>9, <1>11
  <2>5. ReaderAt(frames[n], masked, r2, d)
    BY <1>7, <2>3, <2>4 DEF ReaderAt
  <2>6. d = i + 1 /\ StandsAt(frames, masked, sent, t, n, d) /\ i \in Nat
    <3>1. i = q /\ q \in {2, 3} /\ d = q + 1
      BY <1>7, <1>9, Zenon
    <3>2. d = i + 1 /\ i \in Nat
      BY <3>1
    <3> QED BY <1>8, <2>4, <3>2, Zenon
  <2>7. InStep(frames, masked, sent, r2, t, received, ponged)
    BY <1>6, <1>7, <2>5, <2>6, ReadsOn, Zenon
  <2>8. reader' = r2 /\ r2.pc # "handshake"
    BY <2>1, <2>2, <2>3
  <2> QED BY <1>1, <1>4, <1>5, <1>6, <2>1, <2>3, <2>7, <2>8, AfterRead, Zenon
<1> QED BY <1>10, <1>11

\* The reader takes the payload, and hands it over, answers it or leaves.
LEMMA ReadDataKeeps == SocketInv /\ ReadData => SocketInv'
<1>1. SUFFICES ASSUME SocketInv, ReadData, ~swallowed, ~outOfStep,
                      SocketSound(frames, masked, sent, reader, buffer, wire, received, ponged)
               PROVE  SocketSound(frames, masked, sent', reader', buffer', wire', received', ponged')
  <2>1. ASSUME SocketInv, ReadData
        PROVE  SocketNext /\ UNCHANGED <<frames, masked, swallowed, outOfStep>> /\ swallowed \in BOOLEAN /\ outOfStep \in BOOLEAN
    BY <2>1, Zenon DEF ReadData, SocketInv, SocketNext
  <2> QED BY <2>1, SocketStays
<1>2. PICK r : r = reader
  OBVIOUS
<1>3. PICK p : p = Head(buffer)
  OBVIOUS
<1>4. PICK t : t = Tail(buffer) \o wire
  OBVIOUS
<1>5. r.pc = "data" /\ buffer # <<>> /\ buffer' = Tail(buffer) /\ UNCHANGED <<sent, wire>>
  BY <1>1, <1>2 DEF ReadData, Wanted
<1>6. PICK n, i, size, q, d, last :
        /\ Finds(frames, masked, sent, p, t, r, received, ponged, n, i, size, q, d, last)
        /\ r \in Readers(frames) /\ Tail(buffer) \in Seq(Carried(frames, masked)) /\ sent \in Nat
  BY <1>1, <1>2, <1>3, <1>4, <1>5, BeforeRead, Zenon
<1>7. /\ n \in 1 .. sent /\ size \in Nat /\ size = frames[n].size /\ q = KeyAt(frames[n]) /\ d = DataAt(frames[n], masked)
      /\ q \in {2, 3} /\ d = (IF masked THEN q + 1 ELSE q)
      /\ i = d /\ size = 1 => p.of = n /\ p.value = 1
      /\ i = d /\ size > 1 => p.of = n /\ p.value = size \div 2
      /\ i = d + 1 /\ size > 1 => p.of = n /\ p.value = size - size \div 2
      /\ r.op = frames[n].op
      /\ \/ size > 0 /\ i = d /\ r.left = size
         \/ size > 1 /\ i = d + 1 /\ r.left = size - size \div 2
      /\ Listed(frames, n, received, ponged)
  BY <1>5, <1>6 DEF Finds, AtFrame, PieceOf, LooksFor
<1>8. /\ last = (IF size = 0 THEN d - 1 ELSE IF size = 1 THEN d ELSE d + 1)
      /\ i < last => StandsAt(frames, masked, sent, t, n, i + 1)
      /\ ~(i < last) => StandsAt(frames, masked, sent, t, n + 1, 1)
  BY <1>6 DEF Finds, Behind
<1>9. PICK half \in Nat : half = size \div 2 /\ (size > 1 => half > 0 /\ half < size)
  BY <1>7
<1>10. d \in Nat /\ p.of = n
  <2>1. d \in Nat
    BY <1>7
  <2>2. size = 1 \/ size > 1 \/ size = 0
    BY <1>7
  <2> QED BY <1>7, <2>1, <2>2
<1>11. CASE p.value = r.left
  <2>1. ~(i < last)
    <3>1. CASE size = 1
      BY <1>7, <1>8, <1>10, <3>1
    <3>2. CASE size > 1
      BY <1>7, <1>8, <1>9, <1>10, <1>11, <3>2
    <3> QED BY <1>7, <3>1, <3>2
  <2>2. HandsOut(r.op, n, r, received, ponged, reader', received', ponged')
    BY <1>1, <1>2, <1>3, <1>10, <1>11 DEF ReadData, Handled, HandsOut
  <2>3. reader' \in Readers(frames) /\ reader'.pc # "handshake" /\ InStep(frames, masked, sent, reader', t, received', ponged')
    <3>1. n \in 1 .. sent /\ r.op = frames[n].op /\ Listed(frames, n, received, ponged)
      BY <1>7
    <3>2. StandsAt(frames, masked, sent, t, n + 1, 1)
      BY <1>8, <2>1
    <3> QED BY <1>6, <2>2, <3>1, <3>2, FrameHandled, Zenon
  <2> QED BY <1>1, <1>4, <1>5, <1>6, <2>3, AfterRead, Zenon
<1>12. CASE p.value # r.left
  <2>1. reader' = [r EXCEPT !.left = @ - p.value] /\ UNCHANGED <<received, ponged>>
    BY <1>1, <1>2, <1>3, <1>12 DEF ReadData
  <2>2. size > 1 /\ i = d /\ r.left = size /\ p.value = half
    <3>1. size # 1 /\ size # 0
      <4>1. ASSUME size = 1 PROVE FALSE
        <5>1. i = d /\ r.left = 1
          BY <1>7, <4>1
        <5>2. p.value = 1
          BY <1>7, <4>1, <5>1, Zenon
        <5> QED BY <1>12, <5>1, <5>2
      <4>2. size > 0
        BY <1>7
      <4> QED BY <4>1, <4>2
    <3>2. size > 1
      BY <1>7, <3>1
    <3> QED BY <1>7, <1>9, <1>10, <1>12, <3>2
  <2>3. PICK rest \in Nat : rest = size - half
    BY <1>7, <1>9, <2>2
  <2>4. PICK r2 : r2 = [r EXCEPT !.left = rest]
    OBVIOUS
  <2>5. reader' = r2
    BY <1>6, <2>1, <2>2, <2>3, <2>4 DEF Readers
  <2>6. r2 \in Readers(frames) /\ r2.pc = "data" /\ r2.op = r.op /\ r2.left = size - half
    BY <1>5, <1>6, <2>3, <2>4 DEF Readers
  <2>7. ReaderAt(frames[n], masked, r2, d + 1)
    BY <1>7, <1>9, <2>2, <2>6 DEF ReaderAt
  <2>8. d + 1 = i + 1 /\ StandsAt(frames, masked, sent, t, n, d + 1) /\ i \in Nat
    BY <1>7, <1>8, <1>10, <2>2
  <2>9. InStep(frames, masked, sent, r2, t, received, ponged)
    BY <1>6, <1>7, <2>7, <2>8, ReadsOn, Zenon
  <2>10. r2.pc # "handshake"
    BY <2>6
  <2> QED BY <1>1, <1>4, <1>5, <1>6, <2>1, <2>5, <2>6, <2>9, <2>10, AfterRead, Zenon
<1> QED BY <1>11, <1>12

\* The invariant of the socket is kept by every step.
LEMMA SocketSteps == SocketInv /\ [SocketNext]_socketVars => SocketInv'
<1>1. CASE UNCHANGED socketVars
  BY <1>1 DEF socketVars, SocketInv, Frames, SocketSound, InStep, ReaderAt
<1>2. CASE SocketNext
  BY <1>2, SendFrameKeeps, ArriveKeeps, ReadHandshakeKeeps, CallReceiveKeeps, ReadHeadKeeps, ReadSizeKeeps,
     ReadKeyKeeps, ReadDataKeeps, MisreadKeeps, TimesOutKeeps, Zenon DEF SocketNext
<1> QED BY <1>1, <1>2
-----------------------------------------------------------------------------
(***************************************************************************)
(* The making of a project (scaffold.py and the other generators).         *)
(***************************************************************************)

Scripted(k) == Scripts[k] \in Seq({Scripts[k][i] : i \in DOMAIN Scripts[k]}) /\ Len(Scripts[k]) > 0

\* The templates there are.
LEMMA KindsAre ==
  Kinds = {"basic", "ai", "systems", "zk", "blockchain", "web", "smartChain", "smartChainApp", "gateway", "aiRuntime",
           "bridge", "hosting", "page"}
  BY DEF Kinds, Scripts

\* A template has a script of at least one step.
LEMMA ScriptIs == ASSUME NEW k \in Kinds PROVE Len(Scripts[k]) \in Nat /\ Len(Scripts[k]) > 0 /\ DOMAIN Scripts[k] = 1 .. Len(Scripts[k])
<1>1. Scripts[k] \in Seq({Scripts[k][i] : i \in DOMAIN Scripts[k]}) /\ Len(Scripts[k]) > 0
  BY TemplatesAssumption, Zenon
<1> QED BY <1>1

\* Before its first step a template leaves nothing.
LEMMA NothingLeftYet == ASSUME NEW k \in Kinds PROVE LeftBy(k, 1) = {}
  BY ScriptIs DEF LeftBy

\* After a write there is the file written and what was there before.
LEMMA LeftByWrite ==
  ASSUME NEW k \in Kinds, NEW n \in DOMAIN Scripts[k], NEW p \in LeftBy(k, n + 1)
  PROVE  p = Scripts[k][n].path \/ p \in LeftBy(k, n)
<1>1. PICK l \in Nat : DOMAIN Scripts[k] = 1 .. l
  BY ScriptIs, Zenon
<1>2. PICK j \in 1 .. l :
        /\ j < n + 1 /\ Scripts[k][j].op = "write" /\ Scripts[k][j].path = p
        /\ \A i \in 1 .. l : j < i /\ i < n + 1 => ~Removes(Scripts[k][i], p)
  BY <1>1 DEF LeftBy
<1>3. CASE j = n
  BY <1>2, <1>3
<1>4. CASE j # n
  <2>1. j < n /\ \A i \in 1 .. l : j < i /\ i < n => ~Removes(Scripts[k][i], p)
    BY <1>1, <1>2, <1>4
  <2>2. p \in WrittenBy(k)
    BY DEF LeftBy
  <2> QED BY <1>1, <1>2, <2>1, <2>2 DEF LeftBy
<1> QED BY <1>3, <1>4

\* A step that writes nothing adds no file.
LEMMA LeftByOther ==
  ASSUME NEW k \in Kinds, NEW n \in DOMAIN Scripts[k], Scripts[k][n].op # "write", NEW p \in LeftBy(k, n + 1)
  PROVE  p \in LeftBy(k, n) /\ ~Removes(Scripts[k][n], p)
<1>1. PICK l \in Nat : DOMAIN Scripts[k] = 1 .. l
  BY ScriptIs, Zenon
<1>2. PICK j \in 1 .. l :
        /\ j < n + 1 /\ Scripts[k][j].op = "write" /\ Scripts[k][j].path = p
        /\ \A i \in 1 .. l : j < i /\ i < n + 1 => ~Removes(Scripts[k][i], p)
  BY <1>1 DEF LeftBy
<1>3. j # n
  BY <1>2
<1>4. j < n /\ \A i \in 1 .. l : j < i /\ i < n => ~Removes(Scripts[k][i], p)
  BY <1>1, <1>2, <1>3
<1>5. p \in WrittenBy(k)
  BY DEF LeftBy
<1>6. ~Removes(Scripts[k][n], p)
  BY <1>1, <1>2, <1>3
<1> QED BY <1>1, <1>2, <1>4, <1>5, <1>6 DEF LeftBy

\* What a template leaves outside the frontend is there already when a step is
\* skipped.
LEMMA LeftBySkip ==
  ASSUME NEW k \in Kinds, NEW n \in DOMAIN Scripts[k], Scripts[k][n].op = "unless",
         NEW p \in LeftBy(k, Len(Scripts[k]) + 1) \ FrontendPaths
  PROVE  p \in LeftBy(k, n)
<1>1. PICK l \in Nat : DOMAIN Scripts[k] = 1 .. l /\ l = Len(Scripts[k])
  BY ScriptIs, Zenon
<1>2. PICK j \in 1 .. l :
        /\ Scripts[k][j].op = "write" /\ Scripts[k][j].path = p
        /\ \A i \in 1 .. l : j < i /\ i < l + 1 => ~Removes(Scripts[k][i], p)
  BY <1>1 DEF LeftBy
<1>3. \A i \in 1 .. l : n < i => Scripts[k][i].path \in FrontendPaths
  BY <1>1, TemplatesAssumption, Zenon
<1>4. j < n
  BY <1>1, <1>2, <1>3
<1>5. \A i \in 1 .. l : j < i /\ i < n => ~Removes(Scripts[k][i], p)
  BY <1>1, <1>2
<1>6. p \in WrittenBy(k)
  BY DEF LeftBy
<1> QED BY <1>1, <1>2, <1>4, <1>5, <1>6 DEF LeftBy
Outcomes == {"none", "refused", "writing", "calling", "RecursionError", "ok", "killed"}
FileRecords == [kind : Kinds, whole : BOOLEAN, mine : BOOLEAN]
InHand == make.outcome \in {"writing", "ok"}

\* The state is of its kind; a command in progress is at a step of a template.
MakeTyped ==
  /\ disk \in [DOMAIN disk -> FileRecords]
  /\ make \in [cmd : Makes \cup {<<>>}, kind : Kinds, at : Nat, outcome : Outcomes]
  /\ make.outcome = "calling" =>
       make.cmd.what = "new" /\ frame.in \in {"command", "smart", "scaffold"} /\ frame.depth \in 1 .. MaxDepth
  /\ InHand \/ make.outcome = "calling" => make.cmd \in Makes
  /\ InHand /\ make.cmd.what = "new" => make.kind \notin Additions

\* Where it is, and what it has left whole on the way.
Underway ==
  /\ make.outcome = "writing" => make.at \in DOMAIN Scripts[make.kind]
  /\ make.outcome = "ok" => make.at = Len(Scripts[make.kind]) + 1
  /\ InHand => \A p \in LeftBy(make.kind, make.at) \ FrontendPaths : Made(p)

\* A command that was not told to write over files has found none of the user's.
NoneInTheWay ==
  make.outcome = "writing" /\ ~Forced => kept = {} \/ (make.kind = "page" /\ View("pricing") \notin kept)

WorkspaceInv == MakeTyped /\ Underway /\ EditsKept /\ NoneInTheWay

\* The invariant gives the checked properties.
LEMMA WorkspaceInvTrue == WorkspaceInv => ProjectUsable /\ EditsKept
<1>1. SUFFICES ASSUME WorkspaceInv, make.outcome = "ok", make.cmd.what = "new", make.kind # "aiRuntime",
                      NEW p \in WrittenBy(make.kind) \ FrontendPaths
               PROVE  Made(p) /\ \A q \in NeededBy[make.kind][p] : Made(q)
  BY DEF WorkspaceInv, ProjectUsable
<1>2. PICK k \in Kinds : k = make.kind
  BY <1>1 DEF WorkspaceInv, MakeTyped
<1>3. k \notin Additions /\ make.at = Len(Scripts[k]) + 1 /\ \A q \in LeftBy(k, make.at) \ FrontendPaths : Made(q)
  BY <1>1, <1>2 DEF WorkspaceInv, MakeTyped, Underway, InHand
<1>4. WrittenBy(k) \subseteq LeftBy(k, make.at)
  BY <1>1, <1>2, <1>3, TemplatesAssumption, Zenon
<1>5. NeededBy[k][p] \subseteq WrittenBy(k) \ FrontendPaths
  BY <1>1, <1>2, <1>3, TemplatesAssumption
<1> QED BY <1>1, <1>2, <1>3, <1>4, <1>5

\* The initial state satisfies it.
LEMMA WorkspaceInvInit == WorkspaceInit => WorkspaceInv
<1>1. SUFFICES ASSUME WorkspaceInit PROVE WorkspaceInv
  OBVIOUS
<1>2. disk = <<>> /\ kept = {} /\ make = [cmd |-> <<>>, kind |-> "page", at |-> 1, outcome |-> "none"]
  BY <1>1 DEF WorkspaceInit, Idle
<1>3. MakeTyped
  BY <1>2, KindsAre DEF MakeTyped, Outcomes, InHand
<1> QED BY <1>2, <1>3 DEF WorkspaceInv, Underway, InHand, EditsKept, NoneInTheWay

\* A command that begins to write.
LEMMA StartKeeps ==
  ASSUME WorkspaceInv, NEW cmd \in Makes, NEW kind \in Kinds, StartWriting(cmd, kind), UNCHANGED <<disk, kept>>,
         cmd.what = "new" => kind \notin Additions
  PROVE  WorkspaceInv'
<1>1. PICK out : out = IF Refuses(kind, cmd.force) THEN "refused" ELSE "writing"
  OBVIOUS
<1>2. make' = [cmd |-> cmd, kind |-> kind, at |-> 1, outcome |-> out] /\ out \in {"refused", "writing"}
  BY <1>1 DEF StartWriting
<1>3. MakeTyped'
  BY <1>2 DEF WorkspaceInv, MakeTyped, Outcomes, InHand
<1>4. Underway'
  <2>1. LeftBy(kind, 1) = {}
    BY NothingLeftYet, Zenon
  <2>2. 1 \in DOMAIN Scripts[kind]
    BY ScriptIs
  <2> QED BY <1>2, <2>1, <2>2 DEF Underway, InHand
<1>5. EditsKept'
  BY DEF WorkspaceInv, EditsKept
<1>6. NoneInTheWay'
  <2>1. SUFFICES ASSUME out = "writing", ~cmd.force, kind # "hosting"
                 PROVE  kept = {} \/ (kind = "page" /\ View("pricing") \notin kept)
    BY <1>2 DEF NoneInTheWay, Forced
  <2>2. ~Refuses(kind, cmd.force)
    BY <1>1, <2>1
  <2>3. CASE kind = "page"
    <3>1. View("pricing") \notin DOMAIN disk
      BY <2>1, <2>2, <2>3 DEF Refuses
    <3> QED BY <2>3, <3>1 DEF WorkspaceInv, EditsKept
  <2>4. CASE kind # "page"
    <3>1. disk = <<>>
      BY <2>1, <2>2, <2>4 DEF Refuses
    <3>2. DOMAIN disk = {}
      BY <3>1
    <3> QED BY <3>2 DEF WorkspaceInv, EditsKept
  <2> QED BY <2>3, <2>4
<1> QED BY <1>3, <1>4, <1>5, <1>6 DEF WorkspaceInv

\* A command that does not write.
LEMMA NoWriteKeeps ==
  ASSUME WorkspaceInv, UNCHANGED <<disk, kept>>, MakeTyped', make'.outcome \notin {"writing", "ok"}
  PROVE  WorkspaceInv'
  BY DEF WorkspaceInv, Underway, InHand, EditsKept, NoneInTheWay

\* A command is given where none runs.
LEMMA GiveKeeps == ASSUME WorkspaceInv, NEW cmd \in Makes, Give(cmd) PROVE WorkspaceInv'
<1>1. UNCHANGED <<disk, kept>>
  BY DEF Give
<1>2. /\ cmd.what = "new" \/ (cmd.what \in Additions /\ cmd.what # "new")
      /\ cmd.what = "new" => cmd.via \in {"command", "smart", "scaffold"}
  BY WorkspaceAssumption DEF Makes, Additions
<1>3. Additions \subseteq Kinds /\ "aiRuntime" \in Kinds \ Additions /\ "gateway" \in Kinds \ Additions
  BY KindsAre DEF Additions
<1>4. CASE cmd.what # "new"
  <2>1. StartWriting(cmd, cmd.what)
    BY <1>4 DEF Give
  <2> QED BY <1>1, <1>2, <1>3, <1>4, <2>1, StartKeeps
<1>5. CASE cmd.what = "new" /\ Intercepted(cmd)
  <2>1. PICK kind : kind = IF cmd.template = "ai" THEN "aiRuntime" ELSE "gateway"
    OBVIOUS
  <2>2. StartWriting(cmd, kind)
    BY <1>5, <2>1 DEF Give
  <2> QED BY <1>1, <1>3, <2>1, <2>2, StartKeeps
<1>6. CASE cmd.what = "new" /\ ~Intercepted(cmd)
  <2>1. /\ frame' = [in |-> cmd.via, depth |-> 1]
        /\ make' = [cmd |-> cmd, kind |-> "page", at |-> 1, outcome |-> "calling"]
    BY <1>6 DEF Give
  <2>2. 1 \in 1 .. MaxDepth
    BY WorkspaceAssumption
  <2>3. MakeTyped'
    BY <1>1, <1>2, <1>6, <2>1, <2>2, KindsAre DEF WorkspaceInv, MakeTyped, Outcomes, InHand
  <2> QED BY <1>1, <2>1, <2>3, NoWriteKeeps
<1> QED BY <1>4, <1>5, <1>6

\* A command finds its template, or that it may not write there.
LEMMA CallCreateKeeps == WorkspaceInv /\ CallCreate => WorkspaceInv'
<1>1. SUFFICES ASSUME WorkspaceInv, CallCreate PROVE WorkspaceInv'
  OBVIOUS
<1>2. PICK cmd \in Makes : cmd = make.cmd
  BY <1>1 DEF WorkspaceInv, MakeTyped, CallCreate
<1>3. /\ make.outcome = "calling" /\ UNCHANGED <<disk, kept>>
      /\ cmd.what = "new" /\ frame.in \in {"command", "smart", "scaffold"} /\ frame.depth \in 1 .. MaxDepth
      /\ make \in [cmd : Makes \cup {<<>>}, kind : Kinds, at : Nat, outcome : Outcomes]
  BY <1>1, <1>2 DEF WorkspaceInv, MakeTyped, CallCreate
<1>4. /\ cmd.template \in Kinds \ Additions /\ cmd.via \in {"command", "smart", "scaffold"}
      /\ "smartChain" \in Kinds \ Additions /\ "smartChainApp" \in Kinds \ Additions
  BY <1>3, WorkspaceAssumption, KindsAre DEF Makes, Additions
<1>5. ASSUME NEW in \in {"command", "smart", "scaffold"}, frame.depth < MaxDepth,
             frame' = [in |-> in, depth |-> frame.depth + 1], UNCHANGED make
      PROVE  WorkspaceInv'
  <2>1. frame.depth + 1 \in 1 .. MaxDepth
    BY <1>3, <1>5, WorkspaceAssumption
  <2>2. MakeTyped'
    BY <1>1, <1>3, <1>5, <2>1 DEF WorkspaceInv, MakeTyped, InHand
  <2> QED BY <1>1, <1>3, <1>5, <2>2, NoWriteKeeps
<1>6. CASE frame.depth = MaxDepth
  <2>1. make' = [make EXCEPT !.outcome = "RecursionError"]
    <3>1. ~(frame.depth < MaxDepth)
      BY <1>3, <1>6
    <3> QED BY <1>1, <1>6, <3>1 DEF CallCreate
  <2>2. make' = [cmd |-> make.cmd, kind |-> make.kind, at |-> make.at, outcome |-> "RecursionError"]
    BY <1>3, <2>1
  <2>3. MakeTyped'
    BY <1>1, <1>3, <2>2 DEF WorkspaceInv, MakeTyped, Outcomes, InHand
  <2> QED BY <1>1, <1>3, <2>2, <2>3, NoWriteKeeps
<1>7. CASE frame.depth < MaxDepth /\ frame.in = "scaffold"
  <2>1. StartWriting(cmd, cmd.template)
    BY <1>1, <1>2, <1>3, <1>7 DEF CallCreate
  <2> QED BY <1>1, <1>3, <1>4, <2>1, StartKeeps
<1>8. CASE frame.depth < MaxDepth /\ frame.in = "command"
  <2>1. frame' = [in |-> "smart", depth |-> frame.depth + 1] /\ UNCHANGED make
    BY <1>1, <1>3, <1>8 DEF CallCreate
  <2> QED BY <1>5, <1>8, <2>1
<1>9. CASE frame.depth < MaxDepth /\ frame.in = "smart" /\ cmd.template \in ChainTemplates
  <2>1. PICK kind : kind = IF cmd.via = "command" THEN "smartChainApp" ELSE "smartChain"
    OBVIOUS
  <2>2. StartWriting(cmd, kind)
    <3>1. frame.depth # MaxDepth
      BY <1>3, <1>9, WorkspaceAssumption
    <3>2. IF cmd.template \in ChainTemplates
          THEN StartWriting(cmd, IF cmd.via = "command" THEN "smartChainApp" ELSE "smartChain") /\ UNCHANGED frame
          ELSE frame' = [in |-> LegacyCreate(cmd.via), depth |-> frame.depth + 1] /\ UNCHANGED make
      BY <1>1, <1>2, <1>9, <3>1 DEF CallCreate
    <3> QED BY <1>9, <2>1, <3>2
  <2> QED BY <1>1, <1>3, <1>4, <2>1, <2>2, StartKeeps
<1>10. CASE frame.depth < MaxDepth /\ frame.in = "smart" /\ cmd.template \notin ChainTemplates
  <2>1. frame' = [in |-> LegacyCreate(cmd.via), depth |-> frame.depth + 1] /\ UNCHANGED make
    <3>1. frame.depth # MaxDepth
      BY <1>3, <1>10, WorkspaceAssumption
    <3>2. IF cmd.template \in ChainTemplates
          THEN StartWriting(cmd, IF cmd.via = "command" THEN "smartChainApp" ELSE "smartChain") /\ UNCHANGED frame
          ELSE frame' = [in |-> LegacyCreate(cmd.via), depth |-> frame.depth + 1] /\ UNCHANGED make
      BY <1>1, <1>2, <1>10, <3>1 DEF CallCreate
    <3> QED BY <1>10, <3>2
  <2>2. LegacyCreate(cmd.via) \in {"command", "smart", "scaffold"}
    BY DEF LegacyCreate
  <2> QED BY <1>5, <1>10, <2>1, <2>2
<1>11. frame.depth = MaxDepth \/ frame.depth < MaxDepth
  BY <1>3, WorkspaceAssumption
<1> QED BY <1>3, <1>6, <1>7, <1>8, <1>9, <1>10, <1>11
\* Going on to another step.
LEMMA GoesOn ==
  ASSUME MakeTyped, make.outcome = "writing", NEW n \in Nat, GoOn(n)
  PROVE  /\ make' = [cmd |-> make.cmd, kind |-> make.kind, at |-> n,
                     outcome |-> IF n > Len(Scripts[make.kind]) THEN "ok" ELSE "writing"]
         /\ make.kind \in Kinds /\ make.cmd \in Makes /\ make.at \in Nat
<1>1. make \in [cmd : Makes \cup {<<>>}, kind : Kinds, at : Nat, outcome : Outcomes] /\ make.cmd \in Makes
  BY DEF MakeTyped, InHand
<1> QED BY <1>1 DEF GoOn

\* A step that leaves the files the script leaves so far keeps the invariant.
LEMMA WritingOn ==
  ASSUME WorkspaceInv, make.outcome = "writing", NEW n \in Nat, GoOn(n),
         n \in DOMAIN Scripts[make.kind] \/ n = Len(Scripts[make.kind]) + 1,
         disk' \in [DOMAIN disk' -> FileRecords],
         \A p \in LeftBy(make.kind, n) \ FrontendPaths : Made(p)',
         EditsKept', kept' \subseteq kept
  PROVE  WorkspaceInv'
<1>1. PICK k \in Kinds : k = make.kind
  BY DEF WorkspaceInv, MakeTyped
<1>2. PICK l \in Nat : l = Len(Scripts[k]) /\ DOMAIN Scripts[k] = 1 .. l
  BY ScriptIs, Zenon
<1>3. PICK out : out = IF n > l THEN "ok" ELSE "writing"
  OBVIOUS
<1>4. /\ make' = [cmd |-> make.cmd, kind |-> k, at |-> n, outcome |-> out]
      /\ make.cmd \in Makes /\ (make.cmd.what = "new" => k \notin Additions)
  BY <1>1, <1>2, <1>3, GoesOn DEF WorkspaceInv, MakeTyped, InHand
<1>5. n \in 1 .. l \/ n = l + 1
  BY <1>1, <1>2
<1>6. /\ out = "writing" => n \in DOMAIN Scripts[k]
      /\ out = "ok" => n = Len(Scripts[k]) + 1
      /\ out \in {"writing", "ok"}
  BY <1>2, <1>3, <1>5
<1>7. MakeTyped'
  BY <1>4, <1>6 DEF MakeTyped, InHand, Outcomes
<1>8. Underway'
  BY <1>1, <1>4, <1>6 DEF Underway, InHand
<1>9. NoneInTheWay'
  <2>1. make'.kind = make.kind /\ make'.cmd = make.cmd
    BY <1>1, <1>4
  <2> QED BY <2>1 DEF WorkspaceInv, NoneInTheWay, Forced
<1> QED BY <1>7, <1>8, <1>9 DEF WorkspaceInv

\* A file is put down, or goes: the user's files that are kept are other files.
LEMMA PutDown ==
  ASSUME WorkspaceInv, make.outcome = "writing", Step.op = "write", NEW file \in FileRecords, NEW p, p = Step.path,
         disk' = With(p, file), kept' = IF Forced THEN kept \ {p} ELSE kept
  PROVE  /\ disk' \in [DOMAIN disk' -> FileRecords] /\ EditsKept' /\ kept' \subseteq kept
         /\ \A q : Made(q) /\ q # p => Made(q)'
         /\ file.whole => Made(p)'
<1>1. disk' = [q \in DOMAIN disk \cup {p} |-> IF q = p THEN file ELSE disk[q]] /\ DOMAIN disk' = DOMAIN disk \cup {p}
  BY DEF With
<1>2. disk \in [DOMAIN disk -> FileRecords]
  BY DEF WorkspaceInv, MakeTyped
<1>3. disk' \in [DOMAIN disk' -> FileRecords]
  BY <1>1, <1>2
<1>4. p \notin kept'
  <2>1. CASE Forced
    BY <2>1
  <2>2. CASE ~Forced
    <3>1. kept = {} \/ (make.kind = "page" /\ View("pricing") \notin kept)
      BY <2>2 DEF WorkspaceInv, NoneInTheWay
    <3>2. ASSUME make.kind = "page" PROVE p = View("pricing")
      <4>1. make.at \in DOMAIN Scripts.page /\ p = Scripts.page[make.at].path
        BY <3>2 DEF WorkspaceInv, Underway, Step
      <4> QED BY <4>1, TemplatesAssumption, Zenon
    <3> QED BY <2>2, <3>1, <3>2
  <2> QED BY <2>1, <2>2
<1>5. kept' \subseteq kept
  OBVIOUS
<1>6. EditsKept'
  BY <1>1, <1>4, <1>5 DEF WorkspaceInv, EditsKept
<1>7. ASSUME NEW q, Made(q), q # p PROVE Made(q)'
  BY <1>1, <1>7 DEF Made
<1>8. file.whole => Made(p)'
  BY <1>1 DEF Made
<1> QED BY <1>3, <1>5, <1>6, <1>7, <1>8

\* Writing a file.
LEMMA WriteKeeps == WorkspaceInv /\ Write => WorkspaceInv'
<1>1. SUFFICES ASSUME WorkspaceInv, Write PROVE WorkspaceInv'
  OBVIOUS
<1>2. PICK file : file = [kind |-> make.kind, whole |-> TRUE, mine |-> FALSE]
  OBVIOUS
<1>3. file \in FileRecords /\ file.whole
  BY <1>1, <1>2 DEF WorkspaceInv, MakeTyped, FileRecords
<1>4. PICK path : path = Step.path
  OBVIOUS
<1>5. /\ make.outcome = "writing" /\ Step.op = "write" /\ disk' = With(path, file) /\ GoOn(make.at + 1)
       /\ kept' = IF Forced THEN kept \ {path} ELSE kept
  BY <1>1, <1>2, <1>4 DEF Write
<1>6. /\ disk' \in [DOMAIN disk' -> FileRecords] /\ EditsKept' /\ kept' \subseteq kept
      /\ \A q : Made(q) /\ q # path => Made(q)'
      /\ Made(path)'
  BY <1>1, <1>3, <1>4, <1>5, PutDown
<1>7. PICK k \in Kinds : k = make.kind
  BY <1>1 DEF WorkspaceInv, MakeTyped
<1>8. PICK n \in Nat : n = make.at
  BY <1>1 DEF WorkspaceInv, MakeTyped
<1>9. /\ n \in DOMAIN Scripts[k] /\ path = Scripts[k][n].path /\ n + 1 \in Nat
      /\ \A p \in LeftBy(k, n) \ FrontendPaths : Made(p)
  BY <1>1, <1>4, <1>7, <1>8, <1>5 DEF WorkspaceInv, Underway, InHand, Step
<1>10. ASSUME NEW p \in LeftBy(k, n + 1) \ FrontendPaths PROVE Made(p)'
  <2>1. p = path \/ p \in LeftBy(k, n)
    BY <1>9, LeftByWrite
  <2> QED BY <1>6, <1>9, <2>1
<1>11. n + 1 \in DOMAIN Scripts[k] \/ n + 1 = Len(Scripts[k]) + 1
  BY <1>9, ScriptIs
<1> QED BY <1>1, <1>5, <1>6, <1>7, <1>8, <1>9, <1>10, <1>11, WritingOn

\* Removing a directory before it is written anew.
LEMMA ClearKeeps == WorkspaceInv /\ Clear => WorkspaceInv'
<1>1. SUFFICES ASSUME WorkspaceInv, Clear PROVE WorkspaceInv'
  OBVIOUS
<1>2. /\ make.outcome = "writing" /\ Step.op \in {"remove", "clear"} /\ GoOn(make.at + 1)
      /\ disk' = IF Step.op = "clear" THEN <<>> ELSE Without(Step.path)
      /\ kept' = IF ~Forced THEN kept ELSE IF Step.op = "clear" THEN {} ELSE kept \ {Step.path}
  BY <1>1 DEF Clear
<1>3. PICK k \in Kinds : k = make.kind
  BY <1>1 DEF WorkspaceInv, MakeTyped
<1>4. PICK n \in Nat : n = make.at
  BY <1>1 DEF WorkspaceInv, MakeTyped
<1>5. /\ n \in DOMAIN Scripts[k] /\ Step = Scripts[k][n] /\ n + 1 \in Nat
      /\ \A p \in LeftBy(k, n) \ FrontendPaths : Made(p)
  BY <1>1, <1>2, <1>3, <1>4 DEF WorkspaceInv, Underway, InHand, Step
<1>6. \A q \in DOMAIN disk : ~Removes(Step, q) => q \in DOMAIN disk' /\ disk'[q] = disk[q]
  BY <1>2 DEF Removes, Without
<1>7. disk' \in [DOMAIN disk' -> FileRecords]
  <2>1. disk \in [DOMAIN disk -> FileRecords]
    BY <1>1 DEF WorkspaceInv, MakeTyped
  <2>2. CASE Step.op = "clear"
    BY <1>2, <2>2
  <2>3. CASE Step.op # "clear"
    BY <1>2, <2>1, <2>3 DEF Without
  <2> QED BY <2>2, <2>3
<1>8. kept' \subseteq kept /\ \A q \in kept' : ~Removes(Step, q)
  <2>1. CASE Forced
    BY <1>2, <2>1 DEF Removes
  <2>2. CASE ~Forced
    <3>1. kept = {} \/ make.kind = "page"
      BY <1>1, <1>2, <2>2 DEF WorkspaceInv, NoneInTheWay
    <3>2. make.kind # "page"
      <4>1. ASSUME k = "page" PROVE Step.op = "write"
        <5>1. n \in DOMAIN Scripts.page /\ Step = Scripts.page[n]
          BY <1>5, <4>1
        <5> QED BY <5>1, TemplatesAssumption
      <4> QED BY <1>2, <1>3, <4>1
    <3> QED BY <1>2, <2>2, <3>1, <3>2
  <2> QED BY <2>1, <2>2
<1>9. EditsKept'
  BY <1>1, <1>6, <1>8 DEF WorkspaceInv, EditsKept
<1>10. ASSUME NEW p \in LeftBy(k, n + 1) \ FrontendPaths PROVE Made(p)'
  <2>1. p \in LeftBy(k, n) /\ ~Removes(Step, p)
    BY <1>2, <1>5, LeftByOther
  <2> QED BY <1>5, <1>6, <2>1 DEF Made
<1>11. n + 1 \in DOMAIN Scripts[k] \/ n + 1 = Len(Scripts[k]) + 1
  BY <1>5, ScriptIs
<1> QED BY <1>1, <1>2, <1>3, <1>4, <1>5, <1>7, <1>8, <1>9, <1>10, <1>11, WritingOn

\* Skipping a step whose file is there, or leaving the template it begins.
LEMMA SkipKeeps == WorkspaceInv /\ Skip => WorkspaceInv'
<1>1. SUFFICES ASSUME WorkspaceInv, Skip PROVE WorkspaceInv'
  OBVIOUS
<1>2. PICK k \in Kinds : k = make.kind
  BY <1>1 DEF WorkspaceInv, MakeTyped
<1>3. PICK n \in Nat : n = make.at
  BY <1>1 DEF WorkspaceInv, MakeTyped
<1>4. PICK l \in Nat : l = Len(Scripts[k]) /\ DOMAIN Scripts[k] = 1 .. l
  BY ScriptIs, Zenon
<1>5. make.outcome = "writing" /\ Step.op = "unless" /\ UNCHANGED <<disk, kept>>
  BY <1>1 DEF Skip
<1>6. PICK m : m = IF Step.path \in DOMAIN disk THEN l + 1 ELSE n + 1
  OBVIOUS
<1>7. GoOn(m)
  BY <1>1, <1>2, <1>3, <1>4, <1>6 DEF Skip
<1>8. n \in 1 .. l /\ Step = Scripts[k][n] /\ \A p \in LeftBy(k, n) \ FrontendPaths : Made(p)
  BY <1>1, <1>2, <1>3, <1>4, <1>5 DEF WorkspaceInv, Underway, InHand, Step
<1>9. m \in Nat /\ (m \in 1 .. l \/ m = l + 1)
  BY <1>6, <1>8
<1>10. ASSUME NEW p \in LeftBy(k, m) \ FrontendPaths PROVE Made(p)'
  <2>1. p \in LeftBy(k, n)
    <3>1. CASE m = l + 1
      BY <1>4, <1>5, <1>8, <3>1, LeftBySkip
    <3>2. CASE m = n + 1
      BY <1>4, <1>5, <1>8, <3>2, LeftByOther
    <3> QED BY <1>6, <3>1, <3>2
  <2> QED BY <1>5, <1>8, <2>1 DEF Made
<1>11. disk' \in [DOMAIN disk' -> FileRecords] /\ EditsKept' /\ kept' \subseteq kept
  BY <1>1, <1>5 DEF WorkspaceInv, MakeTyped, EditsKept
<1> QED BY <1>1, <1>2, <1>4, <1>5, <1>7, <1>9, <1>10, <1>11, WritingOn

\* A command is killed and leaves what it has written.
LEMMA KillKeeps == WorkspaceInv /\ Kill => WorkspaceInv'
<1>1. SUFFICES ASSUME WorkspaceInv, Kill PROVE WorkspaceInv'
  OBVIOUS
<1>2. PICK file : file = [kind |-> make.kind, whole |-> FALSE, mine |-> FALSE]
  OBVIOUS
<1>3. file \in FileRecords
  BY <1>1, <1>2 DEF WorkspaceInv, MakeTyped, FileRecords
<1>4. PICK path : path = Step.path
  OBVIOUS
<1>5. /\ make.outcome = "writing" /\ Step.op = "write" /\ disk' = With(path, file)
      /\ kept' = IF Forced THEN kept \ {path} ELSE kept
      /\ make' = [make EXCEPT !.outcome = "killed"]
  BY <1>1, <1>2, <1>4 DEF Kill
<1>6. disk' \in [DOMAIN disk' -> FileRecords] /\ EditsKept'
  BY <1>1, <1>3, <1>4, <1>5, PutDown
<1>7. make' \in [cmd : Makes \cup {<<>>}, kind : Kinds, at : Nat, outcome : Outcomes] /\ make'.outcome = "killed"
  BY <1>1, <1>5 DEF WorkspaceInv, MakeTyped, Outcomes
<1>8. MakeTyped'
  BY <1>6, <1>7 DEF MakeTyped, InHand
<1> QED BY <1>6, <1>7, <1>8 DEF WorkspaceInv, Underway, InHand, NoneInTheWay

\* The user edits a file between commands.
LEMMA EditKeeps == WorkspaceInv /\ Edit => WorkspaceInv'
<1>1. SUFFICES ASSUME WorkspaceInv, Edit PROVE WorkspaceInv'
  OBVIOUS
<1>2. PICK p \in EditPaths \cap DOMAIN disk :
        /\ disk[p].whole /\ disk' = [disk EXCEPT ![p].mine = TRUE] /\ kept' = kept \cup {p}
  BY <1>1 DEF Edit
<1>3. make.outcome \notin {"writing", "calling"} /\ UNCHANGED <<make, frame>>
  BY <1>1 DEF Edit
<1>4. disk \in [DOMAIN disk -> FileRecords]
  BY <1>1 DEF WorkspaceInv, MakeTyped
<1>5. PICK file : file = [disk[p] EXCEPT !.mine = TRUE]
  OBVIOUS
<1>6. file \in FileRecords /\ file.mine /\ file.whole = disk[p].whole
  BY <1>2, <1>4, <1>5 DEF FileRecords
<1>7. /\ disk' = [disk EXCEPT ![p] = file] /\ DOMAIN disk' = DOMAIN disk
      /\ disk'[p] = file /\ \A q \in DOMAIN disk \ {p} : disk'[q] = disk[q]
  BY <1>2, <1>4, <1>5
<1>8. disk' \in [DOMAIN disk' -> FileRecords]
  BY <1>4, <1>6, <1>7
<1>9. MakeTyped'
  BY <1>1, <1>3, <1>8 DEF WorkspaceInv, MakeTyped, InHand
<1>10. \A q : Made(q) => Made(q)'
  BY <1>2, <1>6, <1>7 DEF Made
<1>11. Underway'
  BY <1>1, <1>3, <1>10 DEF WorkspaceInv, Underway, InHand
<1>12. EditsKept'
  BY <1>1, <1>2, <1>6, <1>7 DEF WorkspaceInv, EditsKept
<1>13. NoneInTheWay'
  BY <1>3 DEF NoneInTheWay
<1> QED BY <1>9, <1>11, <1>12, <1>13 DEF WorkspaceInv

\* The invariant of the project directory is kept by every step.
LEMMA WorkspaceSteps == WorkspaceInv /\ [WorkspaceNext]_workspaceVars => WorkspaceInv'
<1>1. CASE UNCHANGED workspaceVars
  BY <1>1 DEF workspaceVars, WorkspaceInv, MakeTyped, Underway, InHand, EditsKept, NoneInTheWay, Forced, Made
<1>2. CASE WorkspaceNext
  BY <1>2, GiveKeeps, CallCreateKeeps, WriteKeeps, ClearKeeps, SkipKeeps, KillKeeps, EditKeeps DEF WorkspaceNext
<1> QED BY <1>1, <1>2
-----------------------------------------------------------------------------
(***************************************************************************)
(* The parts side by side.                                                 *)
(***************************************************************************)

FrameworkInv == WebInv /\ HTTPInv /\ ManifestInv /\ PubInv /\ SocketInv /\ WorkspaceInv

\* Each part of the framework starts in a state of its own, and those that do
\* not run this time are idle.
LEMMA PartsStart ==
  MCInit =>
    /\ WebInit /\ ManifestInit /\ PubInit /\ WorkspaceInit
    /\ HTTPInit \/ HTTPIdle
    /\ SocketInit \/ SocketIdle
  BY DEF MCInit

\* A step of the composition is, for each part, a step of its own or none.
LEMMA PartSteps ==
  [MCNext]_<<compilerVars, learningVars, frameworkVars, part>> =>
    /\ [WebNext]_webVars /\ [HTTPNext]_httpVars /\ [ManifestNext]_manifestVars
    /\ [PubNext]_pubVars /\ [SocketNext]_socketVars /\ [WorkspaceNext]_workspaceVars
<1> SUFFICES ASSUME [MCNext]_<<compilerVars, learningVars, frameworkVars, part>>
             PROVE  /\ [WebNext]_webVars /\ [HTTPNext]_httpVars /\ [ManifestNext]_manifestVars
                    /\ [PubNext]_pubVars /\ [SocketNext]_socketVars /\ [WorkspaceNext]_workspaceVars
  OBVIOUS
<1>1. UNCHANGED frameworkVars \/ Framework
  BY DEF MCNext
<1>2. WebNext \/ UNCHANGED webVars
  BY <1>1 DEF frameworkVars, Framework
<1>3. HTTPNext \/ UNCHANGED httpVars
  BY <1>1 DEF frameworkVars, Framework
<1>4. ManifestNext \/ UNCHANGED manifestVars
  BY <1>1 DEF frameworkVars, Framework
<1>5. PubNext \/ UNCHANGED pubVars
  BY <1>1 DEF frameworkVars, Framework
<1>6. SocketNext \/ UNCHANGED socketVars
  BY <1>1 DEF frameworkVars, Framework
<1>7. WorkspaceNext \/ UNCHANGED workspaceVars
  BY <1>1 DEF frameworkVars, Framework
<1> QED BY <1>2, <1>3, <1>4, <1>5, <1>6, <1>7

\* Every state of the composition satisfies every part's invariant.
THEOREM FrameworkInvHolds == MCSpec => []FrameworkInv
<1>1. MCInit => FrameworkInv
  BY PartsStart, WebInvInit, HTTPInvInit, ManifestInvInit, PubInvInit, SocketInvInit, WorkspaceInvInit
     DEF FrameworkInv
<1>2. FrameworkInv /\ [MCNext]_<<compilerVars, learningVars, frameworkVars, part>> => FrameworkInv'
  BY PartSteps, WebSteps, HTTPSteps, ManifestSteps, PubSteps, SocketSteps, WorkspaceSteps DEF FrameworkInv
<1> QED BY <1>1, <1>2, PTL DEF MCSpec

\* A request passes its steps in order under a sound session, calls,
\* publications and messages happen as often as they are said to, and a project
\* made can be used and keeps what the user has written.
THEOREM FrameworkIsSound == MCSpec => []FrameworkSound
<1>1. FrameworkInv => NothingInvented
  BY DEF FrameworkInv, ManifestInv, AskedFor, NothingInvented
<1>2. FrameworkInv => FrameworkSound
  BY <1>1, WebInvTrue, HTTPInvTrue, PubInvTrue, SocketInvTrue, WorkspaceInvTrue DEF FrameworkInv, FrameworkSound
<1> QED BY <1>2, FrameworkInvHolds, PTL

\* A directory in which commands are given one after the other, killed or not,
\* has a project that can be used whenever one has ended, and the user's text.
THEOREM ProjectsUsable == WorkspaceSpec => [](ProjectUsable /\ EditsKept)
<1> QED BY WorkspaceInvInit, WorkspaceSteps, WorkspaceInvTrue, PTL DEF WorkspaceSpec

\* A command that runs alone leaves a lock with the dependencies of the manifest
\* and its project, up to the keys it has dropped from the file.
THEOREM LockFollowsManifest == MCSpec => LockMatches
<1>1. FrameworkInv /\ [MCNext]_<<compilerVars, learningVars, frameworkVars, part>> =>
        [\A p \in Processes : single /\ WriteLock(p) =>
           Follows(lock, toml)' /\ (command[p].name = "install" => lock' = toml')]_manifestVars
  BY PartSteps, LockFollows DEF FrameworkInv
<1> QED BY <1>1, FrameworkInvHolds, PTL DEF MCSpec, LockMatches
=============================================================================
