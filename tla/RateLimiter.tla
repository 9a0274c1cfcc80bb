----------------------------- MODULE RateLimiter -----------------------------
(***************************************************************************)
(* RateLimiter.allow, called by the threads of a web server.  Keys do not  *)
(* share anything, so this is the limiter of one key.  A call takes the    *)
(* time, reads the hits, decides and writes the hits back; other calls may *)
(* come in between, since there is no lock.  Nothing depends on the order  *)
(* of the list of hits: it is a set of hits, each with its time and, to    *)
(* tell two hits of one time apart, the number of calls let through.       *)
(***************************************************************************)
EXTENDS Integers, FiniteSets

CONSTANTS
  Requests,     \* concurrent calls: each thread makes one at a time
  Limit,
  Window,       \* window_seconds
  MaxTime       \* bound of the clock

ASSUME LimiterAssumption == Limit \in Nat /\ Window \in Nat /\ MaxTime \in Nat

VARIABLES
  clock,
  hits,         \* _hits[key]
  call,         \* per thread: how far the call is, its now, its hits
  admitted,     \* the hits of all calls that were let through
  overlapped    \* has a call changed the hits while another was under way?

limiterVars == <<clock, hits, call, admitted, overlapped>>

NoCall == [at |-> "idle", now |-> 0, hits |-> {}]

LimiterInit ==
  /\ clock = 0
  /\ hits = {} /\ admitted = {}
  /\ call = [r \in Requests |-> NoCall]
  /\ overlapped = FALSE

\* the hits of the window that ends now
Recent(h, now) == {x \in h : x.time >= now - Window}

Within(h) == Cardinality(h) < Limit

Hit(r) == [time |-> call[r].now, number |-> Cardinality(admitted) + 1]

\* what is written back
Kept(r) == IF Within(call[r].hits) THEN call[r].hits \cup {Hit(r)} ELSE call[r].hits
-----------------------------------------------------------------------------
Tick ==
  /\ clock < MaxTime
  /\ clock' = clock + 1
  /\ UNCHANGED <<hits, call, admitted, overlapped>>

\* now = time.time()
TakeTime(r) ==
  /\ call[r].at = "idle"
  /\ call' = [call EXCEPT ![r].at = "timed", ![r].now = clock]
  /\ UNCHANGED <<clock, hits, admitted, overlapped>>

ReadHits(r) ==
  /\ call[r].at = "timed"
  /\ call' = [call EXCEPT ![r].at = "read", ![r].hits = Recent(hits, call[r].now)]
  /\ UNCHANGED <<clock, hits, admitted, overlapped>>

\* both branches write; the answer is whether there was room
WriteHits(r) ==
  /\ call[r].at = "read"
  /\ hits' = Kept(r)
  /\ admitted' = IF Within(call[r].hits) THEN admitted \cup {Hit(r)} ELSE admitted
  /\ overlapped' = (overlapped \/ (hits' # hits /\ \E q \in Requests \ {r} : call[q].at # "idle"))
  /\ call' = [call EXCEPT ![r] = NoCall]
  /\ UNCHANGED clock

LimiterNext == Tick \/ \E r \in Requests : TakeTime(r) \/ ReadHits(r) \/ WriteHits(r)

LimiterSpec == LimiterInit /\ [][LimiterNext]_limiterVars
-----------------------------------------------------------------------------
Between(h, a, b) == Cardinality({x \in h : a <= x.time /\ x.time <= b})

LimiterTypeOK ==
  LET Hits == [time : 0 .. MaxTime, number : Nat] IN
  /\ clock \in 0 .. MaxTime
  /\ hits \subseteq Hits /\ admitted \subseteq Hits
  /\ \A r \in Requests :
       /\ call[r].at \in {"idle", "timed", "read"}
       /\ call[r].now \in 0 .. MaxTime
       /\ call[r].hits \subseteq Hits

\* As long as no call has changed the hits while another was under way, no
\* window of window_seconds lets more than the limit through.
WithinLimit ==
  ~overlapped => \A t \in 0 .. MaxTime : Between(admitted, t, t + Window) <= Limit

\* Nobody is refused without cause, not even when calls overlap: at the moment
\* a call is refused, at least the limit has been let through since the start
\* of its window.
RefusedForCause ==
  [][\A r \in Requests :
       call[r].at = "read" /\ call'[r].at = "idle" /\ admitted' = admitted
       => Between(admitted, call[r].now - Window, MaxTime) >= Limit]_limiterVars
\* Who is let through and who is refused follows the limit.
LimitKept == [](LimiterTypeOK /\ WithinLimit) /\ RefusedForCause
=============================================================================
