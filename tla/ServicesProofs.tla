--------------------------- MODULE ServicesProofs ---------------------------
(***************************************************************************)
(* What the services keep, proved for any number of threads, jobs, hits,   *)
(* rows, migrations and rounds: the job queue, the rate limiter, active    *)
(* records, the migration runner and the allreduce over files; and what    *)
(* peers may rely on, for any number of them, of events and of messages:   *)
(* the gossip flood, the broadcasts of the TCP server and of the native    *)
(* WebSocket server, the rooms of the signaling server and the turns of    *)
(* the supervisor.  Each is proved alone and side by side in MCServices.   *)
(***************************************************************************)
EXTENDS MCServices, FiniteSetTheorems, SequenceTheorems, WellFoundedInduction, TLAPS

-----------------------------------------------------------------------------
(***************************************************************************)
(* The job queue (web.py).  A job is found in one place: with its caller,  *)
(* in the queue, with one worker, or it has ended.                         *)
(***************************************************************************)

CallRecord ==
  [at : {"idle", "start", "spawn", "append", "put", "stop", "join"}, job : Jobs \cup {NoJob},
   left : Nat, thread : Nat, late : BOOLEAN]

\* Calls: who puts a job has it for himself, and a thread is spawned before it is listed.
CallsOK ==
  /\ caller \in [Callers -> CallRecord]
  /\ \A c \in Callers :
       /\ caller[c].at = "idle" => caller[c] = Idle
       /\ caller[c].at = "append" => caller[c].thread \in DOMAIN worker
       /\ caller[c].at = "put" => caller[c].job \in Jobs
       /\ caller[c].at \in {"stop", "join"} => caller[c].job = NoJob /\ stops > 0
       /\ caller[c].job \in Jobs => status[caller[c].job] = "new"
       /\ caller[c].job \in Jobs => \A d \in Callers : caller[d].job = caller[c].job => d = c

\* A queued job is once in the queue, a running one with one worker, unless that has died.
FifoOK ==
  /\ \A i \in DOMAIN fifo : fifo[i] \in Jobs => status[fifo[i]] = "queued"
  /\ \A i, k \in DOMAIN fifo : fifo[i] \in Jobs /\ fifo[i] = fifo[k] => i = k
  /\ \A j \in Jobs : status[j] = "queued" => \E i \in DOMAIN fifo : fifo[i] = j

WorkersOK ==
  /\ \A w \in DOMAIN worker : worker[w] \in Jobs => status[worker[w]] = "running"
  /\ \A v, w \in DOMAIN worker : worker[v] \in Jobs /\ worker[v] = worker[w] => v = w
  /\ \A j \in Jobs : status[j] = "running" =>
       \E w \in DOMAIN worker : worker[w] = j \/ worker[w] = "died"

\* The sentinels come after the early jobs.
EarlyFirst ==
  /\ \A j \in early : status[j] # "new"
  /\ stops = 0 => \A i \in DOMAIN fifo : fifo[i] # None
  /\ \A i, k \in DOMAIN fifo : fifo[i] = None /\ fifo[k] \in early => k < i
  /\ (\E w \in DOMAIN worker : worker[w] = "exited") =>
       stops > 0 /\ \A i \in DOMAIN fifo : fifo[i] \notin early

\* What a stop has joined without a timeout has ended.
JoinedGone ==
  \A c \in Callers : caller[c].at = "join" =>
    /\ caller[c].left <= Len(threads)
    /\ ~caller[c].late => \A i \in 1 .. caller[c].left : Gone(threads[i])

JobInv == JobTypeOK /\ CallsOK /\ FifoOK /\ WorkersOK /\ EarlyFirst /\ JoinedGone

\* The record of a caller that calls nothing.
LEMMA IdleCall ==
  /\ Idle \in CallRecord /\ Idle.at = "idle" /\ Idle.job = NoJob /\ Idle.left = 0 /\ Idle.late = FALSE
  /\ NoJob \notin Jobs /\ None \notin Jobs /\ "idle" \notin Jobs /\ "exited" \notin Jobs /\ "died" \notin Jobs
  BY JobAssumption DEF Idle, CallRecord, NoJob, None

\* No job is queued and no worker runs at first.
LEMMA JobInvInit == JobInit => JobInv
<1> SUFFICES ASSUME JobInit PROVE JobInv
  OBVIOUS
<1>1. /\ \A c \in Callers : caller[c] = Idle
      /\ fifo = <<>> /\ threads = <<>> /\ worker = <<>> /\ started = FALSE /\ stops = 0 /\ early = {}
      /\ \A j \in Jobs : status[j] = "new"
  BY DEF JobInit
<1>2. JobTypeOK
  <2>1. stops \in 0 .. MaxStops /\ early \subseteq Jobs
    BY <1>1, JobAssumption
  <2>5. started \in BOOLEAN
    BY <1>1, Zenon
  <2>2. fifo \in Seq(Jobs \cup {None}) /\ worker \in Seq({"idle", "exited", "died"} \cup Jobs) /\ threads \in Seq(DOMAIN worker)
    BY <1>1
  <2>3. status \in [Jobs -> {"new", "queued", "running", "done", "failed"}]
    BY DEF JobInit
  <2>4. \A c \in Callers : caller[c].at = "idle" /\ caller[c].job = NoJob
    BY <1>1, IdleCall
  <2> QED BY <2>1, <2>2, <2>3, <2>4, <2>5 DEF JobTypeOK
<1>3. CallsOK
  <2>1. caller \in [Callers -> CallRecord]
    BY IdleCall DEF JobInit
  <2> QED BY <1>1, <2>1, IdleCall DEF CallsOK
<1>4. FifoOK /\ WorkersOK
  BY <1>1 DEF FifoOK, WorkersOK
<1>5. EarlyFirst /\ JoinedGone
  BY <1>1, IdleCall DEF EarlyFirst, JoinedGone
<1> QED BY <1>2, <1>3, <1>4, <1>5 DEF JobInv

\* The properties the invariant is for.
LEMMA JobInvTakenOnce == JobInv => TakenOnce
<1> SUFFICES ASSUME JobInv, NEW j \in Jobs
             PROVE  /\ Cardinality({i \in DOMAIN fifo : fifo[i] = j}) = IF status[j] = "queued" THEN 1 ELSE 0
                    /\ Cardinality({w \in DOMAIN worker : worker[w] = j}) <= IF status[j] = "running" THEN 1 ELSE 0
  BY DEF TakenOnce
<1>1. CASE status[j] = "queued"
  <2>1. PICK i \in DOMAIN fifo : fifo[i] = j
    BY <1>1 DEF JobInv, FifoOK
  <2>2. {k \in DOMAIN fifo : fifo[k] = j} = {i}
    BY <2>1 DEF JobInv, FifoOK
  <2>3. {w \in DOMAIN worker : worker[w] = j} = {}
    BY <1>1 DEF JobInv, WorkersOK
  <2> QED BY <1>1, <2>2, <2>3, FS_Singleton, FS_EmptySet
<1>2. CASE status[j] # "queued"
  <2>1. {k \in DOMAIN fifo : fifo[k] = j} = {}
    BY <1>2 DEF JobInv, FifoOK
  <2>2. CASE \E w \in DOMAIN worker : worker[w] = j
    <3>1. PICK w \in DOMAIN worker : worker[w] = j
      BY <2>2
    <3>2. {v \in DOMAIN worker : worker[v] = j} = {w} /\ status[j] = "running"
      BY <3>1 DEF JobInv, WorkersOK
    <3>3. Cardinality({w}) = 1 /\ Cardinality({}) = 0
      BY FS_Singleton, FS_EmptySet
    <3> QED BY <1>2, <2>1, <3>2, <3>3
  <2>3. CASE ~\E w \in DOMAIN worker : worker[w] = j
    <3>1. {v \in DOMAIN worker : worker[v] = j} = {}
      BY <2>3
    <3> QED BY <1>2, <2>1, <3>1, FS_EmptySet
  <2> QED BY <2>2, <2>3
<1> QED BY <1>1, <1>2

\* A stop that has joined its threads leaves nothing in the queue that came before it.
LEMMA JobInvStopDrains == JobInv => StopDrains
<1> SUFFICES ASSUME JobInv, NEW c \in Callers, caller[c].at = "join", ~caller[c].late,
                    caller[c].left > 0, caller[c].left = Len(threads),
                    \A w \in DOMAIN worker : worker[w] # "died", NEW j \in early
             PROVE  \/ status[j] \in {"done", "failed"}
                    \/ \E w \in DOMAIN worker : worker[w] = j /\ \A i \in DOMAIN threads : threads[i] # w
  BY DEF StopDrains
<1>1. /\ j \in Jobs /\ status[j] \in {"new", "queued", "running", "done", "failed"} /\ status[j] # "new"
      /\ threads \in Seq(DOMAIN worker) /\ Len(threads) \in Nat /\ DOMAIN threads = 1 .. Len(threads)
  BY DEF JobInv, JobTypeOK, EarlyFirst
<1>2. \A i \in 1 .. Len(threads) : Gone(threads[i]) /\ threads[i] \in DOMAIN worker
  BY <1>1 DEF JobInv, JoinedGone
<1>3. \E w \in DOMAIN worker : worker[w] = "exited"
  BY <1>1, <1>2 DEF Gone
<1>4. status[j] # "queued"
  BY <1>1, <1>3 DEF JobInv, EarlyFirst, FifoOK
<1>5. status[j] = "running" => \E w \in DOMAIN worker : worker[w] = j
  BY <1>1 DEF JobInv, WorkersOK
<1>6. \A w \in DOMAIN worker : worker[w] = j => \A i \in DOMAIN threads : threads[i] # w
  BY <1>1, <1>2, JobAssumption DEF Gone
<1> QED BY <1>1, <1>4, <1>5, <1>6

\* A call changes one field of its record.
LEMMA CallMoves ==
  ASSUME caller \in [Callers -> CallRecord], NEW c \in Callers, NEW n \in Nat, NEW m \in Nat, NEW b \in BOOLEAN,
         NEW x \in {"idle", "start", "spawn", "append", "put", "stop", "join"}, NEW j \in Jobs \cup {NoJob}
  PROVE  /\ [caller EXCEPT ![c] = Idle] \in [Callers -> CallRecord]
         /\ [caller EXCEPT ![c] = [Idle EXCEPT !.job = j, !.at = x]] \in [Callers -> CallRecord]
         /\ [caller EXCEPT ![c].at = x] \in [Callers -> CallRecord]
         /\ [caller EXCEPT ![c].left = n] \in [Callers -> CallRecord]
         /\ [caller EXCEPT ![c].at = x, ![c].left = n] \in [Callers -> CallRecord]
         /\ [caller EXCEPT ![c].at = x, ![c].thread = n] \in [Callers -> CallRecord]
         /\ [caller EXCEPT ![c].left = n, ![c].late = b] \in [Callers -> CallRecord]
<1> USE IdleCall
<1>1. [caller EXCEPT ![c] = Idle] \in [Callers -> CallRecord]
  OBVIOUS
<1>2. [caller EXCEPT ![c] = [Idle EXCEPT !.job = j, !.at = x]] \in [Callers -> CallRecord]
  <2>1. [Idle EXCEPT !.job = j, !.at = x] \in CallRecord
    BY DEF CallRecord
  <2> QED BY <2>1
<1>3. [caller EXCEPT ![c].at = x] \in [Callers -> CallRecord] /\ [caller EXCEPT ![c].left = n] \in [Callers -> CallRecord]
  BY DEF CallRecord
<1>4. /\ [caller EXCEPT ![c].at = x, ![c].left = n] \in [Callers -> CallRecord]
      /\ [caller EXCEPT ![c].at = x, ![c].thread = n] \in [Callers -> CallRecord]
  BY DEF CallRecord
<1>5. [caller EXCEPT ![c].left = n, ![c].late = b] \in [Callers -> CallRecord]
  BY DEF CallRecord
<1> QED BY <1>1, <1>2, <1>3, <1>4, <1>5

\* The queue and the workers do not see a step of a caller.
LEMMA QueueUnseen ==
  ASSUME JobInv, UNCHANGED <<fifo, worker, status, early, stops>>
  PROVE  FifoOK' /\ WorkersOK' /\ EarlyFirst'
  BY DEF JobInv, FifoOK, WorkersOK, EarlyFirst

\* What a stop has joined stays joined when only others move.
LEMMA JoinedStays ==
  ASSUME JobInv, Len(threads) <= Len(threads'), Len(threads') \in Nat,
         \A i \in 1 .. Len(threads) : threads'[i] = threads[i],
         \A i \in 1 .. Len(threads) : worker[threads[i]] \in {"exited", "died"} => worker'[threads[i]] \in {"exited", "died"},
         \A d \in Callers : caller'[d].at = "join" => caller'[d] = caller[d]
  PROVE  JoinedGone'
<1> SUFFICES ASSUME NEW d \in Callers, caller'[d].at = "join"
             PROVE  /\ caller'[d].left <= Len(threads')
                    /\ ~caller'[d].late => \A i \in 1 .. caller'[d].left : worker'[threads'[i]] \in {"exited", "died"}
  BY DEF JoinedGone, Gone
<1>1. caller'[d] = caller[d] /\ caller[d].at = "join" /\ caller[d].left \in Nat /\ Len(threads) \in Nat
  BY DEF JobInv, CallsOK, CallRecord, JobTypeOK
<1>2. /\ caller[d].left <= Len(threads)
      /\ ~caller[d].late => \A i \in 1 .. caller[d].left : worker[threads[i]] \in {"exited", "died"}
  BY <1>1 DEF JobInv, JoinedGone, Gone
<1>3. \A i \in 1 .. caller[d].left : i \in 1 .. Len(threads)
  BY <1>1, <1>2
<1> QED BY <1>1, <1>2, <1>3

\* A step that only moves callers keeps the types.
LEMMA CallTypes ==
  ASSUME JobInv, UNCHANGED <<fifo, worker, threads, status, early, stops>>, caller' \in [Callers -> CallRecord],
         started' \in BOOLEAN
  PROVE  JobTypeOK'
<1>1. \A c \in Callers : /\ caller'[c].at \in {"idle", "start", "spawn", "append", "put", "stop", "join"}
                          /\ caller'[c].job \in Jobs \cup {NoJob}
  BY DEF CallRecord
<1> QED BY <1>1 DEF JobInv, JobTypeOK

\* A call begins with the test of _started and no more.
LEMMA CallBegins == ASSUME JobInv, NEW c \in Callers, NEW j \in Jobs \cup {NoJob}, Call(c, j) PROVE JobInv'
<1> DEFINE x == IF NeedsStart THEN "start" ELSE "put"
<1>1. /\ caller[c] = Idle /\ caller' = [caller EXCEPT ![c] = [Idle EXCEPT !.job = j, !.at = x]]
      /\ j \in Jobs => status[j] = "new" /\ \A d \in Callers : caller[d].job # j
      /\ j = NoJob => x = "start"
      /\ UNCHANGED <<started, fifo, threads, worker, status, stops, early>>
  BY DEF Call
<1>2. x \in {"start", "put"}
  OBVIOUS
<1> HIDE DEF x
<1>3. caller' \in [Callers -> CallRecord]
  BY <1>1, <1>2, CallMoves, ZenonT(40) DEF JobInv, CallsOK
<1>4. caller'[c].at = x /\ caller'[c].job = j /\ \A d \in Callers \ {c} : caller'[d] = caller[d]
  <2> DEFINE r == [Idle EXCEPT !.job = j, !.at = x]
  <2>1. r.at = x /\ r.job = j
    BY IdleCall DEF CallRecord
  <2> HIDE DEF r
  <2>2. caller' = [caller EXCEPT ![c] = r] /\ caller \in [Callers -> CallRecord]
    BY <1>1 DEF JobInv, CallsOK, r
  <2> QED BY <2>1, <2>2
<1>5. JobTypeOK'
  BY <1>1, <1>3, CallTypes DEF JobInv, JobTypeOK
<1>6. CallsOK'
  BY <1>1, <1>2, <1>3, <1>4, IdleCall DEF JobInv, CallsOK
<1>7. JoinedGone'
  BY <1>1, <1>2, <1>4 DEF JobInv, JoinedGone, Gone
<1> QED BY <1>1, <1>5, <1>6, <1>7, QueueUnseen DEF JobInv

\* start makes at least a natural number of threads.
LEMMA ThreadCountNat == ThreadCount \in Nat
  BY JobAssumption DEF ThreadCount

\* start sets the flag and then makes threads.
LEMMA StartSteps == ASSUME JobInv, NEW c \in Callers, SetStarted(c) PROVE JobInv'
<1>1. /\ caller[c].at = "start" /\ started' = TRUE
      /\ caller' = [caller EXCEPT ![c].at = "spawn", ![c].left = ThreadCount]
      /\ UNCHANGED <<fifo, threads, worker, status, stops, early>>
  BY DEF SetStarted
<1>2. caller' \in [Callers -> CallRecord]
  BY <1>1, ThreadCountNat, CallMoves DEF JobInv, CallsOK
<1>3. caller'[c].at = "spawn" /\ caller'[c].job = caller[c].job /\ \A d \in Callers \ {c} : caller'[d] = caller[d]
  BY <1>1 DEF JobInv, CallsOK, CallRecord
<1>4. JobTypeOK'
  BY <1>1, <1>2, CallTypes
<1>5. CallsOK'
  BY <1>1, <1>2, <1>3, IdleCall DEF JobInv, CallsOK
<1>6. JoinedGone'
  BY <1>1, <1>3 DEF JobInv, JoinedGone, Gone
<1> QED BY <1>1, <1>4, <1>5, <1>6, QueueUnseen DEF JobInv

\* A thread begins to work before it is listed.
LEMMA SpawnSteps == ASSUME JobInv, NEW c \in Callers, Spawn(c) PROVE JobInv'
<1>0. /\ worker \in Seq({"idle", "exited", "died"} \cup Jobs) /\ threads \in Seq(DOMAIN worker)
      /\ Len(worker) \in Nat /\ DOMAIN worker = 1 .. Len(worker)
  BY DEF JobInv, JobTypeOK
<1>1. /\ caller[c].at = "spawn" /\ worker' = Append(worker, "idle")
      /\ caller' = [caller EXCEPT ![c].at = "append", ![c].thread = Len(worker')]
      /\ UNCHANGED <<started, fifo, threads, status, stops, early>>
  BY DEF Spawn
<1>2. /\ worker' \in Seq({"idle", "exited", "died"} \cup Jobs) /\ Len(worker') = Len(worker) + 1
      /\ DOMAIN worker' = 1 .. Len(worker) + 1 /\ worker'[Len(worker) + 1] = "idle"
      /\ \A w \in DOMAIN worker : worker'[w] = worker[w]
  BY <1>0, <1>1
<1>3. caller' \in [Callers -> CallRecord]
  <2>1. Len(worker') \in Nat /\ caller \in [Callers -> CallRecord]
    BY <1>0, <1>2 DEF JobInv, CallsOK
  <2> QED BY <1>1, <2>1, CallMoves
<1>4. /\ caller'[c].at = "append" /\ caller'[c].job = caller[c].job /\ caller'[c].thread = Len(worker')
      /\ \A d \in Callers \ {c} : caller'[d] = caller[d]
  BY <1>1 DEF JobInv, CallsOK, CallRecord
<1>5. JobTypeOK'
  <2>1. threads' \in Seq(DOMAIN worker')
    BY <1>0, <1>1, <1>2
  <2>2. \A d \in Callers : /\ caller'[d].at \in {"idle", "start", "spawn", "append", "put", "stop", "join"}
                            /\ caller'[d].job \in Jobs \cup {NoJob}
    BY <1>3 DEF CallRecord
  <2> QED BY <1>1, <1>2, <2>1, <2>2 DEF JobInv, JobTypeOK
<1>6. CallsOK'
  <2>1. DOMAIN worker \subseteq DOMAIN worker' /\ Len(worker') \in DOMAIN worker'
    BY <1>0, <1>2
  <2> QED BY <1>1, <1>3, <1>4, <2>1, IdleCall DEF JobInv, CallsOK
<1>7. FifoOK'
  BY <1>1 DEF JobInv, FifoOK
<1>8. WorkersOK'
  BY <1>0, <1>1, <1>2, IdleCall DEF JobInv, WorkersOK
<1>9. EarlyFirst'
  BY <1>0, <1>1, <1>2 DEF JobInv, EarlyFirst
<1>10. JoinedGone'
  <2>1. Len(threads) \in Nat /\ \A i \in 1 .. Len(threads) : threads[i] \in DOMAIN worker
    BY <1>0
  <2>2. \A i \in 1 .. Len(threads) : worker'[threads[i]] = worker[threads[i]]
    BY <1>2, <2>1
  <2>3. threads' = threads /\ Len(threads) <= Len(threads') /\ Len(threads') \in Nat
    BY <1>1, <2>1
  <2>4. \A d \in Callers : caller'[d].at = "join" => caller'[d] = caller[d]
    BY <1>4
  <2> QED BY <2>2, <2>3, <2>4, JoinedStays
<1> QED BY <1>5, <1>6, <1>7, <1>8, <1>9, <1>10 DEF JobInv

\* A thread is listed once it has begun.
LEMMA AppendSteps == ASSUME JobInv, NEW c \in Callers, AppendThread(c) PROVE JobInv'
<1>0. /\ threads \in Seq(DOMAIN worker) /\ Len(threads) \in Nat /\ caller[c] \in CallRecord
      /\ caller[c].thread \in DOMAIN worker /\ caller \in [Callers -> CallRecord]
  BY DEF JobInv, JobTypeOK, CallsOK, AppendThread
<1>1. /\ caller[c].at = "append" /\ threads' = Append(threads, caller[c].thread)
      /\ UNCHANGED <<started, fifo, worker, status, stops, early>>
  BY DEF AppendThread, Listed
<1>2. /\ threads' \in Seq(DOMAIN worker) /\ Len(threads') = Len(threads) + 1
      /\ \A i \in 1 .. Len(threads) : threads'[i] = threads[i]
  BY <1>0, <1>1
<1>3. /\ caller' \in [Callers -> CallRecord]
      /\ caller'[c].at \in {"spawn", "idle", "put"}
      /\ caller'[c].at = "idle" => caller'[c] = Idle
      /\ caller'[c].at # "idle" => caller'[c].job = caller[c].job
      /\ caller'[c].at = "put" => caller[c].job \in Jobs
      /\ \A d \in Callers \ {c} : caller'[d] = caller[d]
  <2>1. CASE caller[c].left > 1
    <3>1. caller' = [caller EXCEPT ![c].at = "spawn", ![c].left = @ - 1]
      BY <2>1 DEF AppendThread
    <3> DEFINE n == caller[c].left - 1
    <3>2. n \in Nat /\ caller' = [caller EXCEPT ![c].at = "spawn", ![c].left = n]
      BY <1>0, <2>1, <3>1 DEF CallRecord
    <3> HIDE DEF n
    <3>3. caller' \in [Callers -> CallRecord]
      BY <1>0, <3>2, CallMoves, ZenonT(40)
    <3>4. /\ caller'[c].at = "spawn" /\ caller'[c].job = caller[c].job
          /\ \A d \in Callers \ {c} : caller'[d] = caller[d]
      BY <1>0, <3>1 DEF CallRecord
    <3> QED BY <3>3, <3>4
  <2>2. CASE ~(caller[c].left > 1) /\ caller[c].job = NoJob
    <3>1. caller' = [caller EXCEPT ![c] = Idle]
      BY <2>2 DEF AppendThread
    <3> QED BY <1>0, <3>1, IdleCall
  <2>3. CASE ~(caller[c].left > 1) /\ caller[c].job # NoJob
    <3>1. caller' = [caller EXCEPT ![c] = [@ EXCEPT !.at = "put", !.left = 0]]
      BY <2>3 DEF AppendThread
    <3>2. [caller[c] EXCEPT !.at = "put", !.left = 0] \in CallRecord
      BY <1>0 DEF CallRecord
    <3>3. caller[c].job \in Jobs
      BY <1>0, <2>3 DEF CallRecord
    <3> QED BY <1>0, <3>1, <3>2, <3>3 DEF CallRecord
  <2> QED BY <2>1, <2>2, <2>3
<1>4. JobTypeOK'
  <2>1. \A d \in Callers : /\ caller'[d].at \in {"idle", "start", "spawn", "append", "put", "stop", "join"}
                            /\ caller'[d].job \in Jobs \cup {NoJob}
    BY <1>3 DEF CallRecord
  <2> QED BY <1>1, <1>2, <2>1 DEF JobInv, JobTypeOK
<1>5. CallsOK'
  BY <1>1, <1>3, IdleCall DEF JobInv, CallsOK
<1>6. JoinedGone'
  <2>1. Len(threads) <= Len(threads') /\ Len(threads') \in Nat
    BY <1>0, <1>2
  <2> QED BY <1>1, <1>2, <1>3, <2>1, JoinedStays
<1> QED BY <1>1, <1>4, <1>5, <1>6, QueueUnseen DEF JobInv

\* A job is queued once, behind what is queued.
LEMMA PutSteps == ASSUME JobInv, NEW c \in Callers, Put(c) PROVE JobInv'
<1> DEFINE j == caller[c].job
<1>0. /\ fifo \in Seq(Jobs \cup {None}) /\ Len(fifo) \in Nat /\ DOMAIN fifo = 1 .. Len(fifo)
      /\ caller \in [Callers -> CallRecord] /\ status \in [Jobs -> {"new", "queued", "running", "done", "failed"}]
      /\ j \in Jobs /\ status[j] = "new" /\ j # None
      /\ \A d \in Callers : caller[d].job = j => d = c
  BY IdleCall DEF JobInv, JobTypeOK, CallsOK, Put
<1>1. /\ fifo' = Append(fifo, j) /\ status' = [status EXCEPT ![j] = "queued"]
      /\ early' \in {early, early \cup {j}} /\ (stops # 0 => early' = early)
      /\ caller' = [caller EXCEPT ![c] = Idle]
      /\ UNCHANGED <<started, threads, worker, stops>>
  BY DEF Put, Fed
<1> HIDE DEF j
<1>2. /\ fifo' \in Seq(Jobs \cup {None}) /\ Len(fifo') = Len(fifo) + 1 /\ DOMAIN fifo' = 1 .. Len(fifo) + 1
      /\ fifo'[Len(fifo) + 1] = j /\ \A i \in 1 .. Len(fifo) : fifo'[i] = fifo[i]
  BY <1>0, <1>1
<1>3. /\ caller' \in [Callers -> CallRecord]
      /\ caller'[c] = Idle /\ \A d \in Callers \ {c} : caller'[d] = caller[d]
  BY <1>0, <1>1, IdleCall
<1>4. /\ status' \in [Jobs -> {"new", "queued", "running", "done", "failed"}]
      /\ status'[j] = "queued" /\ \A k \in Jobs \ {j} : status'[k] = status[k]
  BY <1>0, <1>1
<1>5. \A i \in 1 .. Len(fifo) : fifo[i] # j
  BY <1>0 DEF JobInv, FifoOK
<1>6. JobTypeOK'
  <2>1. \A d \in Callers : /\ caller'[d].at \in {"idle", "start", "spawn", "append", "put", "stop", "join"}
                            /\ caller'[d].job \in Jobs \cup {NoJob}
    BY <1>3 DEF CallRecord
  <2> QED BY <1>0, <1>1, <1>2, <1>4, <2>1 DEF JobInv, JobTypeOK
<1>7. CallsOK'
  BY <1>0, <1>1, <1>3, <1>4, IdleCall DEF JobInv, CallsOK
<1>8. FifoOK'
  <2>1. \A i \in DOMAIN fifo' : fifo'[i] \in Jobs => status'[fifo'[i]] = "queued"
    BY <1>0, <1>2, <1>4, <1>5 DEF JobInv, FifoOK
  <2>2. \A i, k \in DOMAIN fifo' : fifo'[i] \in Jobs /\ fifo'[i] = fifo'[k] => i = k
    BY <1>0, <1>2, <1>5 DEF JobInv, FifoOK
  <2>3. ASSUME NEW k \in Jobs, status'[k] = "queued" PROVE \E i \in DOMAIN fifo' : fifo'[i] = k
    <3>1. CASE k = j
      BY <1>0, <1>2, <3>1
    <3>2. CASE k # j
      BY <1>0, <1>2, <1>4, <2>3, <3>2 DEF JobInv, FifoOK
    <3> QED BY <3>1, <3>2
  <2> QED BY <2>1, <2>2, <2>3 DEF FifoOK
<1>9. WorkersOK'
  BY <1>0, <1>1, <1>4 DEF JobInv, WorkersOK
<1>10. EarlyFirst'
  <2>1. \A k \in early' : status'[k] # "new"
    BY <1>0, <1>1, <1>4 DEF JobInv, EarlyFirst, JobTypeOK
  <2>2. stops' = 0 => \A i \in DOMAIN fifo' : fifo'[i] # None
    BY <1>0, <1>1, <1>2 DEF JobInv, EarlyFirst
  <2>3. j \notin early
    BY <1>0 DEF JobInv, EarlyFirst
  <2>4. ASSUME NEW i \in DOMAIN fifo', NEW k \in DOMAIN fifo', fifo'[i] = None, fifo'[k] \in early' PROVE k < i
    <3>1. i \in 1 .. Len(fifo) /\ fifo[i] = None /\ stops # 0 /\ early' = early
      BY <1>0, <1>1, <1>2, <2>4 DEF JobInv, EarlyFirst
    <3>2. k \in 1 .. Len(fifo) /\ fifo[k] \in early
      BY <1>0, <1>2, <2>3, <2>4, <3>1
    <3> QED BY <1>0, <3>1, <3>2 DEF JobInv, EarlyFirst
  <2>5. (\E w \in DOMAIN worker' : worker'[w] = "exited") =>
          stops' > 0 /\ \A i \in DOMAIN fifo' : fifo'[i] \notin early'
    <3> SUFFICES ASSUME \E w \in DOMAIN worker' : worker'[w] = "exited"
                 PROVE  stops' > 0 /\ \A i \in DOMAIN fifo' : fifo'[i] \notin early'
      OBVIOUS
    <3>1. stops > 0 /\ stops # 0 /\ \A i \in DOMAIN fifo : fifo[i] \notin early
      BY <1>1 DEF JobInv, EarlyFirst
    <3> QED BY <1>0, <1>1, <1>2, <2>3, <3>1
  <2> QED BY <2>1, <2>2, <2>4, <2>5 DEF EarlyFirst
<1>11. JoinedGone'
  <2>1. Len(threads) \in Nat
    BY DEF JobInv, JobTypeOK
  <2> QED BY <1>1, <1>3, <2>1, IdleCall, JoinedStays
<1> QED BY <1>6, <1>7, <1>8, <1>9, <1>10, <1>11 DEF JobInv

\* stop counts the threads it knows.
LEMMA StopSteps == ASSUME JobInv, NEW c \in Callers, StopBegins(c) PROVE JobInv'
<1>0. stops \in Nat /\ MaxStops \in Nat /\ Len(threads) \in Nat /\ caller \in [Callers -> CallRecord]
  BY JobAssumption DEF JobInv, JobTypeOK, CallsOK
<1>1. /\ caller[c] = Idle /\ stops < MaxStops /\ stops' = stops + 1
      /\ caller' = [caller EXCEPT ![c].at = "stop"]
      /\ UNCHANGED <<started, fifo, threads, worker, status, early>>
  BY DEF StopBegins
<1>2. caller' \in [Callers -> CallRecord]
  BY <1>0, <1>1, CallMoves
<1>3. caller'[c].at = "stop" /\ caller'[c].job = NoJob /\ \A d \in Callers \ {c} : caller'[d] = caller[d]
  BY <1>0, <1>1, IdleCall DEF CallRecord
<1>4. JobTypeOK'
  <2>1. \A d \in Callers : /\ caller'[d].at \in {"idle", "start", "spawn", "append", "put", "stop", "join"}
                            /\ caller'[d].job \in Jobs \cup {NoJob}
    BY <1>2 DEF CallRecord
  <2> QED BY <1>0, <1>1, <2>1 DEF JobInv, JobTypeOK
<1>5. CallsOK'
  BY <1>0, <1>1, <1>2, <1>3, IdleCall DEF JobInv, CallsOK
<1>6. FifoOK' /\ WorkersOK' /\ EarlyFirst'
  BY <1>0, <1>1 DEF JobInv, FifoOK, WorkersOK, EarlyFirst
<1>7. JoinedGone'
  BY <1>0, <1>1, <1>3, JoinedStays
<1> QED BY <1>4, <1>5, <1>6, <1>7 DEF JobInv

\* stop queues a sentinel for each of them.
LEMMA SentinelSteps == ASSUME JobInv, NEW c \in Callers, PutSentinels(c) PROVE JobInv'
<1>0. /\ fifo \in Seq(Jobs \cup {None}) /\ Len(fifo) \in Nat /\ DOMAIN fifo = 1 .. Len(fifo)
      /\ caller \in [Callers -> CallRecord] /\ caller[c] \in CallRecord /\ Len(threads) \in Nat
      /\ caller[c].at = "stop" /\ caller[c].job = NoJob /\ stops > 0 /\ stops \in Nat
      /\ UNCHANGED <<started, threads, worker, status, stops, early>>
  BY DEF JobInv, JobTypeOK, CallsOK, PutSentinels
<1>1. CASE caller[c].left < Len(threads)
  <2>1. fifo' = Append(fifo, None) /\ caller' = [caller EXCEPT ![c].left = @ + 1]
    BY <1>1 DEF PutSentinels, Fed
  <2>2. /\ fifo' \in Seq(Jobs \cup {None}) /\ Len(fifo') = Len(fifo) + 1 /\ DOMAIN fifo' = 1 .. Len(fifo) + 1
        /\ fifo'[Len(fifo) + 1] = None /\ \A i \in 1 .. Len(fifo) : fifo'[i] = fifo[i]
    BY <1>0, <2>1
  <2>3. caller' \in [Callers -> CallRecord]
    <3>1. caller[c].left + 1 \in Nat
      BY <1>0 DEF CallRecord
    <3> QED BY <1>0, <2>1, <3>1, CallMoves
  <2>4. caller'[c].at = "stop" /\ caller'[c].job = NoJob /\ \A d \in Callers \ {c} : caller'[d] = caller[d]
    BY <1>0, <2>1 DEF CallRecord
  <2>5. JobTypeOK'
    <3>1. \A d \in Callers : /\ caller'[d].at \in {"idle", "start", "spawn", "append", "put", "stop", "join"}
                              /\ caller'[d].job \in Jobs \cup {NoJob}
      BY <2>3 DEF CallRecord
    <3> QED BY <1>0, <2>2, <3>1 DEF JobInv, JobTypeOK
  <2>6. CallsOK'
    BY <1>0, <2>3, <2>4, IdleCall DEF JobInv, CallsOK
  <2>7. FifoOK'
    BY <1>0, <2>2, IdleCall DEF JobInv, FifoOK
  <2>8. WorkersOK'
    BY <1>0 DEF JobInv, WorkersOK
  <2>9. EarlyFirst'
    <3>1. None \notin early
      BY IdleCall DEF JobInv, JobTypeOK
    <3>2. ASSUME NEW i \in DOMAIN fifo', NEW k \in DOMAIN fifo', fifo'[i] = None, fifo'[k] \in early' PROVE k < i
      <4>1. k \in 1 .. Len(fifo) /\ fifo[k] \in early
        BY <1>0, <2>2, <3>1, <3>2
      <4>2. CASE i = Len(fifo) + 1
        BY <1>0, <4>1, <4>2
      <4>3. CASE i # Len(fifo) + 1
        <5>1. i \in 1 .. Len(fifo) /\ fifo[i] = None
          BY <1>0, <2>2, <3>2, <4>3
        <5> QED BY <1>0, <4>1, <5>1 DEF JobInv, EarlyFirst
      <4> QED BY <4>2, <4>3
    <3>3. (\E w \in DOMAIN worker : worker[w] = "exited") => \A i \in DOMAIN fifo' : fifo'[i] \notin early
      BY <1>0, <2>2, <3>1 DEF JobInv, EarlyFirst
    <3> QED BY <1>0, <3>2, <3>3 DEF JobInv, EarlyFirst
  <2>10. JoinedGone'
    BY <1>0, <2>4, JoinedStays
  <2> QED BY <2>5, <2>6, <2>7, <2>8, <2>9, <2>10 DEF JobInv
<1>2. CASE ~(caller[c].left < Len(threads))
  <2>1. caller' = [caller EXCEPT ![c].at = "join", ![c].left = 0] /\ fifo' = fifo
    BY <1>2 DEF PutSentinels
  <2>2. caller' \in [Callers -> CallRecord]
    BY <1>0, <2>1, CallMoves
  <2>3. /\ caller'[c].at = "join" /\ caller'[c].job = NoJob /\ caller'[c].left = 0
        /\ \A d \in Callers \ {c} : caller'[d] = caller[d]
    BY <1>0, <2>1 DEF CallRecord
  <2>4. JobTypeOK'
    BY <1>0, <2>1, <2>2, CallTypes DEF JobInv, JobTypeOK
  <2>5. CallsOK'
    BY <1>0, <2>2, <2>3, IdleCall DEF JobInv, CallsOK
  <2>6. JoinedGone'
    BY <1>0, <2>3 DEF JobInv, JoinedGone, Gone
  <2> QED BY <1>0, <2>1, <2>4, <2>5, <2>6, QueueUnseen DEF JobInv
<1> QED BY <1>1, <1>2

\* stop waits for the threads it knows.
LEMMA JoinSteps == ASSUME JobInv, NEW c \in Callers, Join(c) \/ StopReturns(c) PROVE JobInv'
<1>0. /\ caller \in [Callers -> CallRecord] /\ caller[c] \in CallRecord /\ Len(threads) \in Nat
      /\ caller[c].at = "join" /\ caller[c].job = NoJob /\ stops > 0
      /\ UNCHANGED <<started, fifo, threads, worker, status, stops, early>>
  BY DEF JobInv, JobTypeOK, CallsOK, Join, StopReturns
<1>1. CASE Join(c)
  <2> DEFINE b == caller[c].late \/ ~Gone(threads[caller[c].left + 1])
  <2>1. caller[c].left < Len(threads) /\ caller' = [caller EXCEPT ![c].left = caller[c].left + 1, ![c].late = b]
    BY <1>1 DEF Join
  <2>2. b \in BOOLEAN
    BY Zenon
  <2>3. ~b => ~caller[c].late /\ Gone(threads[caller[c].left + 1])
    OBVIOUS
  <2> HIDE DEF b
  <2>4. caller[c].left \in Nat /\ caller[c].left + 1 \in Nat
    BY <1>0 DEF CallRecord
  <2>5. caller' \in [Callers -> CallRecord]
    BY <1>0, <2>1, <2>2, <2>4, CallMoves
  <2>6. /\ caller'[c].at = "join" /\ caller'[c].job = NoJob /\ caller'[c].left = caller[c].left + 1 /\ caller'[c].late = b
        /\ \A d \in Callers \ {c} : caller'[d] = caller[d]
    BY <1>0, <2>1 DEF CallRecord
  <2>7. JobTypeOK'
    BY <1>0, <2>5, CallTypes DEF JobInv, JobTypeOK
  <2>8. CallsOK'
    BY <1>0, <2>5, <2>6, IdleCall DEF JobInv, CallsOK
  <2>9. JoinedGone'
    <3>1. ~b => \A i \in 1 .. caller[c].left + 1 : Gone(threads[i])
      BY <1>0, <2>3, <2>4 DEF JobInv, JoinedGone
    <3>2. caller[c].left + 1 <= Len(threads)
      BY <1>0, <2>1, <2>4
    <3> QED BY <1>0, <2>6, <3>1, <3>2 DEF JobInv, JoinedGone, Gone
  <2> QED BY <1>0, <2>7, <2>8, <2>9, QueueUnseen DEF JobInv
<1>2. CASE StopReturns(c)
  <2>1. caller' = [caller EXCEPT ![c] = Idle]
    BY <1>2 DEF StopReturns
  <2>2. caller' \in [Callers -> CallRecord] /\ caller'[c] = Idle /\ \A d \in Callers \ {c} : caller'[d] = caller[d]
    BY <1>0, <2>1, IdleCall
  <2>3. JobTypeOK'
    BY <1>0, <2>2, CallTypes DEF JobInv, JobTypeOK
  <2>4. CallsOK'
    BY <1>0, <2>2, IdleCall DEF JobInv, CallsOK
  <2>5. JoinedGone'
    BY <1>0, <2>2, IdleCall, JoinedStays
  <2> QED BY <1>0, <2>3, <2>4, <2>5, QueueUnseen DEF JobInv
<1> QED BY <1>1, <1>2

\* What a step of a worker leaves of the calls, whose jobs are all new.
LEMMA CallsStay ==
  ASSUME JobInv, UNCHANGED <<started, threads, caller, stops, early>>,
         DOMAIN worker' = DOMAIN worker,
         worker' \in Seq({"idle", "exited", "died"} \cup Jobs), fifo' \in Seq(Jobs \cup {None}),
         status' \in [Jobs -> {"new", "queued", "running", "done", "failed"}],
         \A j \in Jobs : status[j] = "new" => status'[j] = "new",
         \A w \in DOMAIN worker : worker[w] \in {"exited", "died"} => worker'[w] = worker[w]
  PROVE  JobTypeOK' /\ CallsOK' /\ JoinedGone'
<1>1. JobTypeOK'
  BY DEF JobInv, JobTypeOK
<1>2. CallsOK'
  BY DEF JobInv, CallsOK
<1>3. threads \in Seq(DOMAIN worker) /\ Len(threads) \in Nat /\ \A i \in 1 .. Len(threads) : threads[i] \in DOMAIN worker
  BY DEF JobInv, JobTypeOK
<1>4. JoinedGone'
  BY <1>3, JoinedStays
<1> QED BY <1>1, <1>2, <1>4

\* A worker takes the first entry of the queue, which no other worker gets.
LEMMA TakeSteps == ASSUME JobInv, NEW w \in DOMAIN worker, Take(w) PROVE JobInv'
<1>0. /\ fifo \in Seq(Jobs \cup {None}) /\ fifo # <<>> /\ Len(fifo) \in Nat /\ Len(fifo) > 0
      /\ DOMAIN fifo = 1 .. Len(fifo) /\ Head(fifo) = fifo[1] /\ Head(fifo) \in Jobs \cup {None}
      /\ worker \in Seq({"idle", "exited", "died"} \cup Jobs) /\ DOMAIN worker = 1 .. Len(worker) /\ Len(worker) \in Nat
      /\ status \in [Jobs -> {"new", "queued", "running", "done", "failed"}]
      /\ worker[w] = "idle" /\ UNCHANGED <<started, threads, caller, stops, early>>
  BY DEF JobInv, JobTypeOK, Take
<1>1. /\ fifo' = Tail(fifo) /\ fifo' \in Seq(Jobs \cup {None}) /\ DOMAIN fifo' = 1 .. Len(fifo) - 1
      /\ \A i \in 1 .. Len(fifo) - 1 : fifo'[i] = fifo[i + 1]
  BY <1>0, HeadTailProperties DEF Take, Taken
<1>2. \A i \in DOMAIN fifo' : i + 1 \in DOMAIN fifo /\ fifo'[i] = fifo[i + 1] /\ i + 1 # 1
  BY <1>0, <1>1
<1>3. \A k \in DOMAIN fifo : k # 1 => k - 1 \in DOMAIN fifo' /\ fifo'[k - 1] = fifo[k]
  BY <1>0, <1>1
<1>4. 1 \in DOMAIN fifo
  BY <1>0
<1>5. /\ stops' = 0 => \A i \in DOMAIN fifo' : fifo'[i] # None
      /\ \A i, k \in DOMAIN fifo' : fifo'[i] = None /\ fifo'[k] \in early' => k < i
  <2>1. stops' = 0 => \A i \in DOMAIN fifo' : fifo'[i] # None
    BY <1>0, <1>2 DEF JobInv, EarlyFirst
  <2>2. ASSUME NEW i \in DOMAIN fifo', NEW k \in DOMAIN fifo', fifo'[i] = None, fifo'[k] \in early' PROVE k < i
    <3>1. i + 1 \in DOMAIN fifo /\ k + 1 \in DOMAIN fifo /\ fifo[i + 1] = None /\ fifo[k + 1] \in early
      BY <1>0, <1>2, <2>2
    <3>2. k + 1 < i + 1
      BY <3>1 DEF JobInv, EarlyFirst
    <3> QED BY <1>0, <1>1, <3>2
  <2> QED BY <2>1, <2>2
<1>6. CASE Head(fifo) = None
  <2>1. worker' = [worker EXCEPT ![w] = "exited"] /\ status' = status
    BY <1>6 DEF Take
  <2>2. /\ worker' \in Seq({"idle", "exited", "died"} \cup Jobs) /\ DOMAIN worker' = DOMAIN worker
        /\ worker'[w] = "exited" /\ \A v \in DOMAIN worker \ {w} : worker'[v] = worker[v]
    BY <1>0, <2>1
  <2>3. JobTypeOK' /\ CallsOK' /\ JoinedGone'
    BY <1>0, <1>1, <2>1, <2>2, CallsStay
  <2>4. FifoOK'
    <3>1. ASSUME NEW j \in Jobs, status[j] = "queued" PROVE \E i \in DOMAIN fifo' : fifo'[i] = j
      <4>1. PICK k \in DOMAIN fifo : fifo[k] = j
        BY <3>1 DEF JobInv, FifoOK
      <4> QED BY <1>0, <1>3, <1>6, <4>1, IdleCall
    <3>2. \A i, k \in DOMAIN fifo' : fifo'[i] \in Jobs /\ fifo'[i] = fifo'[k] => i = k
      <4> SUFFICES ASSUME NEW i \in DOMAIN fifo', NEW k \in DOMAIN fifo', fifo'[i] \in Jobs, fifo'[i] = fifo'[k]
                   PROVE  i = k
        OBVIOUS
      <4>1. i + 1 = k + 1
        BY <1>2 DEF JobInv, FifoOK
      <4> QED BY <1>0, <1>1, <4>1
    <3> QED BY <1>2, <2>1, <3>1, <3>2 DEF JobInv, FifoOK
  <2>5. WorkersOK'
    BY <1>0, <2>1, <2>2, IdleCall DEF JobInv, WorkersOK
  <2>6. EarlyFirst'
    <3>1. stops' > 0
      BY <1>0, <1>4, <1>6 DEF JobInv, EarlyFirst, JobTypeOK
    <3>2. ASSUME NEW i \in DOMAIN fifo', fifo'[i] \in early' PROVE FALSE
      <4>1. fifo[i + 1] \in early /\ i + 1 \in DOMAIN fifo /\ fifo[1] = None
        BY <1>0, <1>2, <1>6, <3>2
      <4>2. i + 1 < 1
        BY <1>4, <4>1 DEF JobInv, EarlyFirst
      <4> QED BY <1>0, <1>1, <4>2
    <3>3. \A j \in early' : status'[j] # "new"
      BY <1>0, <2>1 DEF JobInv, EarlyFirst
    <3> QED BY <1>5, <3>1, <3>2, <3>3 DEF EarlyFirst
  <2> QED BY <2>3, <2>4, <2>5, <2>6 DEF JobInv
<1>7. CASE Head(fifo) # None
  <2> DEFINE j == Head(fifo)
  <2>1. worker' = [worker EXCEPT ![w] = j] /\ status' = [status EXCEPT ![j] = "running"]
    BY <1>7 DEF Take
  <2>2. j \in Jobs /\ j = fifo[1] /\ status[j] = "queued"
    BY <1>0, <1>4, <1>7 DEF JobInv, FifoOK
  <2> HIDE DEF j
  <2>3. /\ worker' \in Seq({"idle", "exited", "died"} \cup Jobs) /\ DOMAIN worker' = DOMAIN worker
        /\ worker'[w] = j /\ \A v \in DOMAIN worker \ {w} : worker'[v] = worker[v]
    BY <1>0, <2>1, <2>2
  <2>4. /\ status' \in [Jobs -> {"new", "queued", "running", "done", "failed"}]
        /\ status'[j] = "running" /\ \A k \in Jobs \ {j} : status'[k] = status[k]
    BY <1>0, <2>1, <2>2
  <2>5. JobTypeOK' /\ CallsOK' /\ JoinedGone'
    BY <1>0, <1>1, <2>2, <2>3, <2>4, CallsStay
  <2>6. \A i \in DOMAIN fifo' : fifo'[i] # j
    BY <1>2, <1>4, <2>2 DEF JobInv, FifoOK
  <2>7. FifoOK'
    <3>1. ASSUME NEW k \in Jobs, status'[k] = "queued" PROVE \E i \in DOMAIN fifo' : fifo'[i] = k
      <4>1. k # j /\ status[k] = "queued"
        BY <2>4, <3>1
      <4>2. PICK n \in DOMAIN fifo : fifo[n] = k
        BY <4>1 DEF JobInv, FifoOK
      <4> QED BY <1>0, <1>3, <2>2, <4>1, <4>2
    <3>2. \A i, k \in DOMAIN fifo' : fifo'[i] \in Jobs /\ fifo'[i] = fifo'[k] => i = k
      <4> SUFFICES ASSUME NEW i \in DOMAIN fifo', NEW k \in DOMAIN fifo', fifo'[i] \in Jobs, fifo'[i] = fifo'[k]
                   PROVE  i = k
        OBVIOUS
      <4>1. i + 1 = k + 1
        BY <1>2 DEF JobInv, FifoOK
      <4> QED BY <1>0, <1>1, <4>1
    <3>3. \A i \in DOMAIN fifo' : fifo'[i] \in Jobs => status'[fifo'[i]] = "queued"
      BY <1>2, <2>4, <2>6 DEF JobInv, FifoOK
    <3> QED BY <3>1, <3>2, <3>3 DEF FifoOK
  <2>8. WorkersOK'
    <3>1. \A v \in DOMAIN worker : worker[v] # j
      BY <2>2 DEF JobInv, WorkersOK
    <3>2. \A v \in DOMAIN worker' : worker'[v] \in Jobs => status'[worker'[v]] = "running"
      BY <2>2, <2>3, <2>4, <3>1 DEF JobInv, WorkersOK
    <3>3. \A u, v \in DOMAIN worker' : worker'[u] \in Jobs /\ worker'[u] = worker'[v] => u = v
      BY <2>3, <3>1 DEF JobInv, WorkersOK
    <3>4. ASSUME NEW k \in Jobs, status'[k] = "running"
          PROVE  \E v \in DOMAIN worker' : worker'[v] = k \/ worker'[v] = "died"
      <4>1. CASE k = j
        BY <2>3, <4>1
      <4>2. CASE k # j
        BY <1>0, <2>3, <2>4, <3>4, <4>2, IdleCall DEF JobInv, WorkersOK
      <4> QED BY <4>1, <4>2
    <3> QED BY <3>2, <3>3, <3>4 DEF WorkersOK
  <2>9. EarlyFirst'
    <3>1. \A k \in early' : status'[k] # "new"
      BY <1>0, <2>4 DEF JobInv, EarlyFirst, JobTypeOK
    <3>2. (\E v \in DOMAIN worker' : worker'[v] = "exited") => \E v \in DOMAIN worker : worker[v] = "exited"
      BY <2>2, <2>3, IdleCall
    <3>3. (\E v \in DOMAIN worker' : worker'[v] = "exited") => stops' > 0 /\ \A i \in DOMAIN fifo' : fifo'[i] \notin early'
      BY <1>0, <1>2, <3>2 DEF JobInv, EarlyFirst
    <3> QED BY <1>5, <3>1, <3>3 DEF EarlyFirst
  <2> QED BY <2>5, <2>7, <2>8, <2>9 DEF JobInv
<1> QED BY <1>6, <1>7

\* A job ends in the thread that took it.
LEMMA FinishSteps == ASSUME JobInv, NEW w \in DOMAIN worker, Finish(w) \/ Leave(w) PROVE JobInv'
<1>0. /\ worker \in Seq({"idle", "exited", "died"} \cup Jobs) /\ DOMAIN worker = 1 .. Len(worker) /\ Len(worker) \in Nat
      /\ status \in [Jobs -> {"new", "queued", "running", "done", "failed"}] /\ fifo \in Seq(Jobs \cup {None})
      /\ worker[w] \in Jobs /\ status[worker[w]] = "running"
      /\ UNCHANGED <<started, fifo, threads, caller, stops, early>>
  BY JobAssumption DEF JobInv, JobTypeOK, WorkersOK, Finish, Leave
<1>1. CASE Finish(w)
  <2>1. PICK outcome \in {"done", "failed"} :
          status' = [status EXCEPT ![worker[w]] = outcome] /\ worker' = [worker EXCEPT ![w] = "idle"]
    BY <1>1 DEF Finish, After
  <2>2. /\ worker' \in Seq({"idle", "exited", "died"} \cup Jobs) /\ DOMAIN worker' = DOMAIN worker
        /\ worker'[w] = "idle" /\ \A v \in DOMAIN worker \ {w} : worker'[v] = worker[v]
    BY <1>0, <2>1
  <2>3. /\ status' \in [Jobs -> {"new", "queued", "running", "done", "failed"}]
        /\ status'[worker[w]] = outcome /\ \A k \in Jobs \ {worker[w]} : status'[k] = status[k]
    BY <1>0, <2>1
  <2>4. JobTypeOK' /\ CallsOK' /\ JoinedGone'
    BY <1>0, <2>2, <2>3, IdleCall, CallsStay
  <2>5. FifoOK'
    BY <1>0, <2>1, <2>3 DEF JobInv, FifoOK
  <2>6. WorkersOK'
    BY <1>0, <2>1, <2>2, <2>3, IdleCall DEF JobInv, WorkersOK
  <2>7. EarlyFirst'
    BY <1>0, <2>1, <2>2, <2>3, IdleCall DEF JobInv, EarlyFirst, JobTypeOK
  <2> QED BY <2>4, <2>5, <2>6, <2>7 DEF JobInv
<1>2. CASE Leave(w)
  <2>1. status' = status /\ worker' = [worker EXCEPT ![w] = "died"]
    BY <1>2 DEF Leave
  <2>2. /\ worker' \in Seq({"idle", "exited", "died"} \cup Jobs) /\ DOMAIN worker' = DOMAIN worker
        /\ worker'[w] = "died" /\ \A v \in DOMAIN worker \ {w} : worker'[v] = worker[v]
    BY <1>0, <2>1
  <2>3. JobTypeOK' /\ CallsOK' /\ JoinedGone'
    BY <1>0, <2>1, <2>2, IdleCall, CallsStay
  <2>4. FifoOK'
    BY <1>0, <2>1 DEF JobInv, FifoOK
  <2>5. WorkersOK'
    BY <1>0, <2>1, <2>2, IdleCall DEF JobInv, WorkersOK
  <2>6. EarlyFirst'
    BY <1>0, <2>1, <2>2, IdleCall DEF JobInv, EarlyFirst
  <2> QED BY <2>3, <2>4, <2>5, <2>6 DEF JobInv
<1> QED BY <1>1, <1>2

\* No step of a caller or worker breaks the invariant.
LEMMA JobInvNext == JobInv /\ [JobNext]_jobVars => JobInv'
<1>1. ASSUME JobInv, UNCHANGED jobVars PROVE JobInv'
  <2>1. FifoOK' /\ WorkersOK' /\ EarlyFirst'
    BY <1>1, QueueUnseen DEF jobVars
  <2>2. JobTypeOK'
    BY <1>1, CallTypes DEF jobVars, JobInv, JobTypeOK, CallsOK
  <2>3. CallsOK' /\ JoinedGone'
    BY <1>1 DEF jobVars, JobInv, CallsOK, JoinedGone, Gone
  <2> QED BY <2>1, <2>2, <2>3 DEF JobInv
<1> QED BY <1>1, CallBegins, StartSteps, SpawnSteps, AppendSteps, PutSteps, StopSteps, SentinelSteps, JoinSteps,
           TakeSteps, FinishSteps DEF JobNext, CallGoesOn, WorkerRuns

\* Once started, with all workers gone, no call makes a new one.
LEMMA NothingRevives ==
  ASSUME JobInv, [JobNext]_jobVars, started, \A w \in DOMAIN worker : Gone(w),
         \A c \in Callers : caller[c].at \notin {"start", "spawn", "append"},
         NEW j \in Jobs, status[j] = "queued"
  PROVE  status'[j] = "queued" /\ worker' = worker
<1>1. CASE \E c \in Callers : SetStarted(c) \/ Spawn(c) \/ AppendThread(c)
  BY <1>1 DEF SetStarted, Spawn, AppendThread
<1>2. ASSUME NEW c \in Callers, Put(c) PROVE status'[j] = "queued" /\ worker' = worker
  <2>1. caller[c].job \in Jobs /\ status[caller[c].job] = "new"
    BY <1>2 DEF JobInv, CallsOK, Put
  <2> QED BY <1>2, <2>1 DEF Put, JobInv, JobTypeOK
<1>3. CASE \E c \in Callers : PutSentinels(c) \/ Join(c) \/ StopReturns(c) \/ StopBegins(c)
  BY <1>3 DEF PutSentinels, Join, StopReturns, StopBegins
<1>4. CASE \E c \in Callers, k \in Jobs \cup {NoJob} : Call(c, k)
  BY <1>4 DEF Call
<1>5. CASE \E w \in DOMAIN worker : WorkerRuns(w)
  BY <1>5, IdleCall, JobAssumption DEF WorkerRuns, Take, Finish, Leave, Gone
<1>6. CASE UNCHANGED jobVars
  BY <1>6 DEF jobVars
<1> QED BY <1>1, <1>2, <1>3, <1>4, <1>5, <1>6 DEF JobNext, CallGoesOn

\* The queue keeps its promises without any fairness.
LEMMA JobsStayKept == JobInit /\ [][JobNext]_jobVars => JobsKept
<1>1. JobInv => JobTypeOK /\ TakenOnce /\ StopDrains
  BY JobInvTakenOnce, JobInvStopDrains DEF JobInv
<1>2. JobInv /\ [JobNext]_jobVars =>
        [/\ started /\ \A w \in DOMAIN worker : Gone(w)
         /\ \A c \in Callers : caller[c].at \notin {"start", "spawn", "append"}
         => \A j \in Jobs : status[j] = "queued" => status'[j] = "queued" /\ worker' = worker]_jobVars
  BY NothingRevives
<1> QED BY <1>1, <1>2, JobInvInit, JobInvNext, PTL DEF JobsKept, NoRevival

\* A job is taken once, a stop that finds all its threads drains the queue, and a
\* queue whose threads are gone is not revived.
THEOREM JobsAreKept == JobSpec => JobsKept
  BY JobsStayKept, PTL DEF JobSpec
-----------------------------------------------------------------------------
(***************************************************************************)
(* The rate limiter (security.py).  Without overlap, the hits listed are the*)
(* hits let through but for those that have left the window.               *)
(***************************************************************************)

LimiterHit == [time : 0 .. MaxTime, number : Nat]
LimiterCall == [at : {"idle", "timed", "read"}, now : 0 .. MaxTime, hits : SUBSET LimiterHit]

LimiterTyped ==
  /\ clock \in 0 .. MaxTime
  /\ call \in [Requests -> LimiterCall]
  /\ hits \subseteq admitted /\ admitted \subseteq LimiterHit /\ IsFiniteSet(admitted)
  /\ \A x \in admitted : x.number <= Cardinality(admitted)

\* What a call has read was let through within its window.
ReadAdmitted ==
  \A r \in Requests :
    /\ call[r].now <= clock
    /\ call[r].at = "read" => call[r].hits \subseteq Recent(admitted, call[r].now)

\* Without overlapping writes: a call that has taken its time has seen all the
\* hits let through so far pass, what is no longer listed has left its window,
\* and what it has read is still what is there.
Undisturbed ==
  /\ \A x \in admitted : x.time <= clock
  /\ \A x \in admitted \ hits : x.time + Window < clock
  /\ \A r \in Requests : call[r].at # "idle" =>
       /\ \A x \in admitted : x.time <= call[r].now
       /\ \A x \in admitted \ hits : x.time + Window < call[r].now
  /\ \A r \in Requests : call[r].at = "read" => call[r].hits = Recent(hits, call[r].now)

LimiterInv == LimiterTyped /\ ReadAdmitted /\ (~overlapped => Undisturbed) /\ WithinLimit

\* No call is admitted or under way at first.
LEMMA LimiterInvInit == LimiterInit => LimiterInv
<1> SUFFICES ASSUME LimiterInit PROVE LimiterInv
  OBVIOUS
<1>1. NoCall \in LimiterCall /\ NoCall.at = "idle" /\ NoCall.now = 0
  BY LimiterAssumption DEF NoCall, LimiterCall
<1>2. LimiterTyped
  <2>1. IsFiniteSet(admitted)
    BY FS_EmptySet DEF LimiterInit
  <2> QED BY <1>1, <2>1, LimiterAssumption DEF LimiterInit, LimiterTyped
<1>3. ReadAdmitted /\ Undisturbed
  BY <1>1, LimiterAssumption DEF LimiterInit, ReadAdmitted, Undisturbed
<1>4. WithinLimit
  <2> SUFFICES ASSUME NEW t \in 0 .. MaxTime PROVE Between(admitted, t, t + Window) <= Limit
    BY DEF WithinLimit
  <2>1. {x \in admitted : t <= x.time /\ x.time <= t + Window} = {}
    BY DEF LimiterInit
  <2>2. Cardinality({}) = 0
    BY FS_EmptySet
  <2>3. Between(admitted, t, t + Window) = 0
    BY <2>1, <2>2 DEF Between
  <2> QED BY <2>3, LimiterAssumption
<1> QED BY <1>2, <1>3, <1>4 DEF LimiterInv

\* A call that moves on keeps its type.
LEMMA LimiterMoves ==
  ASSUME LimiterTyped, NEW r \in Requests
  PROVE  /\ [call EXCEPT ![r].at = "timed", ![r].now = clock] \in [Requests -> LimiterCall]
         /\ [call EXCEPT ![r].at = "read", ![r].hits = Recent(hits, call[r].now)] \in [Requests -> LimiterCall]
         /\ [call EXCEPT ![r] = NoCall] \in [Requests -> LimiterCall]
<1>1. Recent(hits, call[r].now) \subseteq LimiterHit
  BY DEF LimiterTyped, Recent
<1>2. NoCall \in LimiterCall
  BY LimiterAssumption DEF NoCall, LimiterCall
<1> QED BY <1>1, <1>2 DEF LimiterTyped, LimiterCall

\* A new hit makes one more.
LEMMA HitIsNew ==
  ASSUME LimiterTyped, NEW r \in Requests
  PROVE  /\ Hit(r) \in LimiterHit /\ Hit(r) \notin admitted /\ Hit(r).time = call[r].now
         /\ Hit(r).number = Cardinality(admitted) + 1
         /\ IsFiniteSet(admitted \cup {Hit(r)})
         /\ Cardinality(admitted) \in Nat
         /\ Cardinality(admitted \cup {Hit(r)}) = Cardinality(admitted) + 1
<1>1. Cardinality(admitted) \in Nat
  BY FS_CardinalityType DEF LimiterTyped
<1>2. call[r].now \in 0 .. MaxTime
  BY DEF LimiterTyped, LimiterCall
<1>3. Hit(r) \in LimiterHit /\ Hit(r).time = call[r].now /\ Hit(r).number = Cardinality(admitted) + 1
  BY <1>1, <1>2 DEF Hit, LimiterHit
<1>4. \A x \in admitted : x.number \in Nat /\ x.number <= Cardinality(admitted)
  BY DEF LimiterTyped, LimiterHit
<1>5. Hit(r) \notin admitted
  BY <1>1, <1>3, <1>4
<1>6. /\ IsFiniteSet(admitted \cup {Hit(r)})
      /\ Cardinality(admitted \cup {Hit(r)}) = Cardinality(admitted) + 1
  BY <1>5, FS_AddElement DEF LimiterTyped
<1> QED BY <1>1, <1>3, <1>5, <1>6

\* What a call lets through keeps the windows within the limit.
LEMMA HitWithinLimit ==
  ASSUME LimiterTyped, ReadAdmitted, Undisturbed, NEW r \in Requests, call[r].at = "read",
         Within(call[r].hits),
         NEW t \in 0 .. MaxTime, Between(admitted, t, t + Window) <= Limit
  PROVE  Between(admitted \cup {Hit(r)}, t, t + Window) <= Limit
<1> DEFINE In(h) == {x \in h : t <= x.time /\ x.time <= t + Window}
<1>1. call[r].now \in 0 .. MaxTime /\ call[r].hits = Recent(hits, call[r].now)
  BY DEF LimiterTyped, LimiterCall, Undisturbed
<1>2. Hit(r).time = call[r].now /\ Hit(r) \notin admitted
  BY HitIsNew
<1>3. CASE t <= call[r].now /\ call[r].now <= t + Window
  <2>1. In(admitted) \subseteq call[r].hits
    <3> SUFFICES ASSUME NEW x \in admitted, t <= x.time PROVE x \in call[r].hits
      OBVIOUS
    <3>1. x.time \in Int /\ x.time <= call[r].now
      BY DEF LimiterTyped, LimiterHit, Undisturbed
    <3>2. x.time >= call[r].now - Window
      BY <1>1, <1>3, <3>1, LimiterAssumption
    <3>3. x \in hits
      BY <1>1, <3>1, <3>2, LimiterAssumption DEF Undisturbed
    <3> QED BY <1>1, <3>2, <3>3 DEF Recent
  <2>2. call[r].hits \subseteq admitted
    BY DEF ReadAdmitted, Recent
  <2>3. IsFiniteSet(call[r].hits)
    BY <2>2, FS_Subset DEF LimiterTyped
  <2>4. IsFiniteSet(In(admitted)) /\ Cardinality(In(admitted)) <= Cardinality(call[r].hits)
    BY <2>1, <2>3, FS_Subset
  <2>5. In(admitted \cup {Hit(r)}) = In(admitted) \cup {Hit(r)} /\ Hit(r) \notin In(admitted)
    BY <1>2, <1>3
  <2>6. Cardinality(In(admitted \cup {Hit(r)})) = Cardinality(In(admitted)) + 1
    BY <2>4, <2>5, FS_AddElement
  <2>7. Cardinality(In(admitted)) \in Nat /\ Cardinality(call[r].hits) \in Nat
    BY <2>3, <2>4, FS_CardinalityType
  <2>8. Cardinality(call[r].hits) < Limit
    BY DEF Within
  <2>9. Cardinality(In(admitted \cup {Hit(r)})) <= Limit
    BY <2>4, <2>6, <2>7, <2>8, LimiterAssumption
  <2> QED BY <2>9 DEF Between
<1>4. CASE ~(t <= call[r].now /\ call[r].now <= t + Window)
  <2>1. In(admitted \cup {Hit(r)}) = In(admitted)
    BY <1>2, <1>4
  <2> QED BY <2>1 DEF Between
<1> QED BY <1>3, <1>4

\* What a call writes back is what it read, less what is old, with its own hit.
LEMMA WriteKeeps ==
  ASSUME LimiterInv, NEW r \in Requests, WriteHits(r)
  PROVE  LimiterInv'
<1> USE DEF LimiterInv
<1>1. /\ call' = [call EXCEPT ![r] = NoCall] /\ clock' = clock
      /\ call[r].at = "read" /\ call'[r] = NoCall
      /\ \A q \in Requests \ {r} : call'[q] = call[q]
      /\ NoCall.at = "idle" /\ NoCall.now = 0
  BY DEF WriteHits, LimiterTyped, NoCall
<1>2. call' \in [Requests -> LimiterCall] /\ clock' \in 0 .. MaxTime
  BY <1>1, LimiterMoves DEF LimiterTyped
<1>3. /\ call[r].hits \subseteq admitted /\ call[r].now \in 0 .. MaxTime /\ call[r].now <= clock
      /\ \A x \in call[r].hits : x.time >= call[r].now - Window
  BY <1>1 DEF ReadAdmitted, Recent, LimiterTyped, LimiterCall
<1>4. /\ Hit(r) \in LimiterHit /\ Hit(r) \notin admitted /\ Hit(r).time = call[r].now
      /\ Hit(r).number = Cardinality(admitted) + 1
      /\ IsFiniteSet(admitted \cup {Hit(r)})
      /\ Cardinality(admitted) \in Nat
      /\ Cardinality(admitted \cup {Hit(r)}) = Cardinality(admitted) + 1
  BY HitIsNew
<1>5. \/ Within(call[r].hits) /\ hits' = call[r].hits \cup {Hit(r)} /\ admitted' = admitted \cup {Hit(r)}
      \/ ~Within(call[r].hits) /\ hits' = call[r].hits /\ admitted' = admitted
  BY DEF WriteHits, Kept
<1>6. LimiterTyped'
  <2>1. hits' \subseteq admitted' /\ admitted' \subseteq LimiterHit /\ IsFiniteSet(admitted')
    BY <1>3, <1>4, <1>5 DEF LimiterTyped
  <2>2. \A x \in admitted' : x.number <= Cardinality(admitted')
    <3> SUFFICES ASSUME NEW x \in admitted' PROVE x.number <= Cardinality(admitted')
      OBVIOUS
    <3>1. CASE x \in admitted
      <4>1. x.number \in Nat /\ x.number <= Cardinality(admitted)
        BY <3>1 DEF LimiterTyped, LimiterHit
      <4>2. Cardinality(admitted') \in {Cardinality(admitted), Cardinality(admitted) + 1}
        BY <1>4, <1>5
      <4> QED BY <1>4, <4>1, <4>2
    <3>2. CASE x \notin admitted
      <4>1. x = Hit(r) /\ admitted' = admitted \cup {Hit(r)}
        BY <1>5, <3>2
      <4> QED BY <1>4, <4>1
    <3> QED BY <3>1, <3>2
  <2> QED BY <1>2, <2>1, <2>2 DEF LimiterTyped
<1>7. ReadAdmitted'
  <2> SUFFICES ASSUME NEW q \in Requests
               PROVE  /\ call'[q].now <= clock'
                      /\ call'[q].at = "read" => call'[q].hits \subseteq Recent(admitted', call'[q].now)
    BY DEF ReadAdmitted, Recent
  <2>1. CASE q = r
    BY <1>1, <2>1 DEF LimiterTyped
  <2>2. CASE q # r
    <3>1. call'[q] = call[q] /\ admitted \subseteq admitted'
      BY <1>1, <1>5, <2>2
    <3> QED BY <1>1, <3>1 DEF ReadAdmitted, Recent
  <2> QED BY <2>1, <2>2
<1>8. ASSUME ~overlapped' PROVE ~overlapped /\ Undisturbed /\ Undisturbed'
  <2>1. ~overlapped
    BY <1>8 DEF WriteHits
  <2>2. Undisturbed
    BY <2>1
  <2>3. hits' = hits \/ \A q \in Requests \ {r} : call[q].at = "idle"
    BY <1>8 DEF WriteHits
  <2>4. call[r].hits = Recent(hits, call[r].now)
    BY <1>1, <2>2 DEF Undisturbed
  <2>5. \A x \in admitted' : x.time <= clock'
    BY <1>1, <1>3, <1>4, <1>5, <2>2 DEF Undisturbed
  <2>6. \A x \in admitted' \ hits' : x.time + Window < call[r].now /\ x.time \in Int
    <3> SUFFICES ASSUME NEW x \in admitted' \ hits' PROVE x.time + Window < call[r].now /\ x.time \in Int
      OBVIOUS
    <3>1. x \in admitted /\ x \notin call[r].hits /\ x.time \in Int
      BY <1>5 DEF LimiterTyped, LimiterHit
    <3>2. CASE x \in hits
      <4>1. ~(x.time >= call[r].now - Window)
        BY <2>4, <3>1, <3>2 DEF Recent
      <4> QED BY <1>3, <3>1, <4>1, LimiterAssumption
    <3>3. CASE x \notin hits
      BY <1>1, <2>2, <3>1, <3>3 DEF Undisturbed
    <3> QED BY <3>2, <3>3
  <2>7. \A x \in admitted' \ hits' : x.time + Window < clock'
    BY <1>1, <1>3, <2>6, LimiterAssumption DEF LimiterTyped
  <2>8. ASSUME NEW q \in Requests, call'[q].at # "idle"
        PROVE  /\ \A x \in admitted' : x.time <= call'[q].now
               /\ \A x \in admitted' \ hits' : x.time + Window < call'[q].now
               /\ call'[q].at = "read" => call'[q].hits = Recent(hits', call'[q].now)
    <3>1. q # r /\ call'[q] = call[q]
      BY <1>1, <2>8
    <3>2. hits' = hits
      BY <2>3, <2>8, <3>1
    <3>3. Hit(r) \notin hits
      BY <1>4 DEF LimiterTyped
    <3>4. admitted' = admitted
      BY <1>5, <3>2, <3>3
    <3> QED BY <2>2, <2>8, <3>1, <3>2, <3>4 DEF Undisturbed
  <2>9. Undisturbed'
    BY <2>5, <2>7, <2>8 DEF Undisturbed, Recent
  <2> QED BY <2>1, <2>2, <2>9
<1>9. WithinLimit'
  <2> SUFFICES ASSUME ~overlapped', NEW t \in 0 .. MaxTime
               PROVE  Between(admitted', t, t + Window) <= Limit
    BY DEF WithinLimit, Between
  <2>1. Between(admitted, t, t + Window) <= Limit
    BY <1>8 DEF WithinLimit
  <2>2. Within(call[r].hits) => Between(admitted \cup {Hit(r)}, t, t + Window) <= Limit
    BY <1>1, <1>8, <2>1, HitWithinLimit
  <2> QED BY <1>5, <2>1, <2>2
<1> QED BY <1>6, <1>7, <1>8, <1>9

\* No step of a call, and no passing of time, breaks the invariant.
LEMMA LimiterInvNext == LimiterInv /\ [LimiterNext]_limiterVars => LimiterInv'
<1> SUFFICES ASSUME LimiterInv, [LimiterNext]_limiterVars PROVE LimiterInv'
  OBVIOUS
<1> USE DEF LimiterInv
<1>1. CASE UNCHANGED limiterVars
  BY <1>1 DEF limiterVars, LimiterTyped, ReadAdmitted, Undisturbed, WithinLimit, Between, Recent
<1>2. CASE Tick
  <2>1. LimiterTyped'
    BY <1>2, LimiterAssumption DEF Tick, LimiterTyped
  <2>2. ReadAdmitted'
    BY <1>2 DEF Tick, ReadAdmitted, LimiterTyped, LimiterCall, Recent
  <2>3. (~overlapped => Undisturbed)'
    <3>1. \A x \in admitted : x.time \in Int
      BY DEF LimiterTyped, LimiterHit
    <3> QED BY <1>2, <3>1, LimiterAssumption DEF Tick, Undisturbed, LimiterTyped, Recent
  <2>4. WithinLimit'
    BY <1>2 DEF Tick, WithinLimit, Between
  <2> QED BY <2>1, <2>2, <2>3, <2>4
<1>3. ASSUME NEW r \in Requests, TakeTime(r) PROVE LimiterInv'
  <2>1. /\ call' = [call EXCEPT ![r].at = "timed", ![r].now = clock]
        /\ clock' = clock /\ hits' = hits /\ admitted' = admitted /\ overlapped' = overlapped
    BY <1>3 DEF TakeTime
  <2>2. call'[r].at = "timed" /\ call'[r].now = clock /\ \A q \in Requests \ {r} : call'[q] = call[q]
    BY <2>1 DEF LimiterTyped, LimiterCall
  <2>3. LimiterTyped'
    BY <2>1, LimiterMoves DEF LimiterTyped
  <2>4. ReadAdmitted'
    BY <2>1, <2>2 DEF ReadAdmitted, LimiterTyped, Recent
  <2>5. (~overlapped => Undisturbed)'
    BY <2>1, <2>2 DEF Undisturbed, Recent
  <2>6. WithinLimit'
    BY <2>1 DEF WithinLimit, Between
  <2> QED BY <2>3, <2>4, <2>5, <2>6
<1>4. ASSUME NEW r \in Requests, ReadHits(r) PROVE LimiterInv'
  <2>1. /\ call' = [call EXCEPT ![r].at = "read", ![r].hits = Recent(hits, call[r].now)]
        /\ call[r].at = "timed"
        /\ clock' = clock /\ hits' = hits /\ admitted' = admitted /\ overlapped' = overlapped
    BY <1>4 DEF ReadHits
  <2>2. /\ call'[r].at = "read" /\ call'[r].now = call[r].now /\ call'[r].hits = Recent(hits, call[r].now)
        /\ \A q \in Requests \ {r} : call'[q] = call[q]
    BY <2>1 DEF LimiterTyped, LimiterCall
  <2>3. LimiterTyped'
    BY <2>1, LimiterMoves DEF LimiterTyped
  <2>4. ReadAdmitted'
    BY <2>1, <2>2 DEF ReadAdmitted, LimiterTyped, Recent
  <2>5. (~overlapped => Undisturbed)'
    BY <2>1, <2>2 DEF Undisturbed, Recent
  <2>6. WithinLimit'
    BY <2>1 DEF WithinLimit, Between
  <2> QED BY <2>3, <2>4, <2>5, <2>6
<1> QED BY <1>1, <1>2, <1>3, <1>4, WriteKeeps DEF LimiterNext

\* Hits lie within the limit while no two calls overlap.
LEMMA LimiterInvTyped == LimiterInv => LimiterTypeOK /\ WithinLimit
  BY DEF LimiterInv, LimiterTyped, LimiterTypeOK, LimiterCall, LimiterHit

\* The full window is what stands when a call is refused.
LEMMA LimiterSteps ==
  ASSUME LimiterInv, [LimiterNext]_limiterVars, NEW r \in Requests,
         call[r].at = "read", call'[r].at = "idle", admitted' = admitted
  PROVE  Between(admitted, call[r].now - Window, MaxTime) >= Limit
<1> DEFINE W == {x \in admitted : call[r].now - Window <= x.time /\ x.time <= MaxTime}
<1>1. LimiterTyped /\ ReadAdmitted
  BY DEF LimiterInv
<1>2. ASSUME NEW q \in Requests, WriteHits(q) PROVE q = r
  BY <1>1, <1>2 DEF WriteHits, LimiterTyped
<1>3. ASSUME NEW q \in Requests, TakeTime(q) \/ ReadHits(q) PROVE FALSE
  BY <1>1, <1>3 DEF TakeTime, ReadHits, LimiterTyped, LimiterCall
<1>4. WriteHits(r)
  BY <1>2, <1>3 DEF LimiterNext, Tick, limiterVars
<1>5. ~Within(call[r].hits)
  <2>1. Within(call[r].hits) => admitted' = admitted \cup {Hit(r)}
    BY <1>4 DEF WriteHits
  <2> QED BY <1>1, <2>1, HitIsNew
<1>6. call[r].hits \subseteq W
  <2>1. \A x \in admitted : x.time \in 0 .. MaxTime
    BY <1>1 DEF LimiterTyped, LimiterHit
  <2> QED BY <1>1, <2>1 DEF ReadAdmitted, Recent
<1>7. IsFiniteSet(W)
  BY <1>1, FS_Subset DEF LimiterTyped
<1>8. IsFiniteSet(call[r].hits) /\ Cardinality(call[r].hits) <= Cardinality(W)
  BY <1>6, <1>7, FS_Subset
<1>9. Cardinality(W) \in Nat /\ Cardinality(call[r].hits) \in Nat
  BY <1>7, <1>8, FS_CardinalityType
<1>10. Cardinality(W) >= Limit
  BY <1>5, <1>8, <1>9, LimiterAssumption DEF Within
<1> QED BY <1>10 DEF Between

\* Calls that do not overlap keep to the limit in every window, and nobody is
\* refused without cause, overlapping or not.
THEOREM LimitIsKept == LimiterSpec => LimitKept
<1>1. LimiterInv /\ [LimiterNext]_limiterVars =>
        [\A r \in Requests : call[r].at = "read" /\ call'[r].at = "idle" /\ admitted' = admitted
           => Between(admitted, call[r].now - Window, MaxTime) >= Limit]_limiterVars
  BY LimiterSteps
<1> QED
  BY <1>1, LimiterInvInit, LimiterInvNext, LimiterInvTyped, PTL
     DEF LimiterSpec, LimitKept, RefusedForCause
-----------------------------------------------------------------------------
(***************************************************************************)
(* Active records (web.py).  As long as no newest row is deleted, ids are  *)
(* given once: no object has one that is still to be given.                *)
(***************************************************************************)

\* Every nonempty set of natural numbers has a least one: induction without a schema.
LEMMA LeastNumber ==
  ASSUME NEW T, T \subseteq Nat, T # {}
  PROVE  \E m \in T : \A k \in T : m <= k
<1> DEFINE Less == OpToRel(<, Nat)
<1>1. IsWellFoundedOn(Less, Nat)
  BY NatLessThanWellFounded
<1> HIDE DEF Less
<1>2. PICK m \in T : \A k \in T : ~ (<<k, m>> \in Less)
  BY <1>1, WFMin
<1>3. \A k \in T : k < m => <<k, m>> \in Less
  BY DEF Less, OpToRel
<1>4. \A k \in T : ~ (k < m)
  BY <1>2, <1>3, Zenon
<1>5. \A k \in T : m <= k
  BY <1>4
<1> QED BY <1>5

Data == [Columns -> Values]
ObjectRecord == [id : Nat, serial : Nat, data : Data \cup {<<>>}]
RowRecord == [serial : Nat, data : Data]

OrmTyped ==
  /\ rows = [i \in DOMAIN rows |-> rows[i]] /\ DOMAIN rows \subseteq 1 .. MaxId
  /\ \A i \in DOMAIN rows : rows[i] \in RowRecord
  /\ object \in [Sessions -> ObjectRecord]
  /\ \A s \in Sessions : /\ object[s].id # 0 => object[s].data \in Data
                         /\ object[s].id = 0 => object[s].serial = 0
  /\ inserts \in Nat
  /\ topDeleted \in BOOLEAN

\* No object has an id that is still to be given.
IdsGiven == ~topDeleted => \A s \in Sessions : object[s].id < NextId(rows)

OrmInv == OrmTyped /\ RowsWhole /\ IdsGiven /\ SameRow

\* NextId is above every id and no higher than it must be.
LEMMA NextIdAbove ==
  ASSUME NEW r, DOMAIN r \subseteq 1 .. MaxId
  PROVE  /\ NextId(r) \in Nat \ {0}
         /\ \A i \in DOMAIN r : i < NextId(r)
         /\ NextId(r) = 1 \/ NextId(r) - 1 \in DOMAIN r
<1>1. CASE DOMAIN r = {}
  BY <1>1 DEF NextId
<1>2. CASE DOMAIN r # {}
  <2> DEFINE D == DOMAIN r
             Bounds == {b \in Nat : \A i \in D : i <= b}
  <2>1. MaxId \in Bounds
    BY OrmAssumption
  <2>2. PICK b \in Bounds : \A c \in Bounds : b <= c
    BY <2>1, LeastNumber
  <2>3. b \in D
    <3> SUFFICES ASSUME b \notin D PROVE FALSE
      OBVIOUS
    <3>1. \A i \in D : i \in Nat \ {0} /\ i <= b /\ i # b
      BY <2>2
    <3>2. PICK i \in D : TRUE
      BY <1>2
    <3>3. b - 1 \in Nat
      BY <2>2, <3>1, <3>2
    <3>4. \A j \in D : j <= b - 1
      BY <2>2, <3>1
    <3>5. b - 1 \in Bounds
      BY <3>3, <3>4
    <3> QED BY <2>2, <3>5
  <2>4. Max(D) \in D /\ \A y \in D : Max(D) >= y
    <3>1. \A y \in D : b >= y
      BY <2>2
    <3> QED BY <2>3, <3>1 DEF Max
  <2>5. NextId(r) = Max(D) + 1
    BY <1>2 DEF NextId
  <2>6. D \subseteq Nat
    OBVIOUS
  <2> DEFINE m == Max(D)
  <2> HIDE DEF D, m
  <2>7. m \in Nat /\ (\A y \in D : m >= y) /\ NextId(r) = m + 1
    BY <2>4, <2>5, <2>6 DEF m
  <2>8. NextId(r) \in Nat \ {0} /\ NextId(r) - 1 = m /\ \A i \in D : i < NextId(r)
    BY <2>6, <2>7
  <2> QED BY <2>4, <2>8 DEF D, m
<1> QED BY <1>1, <1>2

\* There are no rows and no objects at first.
LEMMA OrmInvInit == OrmInit => OrmInv
<1> SUFFICES ASSUME OrmInit PROVE OrmInv
  OBVIOUS
<1>1. NoObject \in ObjectRecord /\ NoObject.id = 0 /\ NoObject.serial = 0
  BY DEF NoObject, ObjectRecord
<1>2. rows = <<>> /\ DOMAIN rows = {} /\ rows = [i \in DOMAIN rows |-> rows[i]]
  BY DEF OrmInit
<1>3. topDeleted \in BOOLEAN
  BY Zenon DEF OrmInit
<1>4. OrmTyped
  BY <1>1, <1>2, <1>3 DEF OrmInit, OrmTyped
<1>5. RowsWhole /\ SameRow
  BY <1>2 DEF RowsWhole, SameRow
<1>6. IdsGiven
  <2>1. NextId(rows) \in Nat \ {0}
    BY <1>2, NextIdAbove
  <2> QED BY <1>1, <2>1 DEF OrmInit, IdsGiven
<1> QED BY <1>4, <1>5, <1>6 DEF OrmInv


\* An object that is made, found, saved or changed keeps its type.
LEMMA ObjectMoves ==
  ASSUME OrmTyped, NEW s \in Sessions, NEW d \in Data, NEW i \in Nat
  PROVE  /\ [object EXCEPT ![s] = [NoObject EXCEPT !.data = d]] \in [Sessions -> ObjectRecord]
         /\ [object EXCEPT ![s] = [id |-> i, serial |-> inserts + 1, data |-> d]] \in [Sessions -> ObjectRecord]
         /\ i \in DOMAIN rows =>
              [object EXCEPT ![s] = [id |-> i, serial |-> rows[i].serial, data |-> rows[i].data]]
                 \in [Sessions -> ObjectRecord]
         /\ [object EXCEPT ![s].data = d] \in [Sessions -> ObjectRecord]
         /\ [object EXCEPT ![s].id = i, ![s].serial = inserts + 1] \in [Sessions -> ObjectRecord]
<1>1. object \in [Sessions -> ObjectRecord] /\ inserts \in Nat
  BY DEF OrmTyped
<1>2. [NoObject EXCEPT !.data = d] = [id |-> 0, serial |-> 0, data |-> d]
  BY DEF NoObject
<1>3. \A n \in Nat, m \in Nat : [id |-> n, serial |-> m, data |-> d] \in ObjectRecord
  BY DEF ObjectRecord
<1>4. i \in DOMAIN rows => [id |-> i, serial |-> rows[i].serial, data |-> rows[i].data] \in ObjectRecord
  BY DEF OrmTyped, RowRecord, ObjectRecord
<1>5. /\ [object EXCEPT ![s].data = d] \in [Sessions -> ObjectRecord]
      /\ [object EXCEPT ![s].id = i, ![s].serial = inserts + 1] \in [Sessions -> ObjectRecord]
  <2> DEFINE D == Data \cup {<<>>}
  <2>1. d \in D /\ ObjectRecord = [id : Nat, serial : Nat, data : D]
    BY DEF ObjectRecord
  <2> HIDE DEF D
  <2>2. [object EXCEPT ![s].data = d] \in [Sessions -> ObjectRecord]
    BY <1>1, <2>1
  <2> DEFINE n == inserts + 1
  <2>n. n \in Nat
    BY <1>1
  <2> HIDE DEF n
  <2>4. [object[s] EXCEPT !.id = i, !.serial = n] \in ObjectRecord
    BY <1>1, <2>1, <2>n
  <2>5. [object EXCEPT ![s] = [object[s] EXCEPT !.id = i, !.serial = n]] \in [Sessions -> ObjectRecord]
    BY <1>1, <2>4
  <2>3. [object EXCEPT ![s].id = i, ![s].serial = inserts + 1] \in [Sessions -> ObjectRecord]
    BY <1>1, <2>5 DEF n
  <2> QED BY <2>2, <2>3
<1>6. [object EXCEPT ![s] = [NoObject EXCEPT !.data = d]] \in [Sessions -> ObjectRecord]
  BY <1>1, <1>2, <1>3
<1>7. [object EXCEPT ![s] = [id |-> i, serial |-> inserts + 1, data |-> d]] \in [Sessions -> ObjectRecord]
  BY <1>1, <1>3
<1>8. i \in DOMAIN rows =>
        [object EXCEPT ![s] = [id |-> i, serial |-> rows[i].serial, data |-> rows[i].data]]
           \in [Sessions -> ObjectRecord]
  BY <1>1, <1>4
<1> QED BY <1>5, <1>6, <1>7, <1>8

\* An object that is more than none has a value in each column.
LEMMA ObjectData ==
  ASSUME OrmTyped, NEW s \in Sessions, object[s] # NoObject
  PROVE  object[s].data \in Data
<1>1. object[s] \in ObjectRecord
  BY DEF OrmTyped
<1>2. CASE object[s].id # 0
  BY <1>2 DEF OrmTyped
<1>3. CASE object[s].id = 0
  <2>1. object[s].serial = 0
    BY <1>3 DEF OrmTyped
  <2>2. object[s].data # <<>>
    BY <1>1, <1>3, <2>1 DEF ObjectRecord, NoObject
  <2> QED BY <1>1, <2>2 DEF ObjectRecord
<1> QED BY <1>2, <1>3

\* What does not touch the rows.
LEMMA RowsStay ==
  ASSUME OrmInv, OrmTyped', UNCHANGED <<rows, saved, topDeleted>>, NEW s \in Sessions,
         \A t \in Sessions \ {s} : object'[t] = object[t],
         ~topDeleted => object'[s].id < NextId(rows),
         ~topDeleted /\ object'[s].id \in DOMAIN rows => rows[object'[s].id].serial = object'[s].serial
  PROVE  OrmInv'
<1>1. RowsWhole'
  BY DEF OrmInv, RowsWhole
<1>2. IdsGiven'
  BY DEF OrmInv, IdsGiven, NextId
<1>3. SameRow'
  BY DEF OrmInv, SameRow
<1> QED BY <1>1, <1>2, <1>3 DEF OrmInv

\* No save, delete or find breaks the invariant.
LEMMA OrmInvNext == OrmInv /\ [OrmNext]_ormVars => OrmInv'
<1> SUFFICES ASSUME OrmInv, [OrmNext]_ormVars PROVE OrmInv'
  OBVIOUS
<1>0. OrmTyped /\ RowsWhole /\ IdsGiven /\ SameRow
  BY DEF OrmInv
<1>n. /\ NextId(rows) \in Nat \ {0} /\ \A i \in DOMAIN rows : i < NextId(rows)
      /\ NextId(rows) = 1 \/ NextId(rows) - 1 \in DOMAIN rows
  BY <1>0, NextIdAbove DEF OrmTyped
<1>1. CASE UNCHANGED ormVars
  BY <1>1 DEF ormVars, OrmInv, OrmTyped, RowsWhole, IdsGiven, SameRow, NextId
<1>2. ASSUME NEW s \in Sessions, Make(s) PROVE OrmInv'
  <2>1. PICK d \in Data : object' = [object EXCEPT ![s] = [NoObject EXCEPT !.data = d]]
    BY <1>2 DEF Make, Data
  <2>2. UNCHANGED <<rows, saved, inserts, topDeleted>>
    BY <1>2 DEF Make
  <2>3. /\ object'[s].id = 0 /\ object'[s].serial = 0
        /\ \A t \in Sessions \ {s} : object'[t] = object[t]
    BY <1>0, <2>1 DEF OrmTyped, NoObject
  <2>4. object' \in [Sessions -> ObjectRecord]
    BY <1>0, <2>1, ObjectMoves
  <2>5. OrmTyped'
    BY <1>0, <2>2, <2>3, <2>4 DEF OrmTyped
  <2>6. 0 \notin DOMAIN rows
    BY <1>0 DEF OrmTyped
  <2> QED BY <1>n, <2>2, <2>3, <2>5, <2>6, RowsStay
<1>3. ASSUME NEW s \in Sessions, GetObject(s) PROVE OrmInv'
  <2>1. PICK i \in DOMAIN rows :
          object' = [object EXCEPT ![s] = [id |-> i, serial |-> rows[i].serial, data |-> rows[i].data]]
    BY <1>3 DEF GetObject
  <2>2. UNCHANGED <<rows, saved, inserts, topDeleted>>
    BY <1>3 DEF GetObject
  <2>3. /\ object'[s].id = i /\ object'[s].serial = rows[i].serial /\ object'[s].data = rows[i].data
        /\ \A t \in Sessions \ {s} : object'[t] = object[t]
        /\ rows[i].data \in Data /\ i \in Nat /\ i # 0
    BY <1>0, <2>1 DEF OrmTyped, RowRecord
  <2>4. object' \in [Sessions -> ObjectRecord]
    BY <1>0, <2>1, <2>3, ObjectMoves
  <2>5. OrmTyped'
    BY <1>0, <2>2, <2>3, <2>4 DEF OrmTyped
  <2> QED BY <1>n, <2>2, <2>3, <2>5, RowsStay
<1>4. ASSUME NEW s \in Sessions, SetColumn(s) PROVE OrmInv'
  <2>1. PICK c \in Columns, v \in Values : object' = [object EXCEPT ![s].data[c] = v]
    BY <1>4 DEF SetColumn
  <2>2. UNCHANGED <<rows, saved, inserts, topDeleted>> /\ object[s].data \in Data
    BY <1>0, <1>4, ObjectData DEF SetColumn
  <2>3. [object[s].data EXCEPT ![c] = v] \in Data
    BY <2>2 DEF Data
  <2>4. object' = [object EXCEPT ![s].data = [object[s].data EXCEPT ![c] = v]]
    BY <2>1
  <2> DEFINE d == [object[s].data EXCEPT ![c] = v]
  <2> HIDE DEF d
  <2>5. d \in Data /\ object' = [object EXCEPT ![s].data = d]
    BY <2>3, <2>4 DEF d
  <2>6. /\ object'[s].id = object[s].id /\ object'[s].serial = object[s].serial /\ object'[s].data = d
        /\ \A t \in Sessions \ {s} : object'[t] = object[t]
    BY <1>0, <2>5 DEF OrmTyped, ObjectRecord
  <2>7. object' \in [Sessions -> ObjectRecord]
    BY <1>0, <2>5, ObjectMoves
  <2>8. OrmTyped'
    BY <1>0, <2>2, <2>5, <2>6, <2>7 DEF OrmTyped
  <2> QED BY <1>0, <2>2, <2>6, <2>8, RowsStay DEF IdsGiven, SameRow
<1>5. ASSUME NEW s \in Sessions, Insert(s) PROVE OrmInv'
  <2> DEFINE i == NextId(rows)
             d == object[s].data
  <2>1. /\ object[s].id = 0 /\ i <= MaxId /\ inserts' = inserts + 1 /\ topDeleted' = topDeleted
        /\ rows' = [j \in DOMAIN rows \cup {i} |->
                      IF j = i THEN [serial |-> inserts', data |-> d] ELSE rows[j]]
        /\ object' = [object EXCEPT ![s].id = i, ![s].serial = inserts']
        /\ saved' = saved \cup {<<i, d>>} /\ object[s] # NoObject
    BY <1>5 DEF Insert
  <2>2. d \in Data /\ i \in Nat \ {0} /\ i \notin DOMAIN rows /\ inserts' \in Nat
    BY <1>0, <1>n, <2>1, ObjectData DEF OrmTyped
  <2> HIDE DEF i
  <2>3. /\ DOMAIN rows' = DOMAIN rows \cup {i} /\ rows' = [j \in DOMAIN rows' |-> rows'[j]]
        /\ rows'[i] = [serial |-> inserts', data |-> d]
        /\ \A j \in DOMAIN rows : rows'[j] = rows[j]
    BY <2>1, <2>2
  <2>4. /\ object'[s].id = i /\ object'[s].serial = inserts' /\ object'[s].data = d
        /\ \A t \in Sessions \ {s} : object'[t] = object[t]
    BY <1>0, <2>1 DEF OrmTyped, ObjectRecord
  <2>5. object' \in [Sessions -> ObjectRecord]
    BY <1>0, <2>1, <2>2, ObjectMoves
  <2>6. DOMAIN rows' \subseteq 1 .. MaxId /\ \A j \in DOMAIN rows' : rows'[j] \in RowRecord
    BY <1>0, <2>1, <2>2, <2>3, OrmAssumption DEF OrmTyped, RowRecord
  <2>7. OrmTyped'
    BY <1>0, <2>1, <2>2, <2>3, <2>4, <2>5, <2>6 DEF OrmTyped
  <2>8. RowsWhole'
    BY <1>0, <2>1, <2>3 DEF RowsWhole
  <2>9. /\ NextId(rows') \in Nat /\ \A j \in DOMAIN rows' : j < NextId(rows')
    BY <2>6, NextIdAbove
  <2>10. ~topDeleted => \A t \in Sessions : object[t].id < i
    BY <1>0 DEF IdsGiven, i
  <2>11. IdsGiven'
    <3> SUFFICES ASSUME ~topDeleted, NEW t \in Sessions PROVE object'[t].id < NextId(rows')
      BY <2>1 DEF IdsGiven
    <3>1. i < NextId(rows')
      BY <2>3, <2>9
    <3>2. object'[t].id <= i /\ object'[t].id \in Nat
      BY <2>2, <2>4, <2>5, <2>10 DEF ObjectRecord
    <3> QED BY <2>2, <2>9, <3>1, <3>2
  <2>12. SameRow'
    <3> SUFFICES ASSUME ~topDeleted, NEW t \in Sessions, object'[t].id \in DOMAIN rows'
                 PROVE  rows'[object'[t].id].serial = object'[t].serial
      BY <2>1 DEF SameRow
    <3>1. CASE t = s
      BY <2>3, <2>4, <3>1
    <3>2. CASE t # s
      <4>1. object'[t] = object[t] /\ object[t].id < i /\ object[t].id \in Nat
        BY <1>0, <2>4, <2>10, <3>2 DEF OrmTyped, ObjectRecord
      <4>2. object[t].id \in DOMAIN rows
        BY <2>2, <2>3, <4>1
      <4> QED BY <1>0, <2>3, <4>1, <4>2 DEF SameRow
    <3> QED BY <3>1, <3>2
  <2> QED BY <2>7, <2>8, <2>11, <2>12 DEF OrmInv
<1>6. ASSUME NEW s \in Sessions, Update(s) PROVE OrmInv'
  <2> DEFINE o == object[s]
  <2>1. /\ o.id # 0 /\ UNCHANGED <<object, inserts, topDeleted>>
        /\ rows' = [i \in DOMAIN rows |-> IF i = o.id THEN [rows[i] EXCEPT !.data = o.data] ELSE rows[i]]
        /\ saved' = saved \cup {<<o.id, o.data>>}
    BY <1>6 DEF Update, Written
  <2>2. o.data \in Data
    BY <1>0, <2>1 DEF OrmTyped
  <2> HIDE DEF o
  <2>3. DOMAIN rows' = DOMAIN rows /\ rows' = [i \in DOMAIN rows' |-> rows'[i]]
    BY <2>1
  <2>4. ASSUME NEW i \in DOMAIN rows
        PROVE  /\ rows'[i] \in RowRecord /\ rows'[i].serial = rows[i].serial
               /\ i = o.id => rows'[i].data = o.data
               /\ i # o.id => rows'[i] = rows[i]
    <3>1. rows[i] \in RowRecord
      BY <1>0 DEF OrmTyped
    <3> QED BY <2>1, <2>2, <3>1 DEF RowRecord
  <2>5. OrmTyped'
    BY <1>0, <2>1, <2>3, <2>4 DEF OrmTyped
  <2>6. RowsWhole'
    BY <1>0, <2>1, <2>3, <2>4 DEF RowsWhole
  <2>7. IdsGiven'
    BY <1>0, <2>1, <2>3 DEF IdsGiven, NextId
  <2>8. SameRow'
    BY <1>0, <2>1, <2>3, <2>4 DEF SameRow
  <2> QED BY <2>5, <2>6, <2>7, <2>8 DEF OrmInv
<1>7. ASSUME NEW s \in Sessions, Delete(s) PROVE OrmInv'
  <2> DEFINE o == object[s]
  <2>1. /\ UNCHANGED <<object, saved, inserts>>
        /\ rows' = [i \in DOMAIN rows \ {o.id} |-> rows[i]]
        /\ topDeleted' = (topDeleted \/ (o.id \in DOMAIN rows /\ o.id + 1 = NextId(rows)))
    BY <1>7 DEF Delete, Restrict
  <2> HIDE DEF o
  <2>2. /\ DOMAIN rows' = DOMAIN rows \ {o.id} /\ rows' = [i \in DOMAIN rows' |-> rows'[i]]
        /\ \A i \in DOMAIN rows' : rows'[i] = rows[i]
    BY <2>1
  <2>3. topDeleted' \in BOOLEAN
    BY <2>1, Zenon
  <2>4. OrmTyped'
    BY <1>0, <2>1, <2>2, <2>3 DEF OrmTyped
  <2>5. RowsWhole'
    BY <1>0, <2>1, <2>2 DEF RowsWhole
  <2>6. ~topDeleted' => ~topDeleted
    BY <2>1
  <2>7. ASSUME ~topDeleted' PROVE NextId(rows') = NextId(rows)
    <3>1. /\ NextId(rows') \in Nat \ {0} /\ \A i \in DOMAIN rows' : i < NextId(rows')
          /\ NextId(rows') = 1 \/ NextId(rows') - 1 \in DOMAIN rows'
      BY <2>4, NextIdAbove DEF OrmTyped
    <3>2. ~(o.id \in DOMAIN rows /\ o.id + 1 = NextId(rows))
      BY <2>1, <2>7
    <3>3. \A i \in DOMAIN rows : i \in Nat \ {0}
      BY <1>0 DEF OrmTyped
    <3>4. CASE NextId(rows) = 1
      <4>1. DOMAIN rows' = {}
        BY <1>n, <2>2, <3>3, <3>4
      <4> QED BY <3>1, <3>4, <4>1
    <3>5. CASE NextId(rows) - 1 \in DOMAIN rows
      <4>1. NextId(rows) - 1 # o.id
        BY <1>n, <3>2, <3>5
      <4>2. NextId(rows) - 1 \in DOMAIN rows'
        BY <2>2, <3>5, <4>1
      <4>3. NextId(rows) - 1 < NextId(rows')
        BY <3>1, <4>2
      <4>4. NextId(rows') - 1 < NextId(rows)
        BY <1>n, <2>2, <3>1
      <4> QED BY <1>n, <3>1, <4>3, <4>4
    <3> QED BY <1>n, <3>4, <3>5
  <2>8. IdsGiven'
    BY <1>0, <2>1, <2>6, <2>7 DEF IdsGiven
  <2>9. SameRow'
    BY <1>0, <2>1, <2>2, <2>6 DEF SameRow
  <2> QED BY <2>4, <2>5, <2>8, <2>9 DEF OrmInv
<1> QED BY <1>1, <1>2, <1>3, <1>4, <1>5, <1>6, <1>7 DEF OrmNext

\* A row is as one object was when it was saved, and an object stands for the row
\* it was read from or written to.
LEMMA RowsStayWhole == OrmInit /\ [][OrmNext]_ormVars => [](RowsWhole /\ SameRow)
<1>1. OrmInv => RowsWhole /\ SameRow
  BY DEF OrmInv
<1> QED BY <1>1, OrmInvInit, OrmInvNext, PTL
-----------------------------------------------------------------------------
(***************************************************************************)
(* Migrations (web.py).  A process is at a migration only after all those  *)
(* before it are recorded.                                                 *)
(***************************************************************************)

ProcRecord == [at : {"away", "ask", "run", "record"}, i : 0 .. Len(MigrationList) + 1]

MigrationsTyped ==
  /\ recorded \subseteq MigrationNames
  /\ effects \in [MigrationNames -> Nat]
  /\ proc \in [Procs -> ProcRecord]
  /\ attempts \in [Procs -> 0 .. MaxAttempts]

\* A process is at a migration of the list whose predecessors are recorded, and
\* records only what has had its effect.
InPlace ==
  \A p \in Procs : proc[p] # Away =>
    /\ proc[p].at # "away" /\ proc[p].i >= 1
    /\ \A j \in 1 .. proc[p].i - 1 : MigrationList[j] \in recorded
    /\ proc[p].at \in {"run", "record"} => proc[p].i <= Len(MigrationList)
    /\ proc[p].at = "record" => effects[Current(p)] > 0

MigrationInv == MigrationsTyped /\ InPlace /\ InOrder

\* The files are listed each once.
LEMMA ListedMigrations ==
  /\ Len(MigrationList) \in Nat /\ DOMAIN MigrationList = 1 .. Len(MigrationList)
  /\ \A i \in 1 .. Len(MigrationList) : MigrationList[i] \in MigrationNames
  /\ \A m \in MigrationNames : \E i \in 1 .. Len(MigrationList) : MigrationList[i] = m
  /\ \A i, j \in 1 .. Len(MigrationList) : MigrationList[i] = MigrationList[j] => i = j
  /\ Away \in ProcRecord
<1>1. Len(MigrationList) \in Nat /\ DOMAIN MigrationList = 1 .. Len(MigrationList)
  BY MigrationAssumption
<1>2. Away \in ProcRecord
  BY <1>1 DEF Away, ProcRecord
<1> QED BY <1>1, <1>2, MigrationAssumption DEF MigrationNames

\* Nothing is recorded or run at first.
LEMMA MigrationInvInit == MigrationInit => MigrationInv
<1> SUFFICES ASSUME MigrationInit PROVE MigrationInv
  OBVIOUS
<1>1. MigrationsTyped
  BY ListedMigrations, MigrationAssumption DEF MigrationInit, MigrationsTyped
<1>2. InPlace
  BY DEF MigrationInit, InPlace
<1>3. InOrder
  BY ListedMigrations DEF MigrationInit, InOrder
<1> QED BY <1>1, <1>2, <1>3 DEF MigrationInv

\* A place a process may come to once done is recorded.
Placed(r, done) ==
  /\ r.at # "away" /\ r.i >= 1
  /\ \A j \in 1 .. r.i - 1 : MigrationList[j] \in done
  /\ r.at \in {"run", "record"} => r.i <= Len(MigrationList)
  /\ r.at = "record" => effects[MigrationList[r.i]] > 0

\* A step of one process that adds no effect and takes no record away.
LEMMA ProcMoves ==
  ASSUME MigrationInv, NEW p \in Procs, NEW r \in ProcRecord,
         proc' = [proc EXCEPT ![p] = r], UNCHANGED effects,
         recorded \subseteq recorded', recorded' \subseteq MigrationNames,
         attempts' \in [Procs -> 0 .. MaxAttempts],
         \A m \in recorded' : effects[m] > 0,
         r = Away \/ Placed(r, recorded')
  PROVE  MigrationInv'
<1>0. MigrationsTyped /\ InPlace /\ InOrder
  BY DEF MigrationInv
<1>1. proc'[p] = r /\ \A q \in Procs \ {p} : proc'[q] = proc[q]
  BY <1>0 DEF MigrationsTyped
<1>2. MigrationsTyped'
  BY <1>0 DEF MigrationsTyped
<1>3. InPlace'
  <2> SUFFICES ASSUME NEW q \in Procs, proc'[q] # Away
               PROVE  /\ proc'[q].at # "away" /\ proc'[q].i >= 1
                      /\ \A j \in 1 .. proc'[q].i - 1 : MigrationList[j] \in recorded'
                      /\ proc'[q].at \in {"run", "record"} => proc'[q].i <= Len(MigrationList)
                      /\ proc'[q].at = "record" => effects'[MigrationList[proc'[q].i]] > 0
    BY DEF InPlace, Current
  <2>1. CASE q = p
    BY <1>1, <2>1 DEF Placed
  <2>2. CASE q # p
    <3>1. proc'[q] = proc[q]
      BY <1>1, <2>2
    <3> QED BY <1>0, <3>1 DEF InPlace, Current
  <2> QED BY <2>1, <2>2
<1>4. InOrder'
  BY <1>0 DEF InOrder
<1> QED BY <1>2, <1>3, <1>4 DEF MigrationInv

\* What has a process at it is the migration of its place.
LEMMA EffectInOrder ==
  ASSUME MigrationInv, NEW p \in Procs, proc[p].at = "run", NEW n \in Nat, NEW r \in ProcRecord,
         effects' = [effects EXCEPT ![Current(p)] = @ + n], UNCHANGED <<recorded, attempts>>,
         proc' = [proc EXCEPT ![p] = r],
         r = Away \/ (n > 0 /\ r = [proc[p] EXCEPT !.at = "record"])
  PROVE  MigrationInv'
<1>0. MigrationsTyped /\ InPlace /\ InOrder
  BY DEF MigrationInv
<1>1. proc'[p] = r /\ \A q \in Procs \ {p} : proc'[q] = proc[q]
  BY <1>0 DEF MigrationsTyped
<1> DEFINE i == proc[p].i
<1>2. /\ i \in 1 .. Len(MigrationList) /\ \A j \in 1 .. i - 1 : MigrationList[j] \in recorded
      /\ Current(p) = MigrationList[i]
  BY <1>0, ListedMigrations DEF MigrationsTyped, ProcRecord, InPlace, Away, Current
<1> HIDE DEF i
<1>3. /\ effects' \in [MigrationNames -> Nat]
      /\ effects'[Current(p)] = effects[Current(p)] + n
      /\ \A m \in MigrationNames : m # Current(p) => effects'[m] = effects[m]
      /\ \A m \in MigrationNames : effects'[m] >= effects[m]
      /\ \A m \in MigrationNames : effects[m] \in Nat
  <2>1. Current(p) \in MigrationNames
    BY <1>2, ListedMigrations
  <2> HIDE DEF Current
  <2> QED BY <1>0, <2>1 DEF MigrationsTyped
<1>4. MigrationsTyped'
  BY <1>0, <1>3 DEF MigrationsTyped
<1>5. InPlace'
  <2> SUFFICES ASSUME NEW q \in Procs, proc'[q] # Away
               PROVE  /\ proc'[q].at # "away" /\ proc'[q].i >= 1
                      /\ \A j \in 1 .. proc'[q].i - 1 : MigrationList[j] \in recorded'
                      /\ proc'[q].at \in {"run", "record"} => proc'[q].i <= Len(MigrationList)
                      /\ proc'[q].at = "record" => effects'[MigrationList[proc'[q].i]] > 0
    BY DEF InPlace, Current
  <2>1. CASE q = p
    <3>1. n > 0 /\ proc'[q].at = "record" /\ proc'[q].i = i
      BY <1>0, <1>1, <2>1 DEF MigrationsTyped, ProcRecord, i
    <3>2. effects'[MigrationList[i]] > 0
      <4>1. effects[MigrationList[i]] \in Nat
        BY <1>2, <1>3, ListedMigrations
      <4> QED BY <1>2, <1>3, <3>1, <4>1
    <3> QED BY <1>2, <3>1, <3>2
  <2>2. CASE q # p
    <3>1. proc'[q] = proc[q]
      BY <1>1, <2>2
    <3>2. proc[q].at = "record" => effects'[MigrationList[proc[q].i]] > 0
      <4> SUFFICES ASSUME proc[q].at = "record" PROVE effects'[MigrationList[proc[q].i]] > 0
        OBVIOUS
      <4>1. proc[q].i \in 1 .. Len(MigrationList) /\ effects[MigrationList[proc[q].i]] > 0
        BY <1>0, <3>1, ListedMigrations DEF InPlace, Current, MigrationsTyped, ProcRecord
      <4>2. MigrationList[proc[q].i] \in MigrationNames
        BY <4>1, ListedMigrations
      <4>3. effects'[MigrationList[proc[q].i]] \in Nat
        BY <1>3, <4>2
      <4> QED BY <1>3, <4>1, <4>2, <4>3
    <3> QED BY <1>0, <3>1, <3>2 DEF InPlace, Current
  <2> QED BY <2>1, <2>2
<1>6. InOrder'
  <2> SUFFICES ASSUME NEW k \in 1 .. Len(MigrationList)
               PROVE  /\ effects'[MigrationList[k]] > 0 => \A j \in 1 .. k - 1 : MigrationList[j] \in recorded
                      /\ MigrationList[k] \in recorded => effects'[MigrationList[k]] > 0
    BY ListedMigrations DEF InOrder
  <2>1. /\ MigrationList[k] \in MigrationNames
        /\ effects[MigrationList[k]] > 0 => \A j \in 1 .. k - 1 : MigrationList[j] \in recorded
        /\ MigrationList[k] \in recorded => effects[MigrationList[k]] > 0
    BY <1>0, ListedMigrations DEF InOrder
  <2>2. effects[MigrationList[k]] \in Nat /\ effects'[MigrationList[k]] \in Nat
        /\ effects'[MigrationList[k]] >= effects[MigrationList[k]]
    BY <1>3, <2>1
  <2>3. CASE k = i
    BY <1>2, <2>1, <2>2, <2>3
  <2>4. CASE k # i
    <3>1. MigrationList[k] # Current(p)
      BY <1>2, <2>4, ListedMigrations
    <3>2. effects'[MigrationList[k]] = effects[MigrationList[k]]
      BY <1>3, <2>1, <3>1
    <3> QED BY <2>1, <3>2
  <2> QED BY <2>3, <2>4
<1> QED BY <1>4, <1>5, <1>6 DEF MigrationInv

\* No step of a migrating process, nor its kill, breaks the invariant.
LEMMA MigrationInvNext == MigrationInv /\ [MigrationNext]_migrationVars => MigrationInv'
<1> SUFFICES ASSUME MigrationInv, [MigrationNext]_migrationVars PROVE MigrationInv'
  OBVIOUS
<1>0. MigrationsTyped /\ InPlace /\ InOrder
  BY DEF MigrationInv
<1>r. \A m \in recorded : effects[m] > 0
  BY <1>0, ListedMigrations DEF InOrder, MigrationsTyped
<1>t. attempts \in [Procs -> 0 .. MaxAttempts] /\ recorded \subseteq MigrationNames
  BY <1>0 DEF MigrationsTyped
<1>1. CASE UNCHANGED migrationVars
  BY <1>0, <1>1 DEF migrationVars, MigrationInv, MigrationsTyped, InPlace, InOrder, Current
<1>2. ASSUME NEW p \in Procs, Begin(p) PROVE MigrationInv'
  <2>1. /\ proc' = [proc EXCEPT ![p] = [at |-> "ask", i |-> 1]]
        /\ attempts' \in [Procs -> 0 .. MaxAttempts] /\ UNCHANGED <<recorded, effects>>
    BY <1>0, <1>2, MigrationAssumption DEF Begin, MigrationsTyped
  <2> DEFINE r == [at |-> "ask", i |-> 1]
  <2>2. r \in ProcRecord /\ r.at = "ask" /\ r.i = 1
    BY ListedMigrations DEF ProcRecord
  <2> HIDE DEF r
  <2>3. proc' = [proc EXCEPT ![p] = r]
    BY <2>1 DEF r
  <2>4. Placed(r, recorded')
    BY <2>2 DEF Placed
  <2> QED BY <1>r, <1>t, <2>1, <2>2, <2>3, <2>4, ProcMoves
<1>3. ASSUME NEW p \in Procs, RunReturns(p) \/ Kill(p) PROVE MigrationInv'
  BY <1>0, <1>r, <1>3, ProcMoves, ListedMigrations DEF RunReturns, Kill, MigrationsTyped
<1>4. ASSUME NEW p \in Procs, AskApplied(p) PROVE MigrationInv'
  <2>1. /\ proc[p].at = "ask" /\ proc[p].i <= Len(MigrationList)
        /\ UNCHANGED <<recorded, effects, attempts>>
    BY <1>4 DEF AskApplied
  <2>0. /\ Known(p) => proc' = [proc EXCEPT ![p].i = proc[p].i + 1]
        /\ ~Known(p) => proc' = [proc EXCEPT ![p].at = "run"]
    BY <1>4 DEF AskApplied
  <2>2. /\ proc[p].i \in 1 .. Len(MigrationList) /\ proc[p] \in ProcRecord
        /\ \A j \in 1 .. proc[p].i - 1 : MigrationList[j] \in recorded
    BY <1>0, <2>1, ListedMigrations DEF MigrationsTyped, ProcRecord, InPlace, Away
  <2>3. CASE Known(p)
    <3> DEFINE r == [proc[p] EXCEPT !.i = proc[p].i + 1]
    <3>0. proc' = [proc EXCEPT ![p] = r]
      BY <1>0, <2>0, <2>3 DEF MigrationsTyped
    <3>1. /\ r \in ProcRecord /\ r.at = "ask" /\ r.i = proc[p].i + 1
      BY <2>1, <2>2, <2>3, ListedMigrations DEF ProcRecord
    <3>2. \A j \in 1 .. r.i - 1 : MigrationList[j] \in recorded
      BY <2>2, <2>3, <3>1 DEF Known, Current
    <3> HIDE DEF r
    <3>3. Placed(r, recorded')
      BY <2>1, <2>2, <3>1, <3>2 DEF Placed
    <3> QED BY <1>r, <1>t, <2>1, <3>0, <3>1, <3>3, ProcMoves
  <2>4. CASE ~Known(p)
    <3> DEFINE r == [proc[p] EXCEPT !.at = "run"]
    <3>0. proc' = [proc EXCEPT ![p] = r]
      BY <1>0, <2>0, <2>4 DEF MigrationsTyped
    <3>1. /\ r \in ProcRecord /\ r.at = "run" /\ r.i = proc[p].i
      BY <2>1, <2>2, <2>4, ListedMigrations DEF ProcRecord
    <3> HIDE DEF r
    <3>3. Placed(r, recorded')
      BY <2>1, <2>2, <3>1, ListedMigrations DEF Placed
    <3> QED BY <1>r, <1>t, <2>1, <3>0, <3>1, <3>3, ProcMoves
  <2> QED BY <2>3, <2>4
<1>5. ASSUME NEW p \in Procs, Run(p) PROVE MigrationInv'
  <2> DEFINE r == [proc[p] EXCEPT !.at = "record"]
  <2>1. /\ proc[p].at = "run" /\ effects' = [effects EXCEPT ![Current(p)] = @ + 1]
        /\ proc' = [proc EXCEPT ![p] = r] /\ UNCHANGED <<recorded, attempts>>
    BY <1>5 DEF Run
  <2>2. r \in ProcRecord
    BY <1>0 DEF MigrationsTyped, ProcRecord
  <2>3. 1 \in Nat /\ 1 > 0
    OBVIOUS
  <2> HIDE DEF Current
  <2>4. r = Away \/ (1 > 0 /\ r = [proc[p] EXCEPT !.at = "record"])
    BY <2>3
  <2> HIDE DEF r
  <2> QED BY <2>1, <2>2, <2>3, <2>4, EffectInOrder
<1>6. ASSUME NEW p \in Procs, Raise(p) PROVE MigrationInv'
  <2>1. PICK n \in 0 .. 1 : effects' = [effects EXCEPT ![Current(p)] = @ + n]
    BY <1>6 DEF Raise
  <2>2. /\ proc[p].at = "run" /\ proc' = [proc EXCEPT ![p] = Away] /\ UNCHANGED <<recorded, attempts>>
    BY <1>6 DEF Raise, AfterRaise
  <2>3. n \in Nat /\ Away \in ProcRecord
    BY ListedMigrations
  <2> QED BY <2>1, <2>2, <2>3, EffectInOrder
<1>7. ASSUME NEW p \in Procs, Record(p) PROVE MigrationInv'
  <2> DEFINE r == IF Current(p) \in recorded THEN Away ELSE [at |-> "ask", i |-> proc[p].i + 1]
  <2>1. /\ proc[p].at = "record" /\ recorded' = recorded \cup {Current(p)}
        /\ proc' = [proc EXCEPT ![p] = r] /\ UNCHANGED <<effects, attempts>>
    BY <1>7 DEF Record
  <2>2. /\ proc[p].i \in 1 .. Len(MigrationList) /\ effects[Current(p)] > 0
        /\ \A j \in 1 .. proc[p].i - 1 : MigrationList[j] \in recorded
    BY <1>0, <2>1, ListedMigrations DEF MigrationsTyped, ProcRecord, InPlace, Away
  <2>3. Current(p) = MigrationList[proc[p].i] /\ Current(p) \in MigrationNames
    BY <2>2, ListedMigrations DEF Current
  <2>4. recorded' \subseteq MigrationNames /\ \A m \in recorded' : effects[m] > 0
    BY <1>0, <1>r, <2>1, <2>2, <2>3 DEF MigrationsTyped
  <2>5. /\ r \in ProcRecord
        /\ r # Away => r.at = "ask" /\ r.i = proc[p].i + 1
    BY <2>2, ListedMigrations DEF ProcRecord
  <2>6. \A j \in 1 .. proc[p].i : MigrationList[j] \in recorded'
    BY <2>1, <2>2, <2>3
  <2>7. r # Away => r.i >= 1 /\ \A j \in 1 .. r.i - 1 : MigrationList[j] \in recorded'
    BY <2>2, <2>5, <2>6
  <2> HIDE DEF r
  <2>8. r = Away \/ Placed(r, recorded')
    BY <2>5, <2>7 DEF Placed
  <2> QED BY <1>t, <2>1, <2>4, <2>5, <2>8, ProcMoves
<1> QED BY <1>1, <1>2, <1>3, <1>4, <1>5, <1>6, <1>7 DEF MigrationNext

\* The invariant gives what the runs check of the order.
LEMMA MigrationInvSettled == MigrationInv => MigrationTypeOK /\ InOrder
  BY DEF MigrationInv, MigrationsTyped, MigrationTypeOK, ProcRecord

\* Nobody comes to run what is recorded.
LEMMA MigrationSteps ==
  ASSUME MigrationInv, [MigrationNext]_migrationVars, NEW m \in MigrationNames, Settled(m)
  PROVE  Settled(m)' /\ effects'[m] = effects[m]
<1>0. MigrationsTyped /\ InPlace
  BY DEF MigrationInv
<1>1. m \in recorded /\ \A q \in Procs : proc[q].at \in {"run", "record"} => MigrationList[proc[q].i] # m
  BY DEF Settled, Current
<1>2. CASE UNCHANGED migrationVars
  BY <1>1, <1>2 DEF migrationVars, Settled, Current
<1>3. ASSUME NEW p \in Procs,
             Begin(p) \/ RunReturns(p) \/ AskApplied(p) \/ Run(p) \/ Raise(p) \/ Record(p) \/ Kill(p)
      PROVE  Settled(m)' /\ effects'[m] = effects[m]
  <2>1. m \in recorded'
    BY <1>1, <1>3 DEF Begin, RunReturns, AskApplied, Run, Raise, Record, Kill
  <2>2. effects'[m] = effects[m]
    BY <1>0, <1>1, <1>3 DEF Begin, RunReturns, AskApplied, Run, Raise, Record, Kill, MigrationsTyped, Current
  <2>3. \A q \in Procs \ {p} : proc'[q] = proc[q]
    BY <1>0, <1>3
       DEF Begin, RunReturns, AskApplied, Run, Raise, AfterRaise, Record, Kill, MigrationsTyped
  <2>4. proc'[p].at \in {"run", "record"} => MigrationList[proc'[p].i] # m
    <3>1. CASE Begin(p) \/ RunReturns(p) \/ Raise(p) \/ Record(p) \/ Kill(p)
      <4>1. proc'[p].at \in {"away", "ask"}
        BY <1>0, <3>1 DEF Begin, RunReturns, Raise, AfterRaise, Record, Kill, MigrationsTyped, ProcRecord, Away
      <4> QED BY <4>1
    <3>2. CASE AskApplied(p)
      <4>1. proc[p].at = "ask" /\ proc[p] \in ProcRecord
        BY <1>0, <3>2 DEF AskApplied, MigrationsTyped
      <4>2. CASE Known(p)
        <5>1. proc' = [proc EXCEPT ![p].i = proc[p].i + 1]
          BY <3>2, <4>2 DEF AskApplied
        <5>2. proc'[p].at = "ask"
          BY <1>0, <4>1, <5>1 DEF MigrationsTyped, ProcRecord
        <5> QED BY <5>2
      <4>3. CASE ~Known(p)
        <5>1. proc' = [proc EXCEPT ![p].at = "run"]
          BY <3>2, <4>3 DEF AskApplied
        <5>2. proc'[p].i = proc[p].i
          BY <1>0, <4>1, <5>1 DEF MigrationsTyped, ProcRecord
        <5> QED BY <1>1, <4>3, <5>2 DEF Known, Current
      <4> QED BY <4>2, <4>3
    <3>3. CASE Run(p)
      <4>1. proc'[p].i = proc[p].i /\ proc[p].at = "run"
        BY <1>0, <3>3 DEF Run, MigrationsTyped, ProcRecord
      <4> QED BY <1>1, <4>1
    <3> QED BY <1>3, <3>1, <3>2, <3>3
  <2> QED BY <1>1, <2>1, <2>2, <2>3, <2>4 DEF Settled, Current
<1> QED BY <1>2, <1>3 DEF MigrationNext

\* Migrations take effect in their order, and once settled never again, whoever
\* runs the list and wherever a process is killed.
THEOREM MigrationsAreSettled == MigrationSpec => MigrationsSettle
<1>1. MigrationInv /\ [MigrationNext]_migrationVars =>
        [\A m \in MigrationNames : Settled(m) => Settled(m)' /\ effects'[m] = effects[m]]_migrationVars
  BY MigrationSteps
<1> QED
  BY <1>1, MigrationInvInit, MigrationInvNext, MigrationInvSettled, PTL
     DEF MigrationSpec, MigrationsSettle, SettledStays
-----------------------------------------------------------------------------
(***************************************************************************)
(* The allreduce over files (distributed_runtime.py).  A vector says which *)
(* worker wrote it in which round.                                         *)
(***************************************************************************)

Rankers ==
  [at : {"new", "begin", "write", "poll", "read", "failed"}, round : 1 .. LastRound + 1, got : Seq(Rounds)]

\* What a vector says that was read for a round: it belongs to a round of that
\* name, its worker has written it, and the reader's own is of this round.
Belongs(q, v, r, w) == StepName[q] = StepName[r] /\ v \in written[q] /\ (v = w => q = r)

RankerOK(w) ==
  /\ ranker[w] \in Rankers
  /\ ranker[w].at \in {"write", "poll", "read"} => ranker[w].round \in Rounds
  /\ ranker[w].at \in {"poll", "read"} => file[Name(w)][w] = ranker[w].round
  /\ ranker[w].at \notin {"read", "failed"} => ranker[w].got = <<>>
  /\ ranker[w].at = "read" =>
       \A v \in 1 .. Len(ranker[w].got) : v \in Workers /\ Belongs(ranker[w].got[v], v, ranker[w].round, w)

FilesOK ==
  \A s \in Names, v \in Workers :
    file[s][v] \in Rounds => StepName[file[s][v]] = s /\ v \in written[file[s][v]]

ReturnedOK ==
  \A r \in Rounds, w \in Workers : returned[r][w] # <<>> =>
    Len(returned[r][w]) = N /\ \A v \in Workers : Belongs(returned[r][w][v], v, r, w)

AllReduceInv ==
  /\ AllReduceTypeOK
  /\ returned \in [Rounds -> [Workers -> Seq(Rounds)]] /\ ranker \in [Workers -> Rankers]
  /\ FilesOK /\ ReturnedOK
  /\ \A w \in Workers : RankerOK(w)

\* The directory is empty at first.
LEMMA AllReduceInvInit == AllReduceInit => AllReduceInv
<1> SUFFICES ASSUME AllReduceInit PROVE AllReduceInv
  OBVIOUS
<1> USE AllReduceAssumption
<1>1. AtRound(1) \in [at : {"begin"}, round : 1 .. LastRound + 1, got : Seq(Rounds)]
  BY DEF AtRound
<1>2. NotYetUp \in [at : {"new"}, round : 1 .. LastRound + 1, got : Seq(Rounds)] /\ NotYetUp.got = <<>>
  <2>1. \A a \in [at : {"begin"}, round : 1 .. LastRound + 1, got : Seq(Rounds)] : a.got = <<>> =>
          /\ [a EXCEPT !.at = "new"] \in [at : {"new"}, round : 1 .. LastRound + 1, got : Seq(Rounds)]
          /\ [a EXCEPT !.at = "new"].got = <<>>
    OBVIOUS
  <2>2. AtRound(1).got = <<>>
    BY DEF AtRound
  <2> QED BY <1>1, <2>1, <2>2, Zenon DEF NotYetUp
<1>3. \A w \in Workers : ranker[w] = NotYetUp
  BY DEF AllReduceInit
<1>4. \A s \in Names, v \in Workers : file[s][v] \notin Rounds
  BY DEF AllReduceInit, Absent, Rounds
<1>5. AllReduceTypeOK
  BY <1>2, <1>3 DEF AllReduceInit, AllReduceTypeOK
<1>6. \A w \in Workers : RankerOK(w)
  BY <1>2, <1>3 DEF RankerOK, Rankers
<1>7. \A r \in Rounds, w \in Workers : returned[r][w] = <<>>
  BY DEF AllReduceInit
<1>8. returned \in [Rounds -> [Workers -> Seq(Rounds)]] /\ ranker \in [Workers -> Rankers]
  BY <1>2 DEF AllReduceInit, Rankers
<1> QED BY <1>4, <1>5, <1>6, <1>7, <1>8 DEF AllReduceInv, FilesOK, ReturnedOK

\* What holds of a worker goes on holding while others move.
LEMMA OthersKeep ==
  ASSUME AllReduceInv, NEW v \in Workers, ranker'[v] = ranker[v],
         \A s \in Names : file'[s][v] = file[s][v],
         \A q \in Rounds : written[q] \subseteq written'[q]
  PROVE  RankerOK(v)'
<1>1. RankerOK(v) /\ ranker[v] \in Rankers
  BY DEF AllReduceInv
<1>2. ranker[v].round \in Rounds => Name(v) \in Names /\ Name(v)' = Name(v)
  BY DEF Name, Names
<1>3. ranker[v].at \in {"poll", "read"} => file'[Name(v)'][v] = ranker[v].round
  BY <1>1, <1>2 DEF RankerOK
<1>4. ranker[v].at = "read" =>
        \A u \in 1 .. Len(ranker[v].got) : u \in Workers /\ Belongs(ranker[v].got[u], u, ranker[v].round, v)'
  <2> SUFFICES ASSUME ranker[v].at = "read", NEW u \in 1 .. Len(ranker[v].got)
               PROVE  u \in Workers /\ Belongs(ranker[v].got[u], u, ranker[v].round, v)'
    OBVIOUS
  <2>1. ranker[v].got[u] \in Rounds
    BY <1>1 DEF Rankers
  <2> QED BY <1>1, <2>1 DEF RankerOK, Belongs
<1> QED BY <1>1, <1>3, <1>4 DEF RankerOK

\* An average handed out stays one of complete files.
LEMMA ReturnsKeep ==
  ASSUME AllReduceInv, \A q \in Rounds : written[q] \subseteq written'[q]
  PROVE  \A r \in Rounds, w \in Workers : returned[r][w] # <<>> =>
           Len(returned[r][w]) = N /\ \A v \in Workers :
             StepName[returned[r][w][v]] = StepName[r] /\ v \in written'[returned[r][w][v]]
             /\ (v = w => returned[r][w][v] = r)
<1> SUFFICES ASSUME NEW r \in Rounds, NEW w \in Workers, returned[r][w] # <<>>
             PROVE  Len(returned[r][w]) = N /\ \A v \in Workers :
                      StepName[returned[r][w][v]] = StepName[r] /\ v \in written'[returned[r][w][v]]
                      /\ (v = w => returned[r][w][v] = r)
  OBVIOUS
<1>1. returned[r][w] \in Seq(Rounds) /\ Len(returned[r][w]) = N
  BY DEF AllReduceInv, ReturnedOK
<1>2. \A v \in Workers : returned[r][w][v] \in Rounds
  BY <1>1, AllReduceAssumption DEF Workers
<1>3. \A v \in Workers : Belongs(returned[r][w][v], v, r, w)
  BY <1>1 DEF AllReduceInv, ReturnedOK
<1> QED BY <1>1, <1>2, <1>3 DEF Belongs

\* A step that changes nothing but what one worker is doing.
LEMMA OneRanker ==
  ASSUME AllReduceInv, NEW w \in Workers, NEW k \in Rankers, ranker' = [ranker EXCEPT ![w] = k],
         UNCHANGED <<file, returned, written>>, restarts' \in 0 .. MaxRestarts, RankerOK(w)'
  PROVE  AllReduceInv'
<1>1. ranker' \in [Workers -> Rankers] /\ \A v \in Workers \ {w} : ranker'[v] = ranker[v]
  BY DEF AllReduceInv
<1>2. \A v \in Workers : RankerOK(v)'
  BY <1>1, OthersKeep
<1>3. AllReduceTypeOK'
  BY <1>1 DEF AllReduceInv, AllReduceTypeOK, Rankers
<1>4. ReturnedOK'
  BY ReturnsKeep DEF ReturnedOK, Belongs
<1>5. FilesOK'
  BY DEF AllReduceInv, FilesOK
<1>6. returned' \in [Rounds -> [Workers -> Seq(Rounds)]]
  BY DEF AllReduceInv
<1> QED BY <1>1, <1>2, <1>3, <1>4, <1>5, <1>6 DEF AllReduceInv

\* The steps of one worker.
LEMMA RankersSteps ==
  ASSUME AllReduceInv, NEW w \in Workers, Launch(w) \/ Poll(w) \/ ReadFile(w) \/ GiveUp(w) \/ StartAgain(w)
  PROVE  AllReduceInv'
<1> USE AllReduceAssumption
<1>1. RankerOK(w) /\ ranker \in [Workers -> Rankers] /\ ranker[w] \in Rankers /\ restarts \in 0 .. MaxRestarts
  BY DEF AllReduceInv, AllReduceTypeOK
<1>2. AtRound(1) \in Rankers /\ AtRound(1).got = <<>> /\ AtRound(1).at = "begin"
  BY DEF AtRound, Rankers
<1>3. CASE Launch(w)
  <2>1. ranker'[w] = AtRound(1) /\ RankerOK(w)'
    BY <1>1, <1>2, <1>3 DEF Launch, RankerOK
  <2> QED BY <1>1, <1>2, <1>3, <2>1, OneRanker DEF Launch
<1>4. CASE StartAgain(w)
  <2>1. ranker'[w] = AtRound(1) /\ RankerOK(w)' /\ restarts' \in 0 .. MaxRestarts
    BY <1>1, <1>2, <1>4 DEF StartAgain, RankerOK
  <2> QED BY <1>2, <1>4, <2>1, OneRanker DEF StartAgain
<1>5. CASE Poll(w)
  <2> DEFINE k == [ranker[w] EXCEPT !.at = "read"]
  <2>1. k \in Rankers /\ k.at = "read" /\ k.got = <<>> /\ k.round = ranker[w].round /\ k.round \in Rounds
    BY <1>1, <1>5 DEF Poll, Rankers, RankerOK
  <2>2. ranker' = [ranker EXCEPT ![w] = k]
    BY <1>5 DEF Poll
  <2>3. file'[Name(w)'][w] = k.round
    BY <1>1, <1>5, <2>1, <2>2 DEF Poll, RankerOK, Name
  <2> HIDE DEF k
  <2>4. ranker'[w] = k
    BY <1>1, <2>2
  <2>5. RankerOK(w)'
    BY <2>1, <2>3, <2>4 DEF RankerOK
  <2> QED BY <1>1, <1>5, <2>1, <2>2, <2>5, OneRanker DEF Poll
<1>6. CASE GiveUp(w)
  <2> DEFINE k == [ranker[w] EXCEPT !.at = "failed"]
  <2>1. k \in Rankers /\ k.at = "failed"
    BY <1>1 DEF Rankers
  <2>2. ranker' = [ranker EXCEPT ![w] = k]
    BY <1>6 DEF GiveUp
  <2> HIDE DEF k
  <2>3. RankerOK(w)'
    BY <1>1, <2>1, <2>2 DEF RankerOK
  <2> QED BY <1>1, <1>6, <2>1, <2>2, <2>3, OneRanker DEF GiveUp
<1>7. CASE ReadFile(w)
  <2> DEFINE got == ranker[w].got
             content == file[Name(w)][Len(got) + 1]
  <2>1. /\ got \in Seq(Rounds) /\ Len(got) + 1 \in Workers /\ ranker[w].at = "read" /\ ranker[w].round \in Rounds
        /\ UNCHANGED <<file, returned, written, restarts>>
        /\ ranker' = IF content \in {Absent, Empty}
                     THEN [ranker EXCEPT ![w] = [ranker[w] EXCEPT !.at = "failed"]]
                     ELSE [ranker EXCEPT ![w] = [ranker[w] EXCEPT !.got = Append(got, content)]]
    BY <1>1, <1>7 DEF ReadFile, RankerOK, Rankers, Workers
  <2>2. CASE content \in {Absent, Empty}
    <3> DEFINE k == [ranker[w] EXCEPT !.at = "failed"]
    <3>1. k \in Rankers /\ k.at = "failed"
      BY <1>1 DEF Rankers
    <3>2. ranker' = [ranker EXCEPT ![w] = k]
      BY <2>1, <2>2
    <3> HIDE DEF k
    <3>3. RankerOK(w)'
      BY <1>1, <3>1, <3>2 DEF RankerOK
    <3> QED BY <1>1, <2>1, <3>1, <3>2, <3>3, OneRanker
  <2>3. CASE content \notin {Absent, Empty}
    <3> DEFINE k == [ranker[w] EXCEPT !.got = Append(got, content)]
    <3>0. Name(w) \in Names /\ Len(got) + 1 \in Workers
      BY <2>1 DEF Name, Names
    <3>1. file[Name(w)][Len(got) + 1] \in Rounds \cup {Absent, Empty}
      BY <3>0 DEF AllReduceInv, AllReduceTypeOK
    <3>2. content \in Rounds /\ StepName[content] = Name(w) /\ Len(got) + 1 \in written[content]
      BY <2>1, <2>3, <3>0, <3>1 DEF AllReduceInv, FilesOK
    <3>3. Append(got, content) \in Seq(Rounds)
      BY <2>1, <3>2
    <3>4. k \in Rankers /\ k.at = "read" /\ k.round = ranker[w].round /\ k.got = Append(got, content)
      BY <1>1, <2>1, <3>3 DEF Rankers
    <3>5. ranker' = [ranker EXCEPT ![w] = k] /\ Name(w)' = Name(w)
      BY <1>1, <2>1, <2>3 DEF Name
    <3>6. Len(got) + 1 = w => content = ranker[w].round
      BY <1>1, <2>1 DEF RankerOK
    <3>7. \A v \in 1 .. Len(got) + 1 : v \in Workers /\ StepName[Append(got, content)[v]] = StepName[ranker[w].round]
            /\ v \in written[Append(got, content)[v]] /\ (v = w => Append(got, content)[v] = ranker[w].round)
      <4> TAKE v \in 1 .. Len(got) + 1
      <4>1. CASE v \in 1 .. Len(got)
        <5>1. Append(got, content)[v] = got[v]
          BY <2>1, <4>1
        <5> QED BY <1>1, <2>1, <4>1, <5>1 DEF RankerOK, Belongs
      <4>2. CASE v = Len(got) + 1
        <5>1. Append(got, content)[v] = content
          BY <2>1, <4>2
        <5> QED BY <2>1, <3>2, <3>6, <4>2, <5>1 DEF Name
      <4> QED BY <2>1, <4>1, <4>2
    <3>8. Len(Append(got, content)) = Len(got) + 1
      BY <2>1
    <3>9. file[Name(w)][w] = ranker[w].round
      BY <1>1, <2>1 DEF RankerOK
    <3> HIDE DEF k, got, content
    <3>10. ranker'[w] = k
      BY <1>1, <3>5
    <3>11. RankerOK(w)'
      BY <2>1, <3>4, <3>5, <3>7, <3>8, <3>9, <3>10 DEF RankerOK, Belongs
    <3> QED BY <1>1, <2>1, <3>4, <3>5, <3>11, OneRanker
  <2> QED BY <2>2, <2>3
<1> QED BY <1>3, <1>4, <1>5, <1>6, <1>7

\* A file begins empty.
LEMMA CreateFileSteps == ASSUME AllReduceInv, NEW w \in Workers, CreateFile(w) PROVE AllReduceInv'
<1> USE AllReduceAssumption
<1> DEFINE k == [ranker[w] EXCEPT !.at = "write"]
<1>1. RankerOK(w) /\ ranker \in [Workers -> Rankers] /\ ranker[w] \in Rankers
      /\ file \in [Names -> [Workers -> Rounds \cup {Absent, Empty}]]
  BY DEF AllReduceInv, AllReduceTypeOK
<1>2. /\ k \in Rankers /\ k.at = "write" /\ k.got = <<>> /\ k.round \in Rounds /\ Name(w) \in Names
      /\ ranker' = [ranker EXCEPT ![w] = k]
      /\ file' = [file EXCEPT ![Name(w)][w] = Empty] /\ UNCHANGED <<returned, written, restarts>>
  BY <1>1 DEF CreateFile, Rankers, RankerOK, Name, Names
<1> HIDE DEF k
<1>3. /\ ranker'[w] = k /\ ranker' \in [Workers -> Rankers] /\ \A v \in Workers \ {w} : ranker'[v] = ranker[v]
      /\ file' \in [Names -> [Workers -> Rounds \cup {Absent, Empty}]]
      /\ \A s \in Names, v \in Workers : v # w => file'[s][v] = file[s][v]
      /\ \A s \in Names, v \in Workers : file'[s][v] = file[s][v] \/ file'[s][v] = Empty
  BY <1>1, <1>2
<1>4. \A v \in Workers \ {w} : RankerOK(v)'
  BY <1>2, <1>3, OthersKeep
<1>5. RankerOK(w)'
  BY <1>2, <1>3 DEF RankerOK
<1>6. FilesOK'
  BY <1>2, <1>3 DEF FilesOK, AllReduceInv, Empty, Rounds
<1>7. ReturnedOK'
  BY <1>2, ReturnsKeep DEF ReturnedOK, Belongs
<1>8. AllReduceTypeOK'
  BY <1>2, <1>3 DEF AllReduceInv, AllReduceTypeOK, Rankers
<1> QED BY <1>2, <1>3, <1>4, <1>5, <1>6, <1>7, <1>8 DEF AllReduceInv

\* A file is written by its worker alone.
LEMMA WriteVectorSteps == ASSUME AllReduceInv, NEW w \in Workers, WriteVector(w) PROVE AllReduceInv'
<1> USE AllReduceAssumption
<1> DEFINE k == [ranker[w] EXCEPT !.at = "poll"]
           r == ranker[w].round
<1>1. RankerOK(w) /\ ranker \in [Workers -> Rankers] /\ ranker[w] \in Rankers
      /\ file \in [Names -> [Workers -> Rounds \cup {Absent, Empty}]] /\ written \in [Rounds -> SUBSET Workers]
  BY DEF AllReduceInv, AllReduceTypeOK
<1>2. /\ k \in Rankers /\ k.at = "poll" /\ k.got = <<>> /\ k.round = r /\ r \in Rounds
      /\ Name(w) \in Names /\ Name(w) = StepName[r]
      /\ ranker' = [ranker EXCEPT ![w] = k] /\ written' = [written EXCEPT ![r] = written[r] \cup {w}]
      /\ file' = [file EXCEPT ![Name(w)][w] = r] /\ UNCHANGED <<returned, restarts>>
  BY <1>1 DEF WriteVector, Rankers, RankerOK, Name, Names
<1> HIDE DEF k, r
<1>3. /\ ranker'[w] = k /\ ranker' \in [Workers -> Rankers] /\ \A v \in Workers \ {w} : ranker'[v] = ranker[v]
      /\ file' \in [Names -> [Workers -> Rounds \cup {Absent, Empty}]]
      /\ written' \in [Rounds -> SUBSET Workers]
      /\ \A s \in Names, v \in Workers : v # w \/ s # Name(w) => file'[s][v] = file[s][v]
      /\ file'[Name(w)][w] = r /\ w \in written'[r]
      /\ \A q \in Rounds : written[q] \subseteq written'[q]
  BY <1>1, <1>2
<1>4. \A v \in Workers \ {w} : RankerOK(v)'
  BY <1>2, <1>3, OthersKeep
<1>5. Name(w)' = Name(w)
  BY <1>2, <1>3 DEF Name
<1>6. RankerOK(w)'
  BY <1>2, <1>3, <1>5 DEF RankerOK
<1>7. FilesOK'
  <2> SUFFICES ASSUME NEW s \in Names, NEW v \in Workers, file'[s][v] \in Rounds
               PROVE  StepName[file'[s][v]] = s /\ v \in written'[file'[s][v]]
    BY DEF FilesOK
  <2>1. CASE v = w /\ s = Name(w)
    BY <1>2, <1>3, <2>1
  <2>2. CASE v # w \/ s # Name(w)
    <3>1. file'[s][v] = file[s][v]
      BY <1>3, <2>2
    <3>2. StepName[file[s][v]] = s /\ v \in written[file[s][v]]
      BY <3>1 DEF FilesOK, AllReduceInv
    <3> QED BY <1>3, <3>1, <3>2
  <2> QED BY <2>1, <2>2
<1>8. ReturnedOK'
  BY <1>2, <1>3, ReturnsKeep DEF ReturnedOK, Belongs
<1>9. AllReduceTypeOK'
  BY <1>2, <1>3 DEF AllReduceInv, AllReduceTypeOK, Rankers
<1> QED BY <1>2, <1>3, <1>4, <1>6, <1>7, <1>8, <1>9 DEF AllReduceInv

\* What a call returns has a vector of each worker, as RankerOK says.
LEMMA ReturnAverageSteps == ASSUME AllReduceInv, NEW w \in Workers, ReturnAverage(w) PROVE AllReduceInv'
<1> USE AllReduceAssumption
<1> DEFINE r == ranker[w].round
           k == AtRound(r + 1)
           got == ranker[w].got
<1>1. RankerOK(w) /\ ranker \in [Workers -> Rankers] /\ ranker[w] \in Rankers
      /\ returned \in [Rounds -> [Workers -> Seq(Rounds)]]
  BY DEF AllReduceInv, AllReduceTypeOK
<1>2. /\ r \in Rounds /\ got \in Seq(Rounds) /\ Len(got) = N /\ ranker[w].at = "read"
      /\ \A v \in Workers : Belongs(got[v], v, r, w)
      /\ ranker' = [ranker EXCEPT ![w] = k] /\ returned' = [returned EXCEPT ![r][w] = got]
      /\ UNCHANGED <<file, written, restarts>>
  BY <1>1 DEF ReturnAverage, RankerOK, Rankers, Workers
<1>3. k \in Rankers /\ k.at = "begin" /\ k.got = <<>>
  BY <1>2 DEF AtRound, Rankers, Rounds
<1> HIDE DEF r, k, got
<1>4. /\ ranker'[w] = k /\ ranker' \in [Workers -> Rankers] /\ \A v \in Workers \ {w} : ranker'[v] = ranker[v]
      /\ returned' \in [Rounds -> [Workers -> Seq(Rounds)]]
      /\ returned'[r][w] = got
      /\ \A q \in Rounds, v \in Workers : q # r \/ v # w => returned'[q][v] = returned[q][v]
  BY <1>1, <1>2, <1>3
<1>5. \A v \in Workers \ {w} : RankerOK(v)'
  BY <1>2, <1>4, OthersKeep
<1>6. RankerOK(w)'
  BY <1>3, <1>4 DEF RankerOK
<1>7. FilesOK'
  BY <1>2 DEF FilesOK, AllReduceInv
<1>8. ReturnedOK'
  <2> SUFFICES ASSUME NEW q \in Rounds, NEW v \in Workers, returned'[q][v] # <<>>
               PROVE  Len(returned'[q][v]) = N /\ \A u \in Workers :
                        StepName[returned'[q][v][u]] = StepName[q] /\ u \in written[returned'[q][v][u]]
                        /\ (u = v => returned'[q][v][u] = q)
    BY <1>2 DEF ReturnedOK, Belongs
  <2>1. CASE q = r /\ v = w
    BY <1>2, <1>4, <2>1 DEF Belongs
  <2>2. CASE q # r \/ v # w
    <3>1. returned'[q][v] = returned[q][v]
      BY <1>4, <2>2
    <3>2. ReturnedOK
      BY DEF AllReduceInv
    <3> QED BY <3>1, <3>2 DEF ReturnedOK, Belongs
  <2> QED BY <2>1, <2>2
<1>9. AllReduceTypeOK'
  BY <1>2, <1>4 DEF AllReduceInv, AllReduceTypeOK, Rankers
<1> QED BY <1>2, <1>4, <1>5, <1>6, <1>7, <1>8, <1>9 DEF AllReduceInv

\* No step of a worker breaks the invariant.
LEMMA AllReduceInvNext == AllReduceInv /\ [AllReduceNext]_allreduceVars => AllReduceInv'
<1> SUFFICES ASSUME AllReduceInv, [AllReduceNext]_allreduceVars PROVE AllReduceInv'
  OBVIOUS
<1>1. CASE UNCHANGED allreduceVars
  <2>1. file' = file /\ ranker' = ranker /\ returned' = returned /\ written' = written /\ restarts' = restarts
    BY <1>1 DEF allreduceVars
  <2>2. AllReduceTypeOK' /\ FilesOK' /\ ReturnedOK'
    BY <2>1 DEF AllReduceInv, AllReduceTypeOK, FilesOK, ReturnedOK, Belongs
  <2>3. \A w \in Workers : RankerOK(w)'
    BY <2>1 DEF AllReduceInv, RankerOK, Belongs, Name
  <2> QED BY <2>1, <2>2, <2>3 DEF AllReduceInv
<1>2. ASSUME NEW w \in Workers, Launch(w) \/ Allreduce(w) \/ GiveUp(w) \/ StartAgain(w)
      PROVE  AllReduceInv'
  BY <1>2, RankersSteps, CreateFileSteps, WriteVectorSteps, ReturnAverageSteps DEF Allreduce
<1> QED BY <1>1, <1>2 DEF AllReduceNext

\* What a worker comes back with has a vector of each worker, its own of this
\* round, and none that was not written.
LEMMA AllReduceInvOneOfEach == AllReduceInv => AllReduceTypeOK /\ OneOfEach
  BY DEF AllReduceInv, ReturnedOK, OneOfEach, Belongs
-----------------------------------------------------------------------------
\* The state of the rendezvous.
Brought == [r \in Named |-> written[r]]
Result == [r \in Named |-> [w \in Workers |->
             {v \in Workers : returned[r][w] # <<>> /\ returned[r][w][v] = r}]]

\* The rendezvous begins with nobody there.
LEMMA RendezvousStarts == AllReduceInit => R!RendezvousInit
  BY DEF AllReduceInit, R!RendezvousInit, Named

\* Completing a file is an arrival, returning an average is a departure.
LEMMA RendezvousSteps ==
  AllReduceInv /\ [AllReduceNext]_allreduceVars => [R!RendezvousNext]_<<Brought, Result>>
<1> SUFFICES ASSUME AllReduceInv, [AllReduceNext]_allreduceVars
             PROVE  [R!RendezvousNext]_<<Brought, Result>>
  OBVIOUS
<1>0. Named \subseteq Rounds
  BY DEF Named
<1>1. CASE UNCHANGED <<written, returned>>
  BY <1>1 DEF Brought, Result
<1>2. ASSUME NEW w \in Workers, WriteVector(w)
      PROVE  [R!RendezvousNext]_<<Brought, Result>>
  <2> DEFINE r == ranker[w].round
  <2>1. r \in Rounds /\ written' = [written EXCEPT ![r] = written[r] \cup {w}] /\ returned' = returned
        /\ written \in [Rounds -> SUBSET Workers]
    BY <1>2 DEF WriteVector, AllReduceInv, AllReduceTypeOK, RankerOK
  <2> HIDE DEF r
  <2>2. Result' = Result
    BY <2>1 DEF Result
  <2>3. CASE r \in Named
    <3>1. Brought' = [Brought EXCEPT ![r] = Brought[r] \cup {w}]
      BY <1>0, <2>1, <2>3 DEF Brought
    <3> QED BY <2>2, <2>3, <3>1 DEF R!RendezvousNext, R!Bring, Brought, Result
  <2>4. CASE r \notin Named
    <3>1. Brought' = Brought
      BY <1>0, <2>1, <2>4 DEF Brought
    <3> QED BY <2>2, <3>1
  <2> QED BY <2>3, <2>4
<1>3. ASSUME NEW w \in Workers, ReturnAverage(w)
      PROVE  [R!RendezvousNext]_<<Brought, Result>>
  <2> DEFINE r == ranker[w].round
             got == ranker[w].got
  <2>0. RankerOK(w) /\ ranker[w] \in Rankers
    BY DEF AllReduceInv
  <2>1. /\ r \in Rounds /\ got \in Seq(Rounds) /\ Len(got) = N
        /\ \A v \in Workers : Belongs(got[v], v, r, w) /\ got[v] \in Rounds
        /\ returned \in [Rounds -> [Workers -> Seq(Rounds)]] /\ written \in [Rounds -> SUBSET Workers]
        /\ written' = written /\ returned' = [returned EXCEPT ![r][w] = got]
    <3>1. /\ ranker[w].at = "read" /\ Len(got) = N
          /\ written' = written /\ returned' = [returned EXCEPT ![r][w] = got]
          /\ returned \in [Rounds -> [Workers -> Seq(Rounds)]] /\ written \in [Rounds -> SUBSET Workers]
      BY <1>3 DEF ReturnAverage, AllReduceInv, AllReduceTypeOK
    <3>2. r \in Rounds /\ got \in Seq(Rounds)
      BY <2>0, <3>1 DEF RankerOK, Rankers
    <3>3. \A v \in Workers : Belongs(got[v], v, r, w)
      BY <2>0, <3>1 DEF RankerOK, Workers
    <3> HIDE DEF r, got
    <3>4. \A v \in Workers : got[v] \in Rounds
      BY <3>1, <3>2, AllReduceAssumption DEF Workers
    <3> QED BY <3>1, <3>2, <3>3, <3>4
  <2> HIDE DEF r, got
  <2>2. Brought' = Brought
    BY <2>1 DEF Brought
  <2>3. CASE r \in Named
    <3>1. \A v \in Workers : got[v] = r /\ v \in written[r]
      BY <2>1, <2>3 DEF Belongs, Named
    <3>2. Brought[r] = Workers
      BY <2>1, <2>3, <3>1 DEF Brought
    <3>3. got # <<>>
      BY <2>1, AllReduceAssumption
    <3>4. Result' = [Result EXCEPT ![r][w] = Workers]
      <4>1. \A q \in Named, v \in Workers : (q # r \/ v # w) => returned'[q][v] = returned[q][v]
        BY <1>0, <2>1
      <4>2. returned'[r][w] = got
        BY <2>1
      <4>3. \A q \in Named, v \in Workers :
              {u \in Workers : returned'[q][v] # <<>> /\ returned'[q][v][u] = q}
                = IF q = r /\ v = w THEN Workers
                  ELSE {u \in Workers : returned[q][v] # <<>> /\ returned[q][v][u] = q}
        BY <3>1, <3>3, <4>1, <4>2
      <4>4. Result' = [q \in Named |-> [v \in Workers |->
                         IF q = r /\ v = w THEN Workers ELSE Result[q][v]]]
        BY <4>3, Zenon DEF Result
      <4>5. Result \in [Named -> [Workers -> SUBSET Workers]]
        BY DEF Result
      <4> HIDE DEF Result
      <4> QED BY <4>4, <4>5, <2>3
    <3> QED BY <2>2, <2>3, <3>2, <3>4 DEF R!RendezvousNext, R!ComeBack, Brought, Result
  <2>4. CASE r \notin Named
    <3>1. \A q \in Named, v \in Workers : returned'[q][v] = returned[q][v]
      BY <1>0, <2>1, <2>4
    <3>2. Result' = Result
      BY <3>1 DEF Result
    <3> QED BY <2>2, <3>2
  <2> QED BY <2>3, <2>4
<1> QED BY <1>1, <1>2, <1>3 DEF AllReduceNext, Allreduce, Launch, CreateFile, Poll, ReadFile, GiveUp, StartAgain, allreduceVars

\* The averages are those of a rendezvous without any fairness.
LEMMA AveragesStayWhole == AllReduceInit /\ [][AllReduceNext]_allreduceVars => AveragesWhole
<1>1. AllReduceInit /\ [][AllReduceNext]_allreduceVars => []AllReduceInv
  BY AllReduceInvInit, AllReduceInvNext, PTL
<1>2. AllReduceInit /\ [][AllReduceNext]_allreduceVars => R!RendezvousSpec
  BY <1>1, RendezvousStarts, RendezvousSteps, PTL DEF R!RendezvousSpec, Brought, Result
<1> QED BY <1>1, <1>2, AllReduceInvOneOfEach, PTL DEF AveragesWhole, ImplementsRendezvous

\* An average takes one vector of each worker; under a name of its own a round is
\* a rendezvous: nobody comes back before all have brought theirs.
THEOREM AllReduceGivesRendezvous == AllReduceSpec => AveragesWhole
  BY AveragesStayWhole, PTL DEF AllReduceSpec
-----------------------------------------------------------------------------
(***************************************************************************)
(* Side by side.  A step of MCServices is a step of each service or leaves *)
(* it as it is.                                                            *)
(***************************************************************************)

\* Each service starts in its own initial state.
LEMMA ServicesStart ==
  MCInit => JobInit /\ LimiterInit /\ OrmInit /\ MigrationInit /\ AllReduceInit
  BY DEF MCInit

\* A step of the composition is, for each service, a step of its own or none.
LEMMA ServiceSteps ==
  [MCNext]_serviceVars =>
    /\ [JobNext]_jobVars /\ [LimiterNext]_limiterVars /\ [OrmNext]_ormVars
    /\ [MigrationNext]_migrationVars /\ [AllReduceNext]_allreduceVars
<1> SUFFICES ASSUME [MCNext]_serviceVars
             PROVE  /\ [JobNext]_jobVars /\ [LimiterNext]_limiterVars /\ [OrmNext]_ormVars
                    /\ [MigrationNext]_migrationVars /\ [AllReduceNext]_allreduceVars
  OBVIOUS
<1>1. JobNext \/ UNCHANGED jobVars
  BY DEF MCNext, serviceVars, Job
<1>2. LimiterNext \/ UNCHANGED limiterVars
  BY DEF MCNext, serviceVars, Limiter
<1>3. OrmNext \/ UNCHANGED ormVars
  BY DEF MCNext, serviceVars, Records
<1>4. MigrationNext \/ UNCHANGED migrationVars
  BY DEF MCNext, serviceVars, Migration
<1>5. AllReduceNext \/ UNCHANGED allreduceVars
  BY DEF MCNext, serviceVars, Reduce
<1> QED BY <1>1, <1>2, <1>3, <1>4, <1>5

\* What was admitted stays so: jobs in their queue, hits in their window,
\* migrations in their order, rows whole and with their objects, whatever runs
\* beside them.
THEOREM HistoriesAreKept == MCSpec => HistoryKept
<1>1. MCSpec => JobInit /\ [][JobNext]_jobVars
  BY ServicesStart, ServiceSteps, PTL DEF MCSpec
<1>2. MCSpec => LimiterInit /\ [][LimiterNext]_limiterVars
  BY ServicesStart, ServiceSteps, PTL DEF MCSpec
<1>3. MCSpec => OrmInit /\ [][OrmNext]_ormVars
  BY ServicesStart, ServiceSteps, PTL DEF MCSpec
<1>4. MCSpec => MigrationInit /\ [][MigrationNext]_migrationVars
  BY ServicesStart, ServiceSteps, PTL DEF MCSpec
<1>5. MCSpec => JobsKept
  BY <1>1, JobsStayKept, PTL
<1>6. MCSpec => LimitKept
  BY <1>2, LimitIsKept, PTL DEF LimiterSpec
<1>7. MCSpec => [](RowsWhole /\ SameRow)
  BY <1>3, RowsStayWhole, PTL
<1>8. MCSpec => MigrationsSettle
  BY <1>4, MigrationsAreSettled, PTL DEF MigrationSpec
<1> QED BY <1>5, <1>6, <1>7, <1>8, PTL DEF HistoryKept

\* Averages are those of a rendezvous, whatever else runs beside the allreduce.
THEOREM ServicesAverageWhole == MCSpec => AveragesWhole
<1>1. MCSpec => AllReduceInit /\ [][AllReduceNext]_allreduceVars
  BY ServicesStart, ServiceSteps, PTL DEF MCSpec
<1> QED BY <1>1, AveragesStayWhole, PTL
-----------------------------------------------------------------------------
(***************************************************************************)
(* The gossip flood (lowlevel_network.py).  A node has handled an event as *)
(* often as it has seen it: once or not at all.                            *)
(***************************************************************************)

\* What is under way was published, whoever published has seen it, and what a
\* node has handled it has seen, and handled once.
SeenOK ==
  /\ \A d \in flight : d.event \in published
  /\ \A e \in published : e \in seen[Origin[e]]
  /\ \A n \in GNodes, e \in Events :
       /\ handled[n][e] = 0 \/ (handled[n][e] = 1 /\ e \in seen[n])
       /\ Origin[e] = n => handled[n][e] = 0

GossipInv == GossipTypeOK /\ SeenOK

\* No event is seen or under way at first.
LEMMA GossipInvInit == GossipInit => GossipInv
<1> SUFFICES ASSUME GossipInit PROVE GossipInv
  OBVIOUS
<1>1. \A n \in GNodes, e \in Events : handled[n][e] = 0
  BY DEF GossipInit
<1>2. SeenOK
  BY <1>1 DEF GossipInit, SeenOK
<1>3. GossipTypeOK
  BY GossipAssumption DEF GossipInit, GossipTypeOK
<1> QED BY <1>2, <1>3 DEF GossipInv

\* What a node sends to its peers are datagrams of one event.
LEMMA SentAreDatagrams ==
  ASSUME NEW n \in GNodes, NEW ps \in SUBSET GNodes, NEW e \in Events
  PROVE  SentTo(n, ps, e) \subseteq Datagram /\ \A d \in SentTo(n, ps, e) : d.event = e
  BY DEF SentTo, Datagram

\* No delivery, loss or new event breaks the invariant.
LEMMA GossipSteps == GossipInv /\ [GossipNext]_gossipVars => GossipInv'
<1> SUFFICES ASSUME GossipInv, [GossipNext]_gossipVars PROVE GossipInv'
  OBVIOUS
<1> USE GossipAssumption
<1>1. ASSUME NEW e \in Events, Publish(e) PROVE GossipInv'
  <2>0. Origin[e] \in GNodes /\ gpeers[Origin[e]] \in SUBSET GNodes
    BY DEF GossipInv, GossipTypeOK
  <2> DEFINE sent == SentTo(Origin[e], gpeers[Origin[e]], e)
  <2>1. sent \subseteq Datagram /\ \A d \in sent : d.event = e
    BY <2>0, SentAreDatagrams
  <2>2. flight' = flight \cup sent /\ published' = published \cup {e} /\ seen' = [seen EXCEPT ![Origin[e]] = @ \cup {e}]
        /\ UNCHANGED <<gpeers, handled, loop>>
    BY <1>1 DEF Publish, OwnSeen
  <2> HIDE DEF sent
  <2>3. seen' \in [GNodes -> SUBSET Events] /\ e \in seen'[Origin[e]] /\ \A n \in GNodes : seen[n] \subseteq seen'[n]
    BY <2>0, <2>2 DEF GossipInv, GossipTypeOK
  <2>4. GossipTypeOK'
    BY <2>1, <2>2, <2>3 DEF GossipInv, GossipTypeOK
  <2>5. SeenOK'
    BY <2>1, <2>2, <2>3 DEF GossipInv, GossipTypeOK, SeenOK
  <2> QED BY <2>4, <2>5 DEF GossipInv
<1>2. ASSUME NEW d \in flight, Receive(d) PROVE GossipInv'
  <2>0. d.to \in GNodes /\ d.from \in GNodes /\ d.event \in Events /\ gpeers[d.to] \in SUBSET GNodes /\ d.event \in published
    BY DEF GossipInv, GossipTypeOK, Datagram, SeenOK
  <2>1. Onward(d) \subseteq Datagram /\ \A m \in Onward(d) : m.event = d.event
    BY <2>0, SentAreDatagrams DEF Onward
  <2>2. flight' \subseteq flight \cup Onward(d) /\ published' = published
        /\ gpeers' = [gpeers EXCEPT ![d.to] = @ \cup {d.from}]
        /\ seen' = [seen EXCEPT ![d.to] = @ \cup {d.event}]
    BY <1>2 DEF Receive
  <2>3. seen' \in [GNodes -> SUBSET Events] /\ d.event \in seen'[d.to] /\ \A n \in GNodes : seen[n] \subseteq seen'[n]
    BY <2>0, <2>2 DEF GossipInv, GossipTypeOK
  <2>4. gpeers' \in [GNodes -> SUBSET GNodes]
    BY <2>0, <2>2 DEF GossipInv, GossipTypeOK
  <2>5. loop' \in [GNodes -> BOOLEAN]
    BY <1>2 DEF GossipInv, GossipTypeOK, Receive
  <2>6. CASE Fresh(d)
    <3>1. d.event \notin seen[d.to]
      BY <2>6 DEF Fresh
    <3>2. handled[d.to][d.event] = 0 /\ Origin[d.event] # d.to
      BY <2>0, <3>1 DEF GossipInv, SeenOK
    <3>3. handled' = [handled EXCEPT ![d.to][d.event] = @ + 1]
      BY <1>2, <2>6 DEF Receive
    <3>4. handled' \in [GNodes -> [Events -> Nat]]
      BY <2>0, <3>3 DEF GossipInv, GossipTypeOK
    <3>5. \A n \in GNodes, e \in Events :
            handled'[n][e] = IF n = d.to /\ e = d.event THEN 1 ELSE handled[n][e]
      BY <2>0, <3>2, <3>3 DEF GossipInv, GossipTypeOK
    <3>6. GossipTypeOK'
      BY <2>1, <2>2, <2>3, <2>4, <2>5, <3>4 DEF GossipInv, GossipTypeOK
    <3>7. SeenOK'
      BY <2>0, <2>1, <2>2, <2>3, <3>2, <3>5 DEF GossipInv, GossipTypeOK, SeenOK
    <3> QED BY <3>6, <3>7 DEF GossipInv
  <2>7. CASE ~Fresh(d)
    <3>1. handled' = handled
      BY <1>2, <2>7 DEF Receive
    <3>2. GossipTypeOK'
      BY <2>1, <2>2, <2>3, <2>4, <2>5, <3>1 DEF GossipInv, GossipTypeOK
    <3>3. SeenOK'
      BY <2>0, <2>1, <2>2, <2>3, <3>1 DEF GossipInv, GossipTypeOK, SeenOK
    <3> QED BY <3>2, <3>3 DEF GossipInv
  <2> QED BY <2>6, <2>7
<1>3. ASSUME NEW d \in flight, Lose(d) PROVE GossipInv'
  BY <1>3 DEF Lose, GossipInv, GossipTypeOK, SeenOK
<1>4. ASSUME NEW n \in GNodes, Stop(n) PROVE GossipInv'
  BY <1>4 DEF Stop, GossipInv, GossipTypeOK, SeenOK
<1>5. CASE UNCHANGED gossipVars
  BY <1>5 DEF gossipVars, GossipInv, GossipTypeOK, SeenOK
<1> QED BY <1>1, <1>2, <1>3, <1>4, <1>5 DEF GossipNext

\* An event in the seen set once is handled once.
LEMMA GossipInvOnce == GossipInv => GossipTypeOK /\ HandledOnce
  BY DEF GossipInv, SeenOK, HandledOnce

\* A node handles an event once, by however many paths it arrives.
THEOREM FloodHandledOnce == GossipSpec => [](GossipTypeOK /\ HandledOnce)
<1>1. GossipSpec => []GossipInv
  BY GossipInvInit, GossipSteps, PTL DEF GossipSpec
<1> QED BY <1>1, GossipInvOnce, PTL
-----------------------------------------------------------------------------
(***************************************************************************)
(* Broadcasts of the TCP server (lowlevel_network.py).  A broadcast goes   *)
(* through a copy of the list, which stays true of the clients but for what*)
(* overlaps it.                                                            *)
(***************************************************************************)

CastRecord ==
  [at : {"idle", "send", "returned", "raised"}, copy : Seq(Clients), i : Nat,
   sent : SUBSET Clients, alone : BOOLEAN]

\* Values of the variables, and a client is listed once, after it is accepted.
ListTypes ==
  /\ listed \in Seq(Clients) /\ IsInjective(listed)
  /\ alive \subseteq accepted /\ accepted \subseteq Clients /\ pending \subseteq accepted
  /\ \A c \in pending : ~Contains(listed, c)
  /\ \A k \in 1 .. Len(listed) : listed[k] \in accepted
  /\ stopping \in {"no", "closed", "cleared"}
  /\ cast \in [Casters -> CastRecord]

\* A broadcast has dealt with every client of its copy that it is past.
Dealt(b, k) ==
  \/ cast[b].copy[k] \in cast[b].sent
  \/ cast[b].copy[k] \notin alive /\ ~Contains(listed, cast[b].copy[k])

CastOK(b) ==
  /\ cast[b].sent \subseteq Range(cast[b].copy)
  /\ IsInjective(cast[b].copy)
  /\ \A k \in 1 .. Len(cast[b].copy) : cast[b].copy[k] \in accepted \ pending
  /\ cast[b].at = "send" =>
       /\ cast[b].i \in 1 .. Len(cast[b].copy) + 1
       /\ \A k \in 1 .. cast[b].i - 1 : Dealt(b, k)
  /\ cast[b].at = "returned" => \A k \in 1 .. Len(cast[b].copy) : Dealt(b, k)
  /\ cast[b].at = "raised" => ~cast[b].alone

\* Nothing but its own turns changes the list while a broadcast runs alone.
AloneOK ==
  \A b \in Casters : cast[b].at = "send" /\ cast[b].alone =>
    /\ \A d \in Casters : cast[d].at = "send" => d = b
    /\ \A k \in cast[b].i .. Len(cast[b].copy) : Contains(listed, cast[b].copy[k])

TCPInv == ListTypes /\ (\A b \in Casters : CastOK(b)) /\ AloneOK

\* list.remove takes out one element of a list without duplicates and leaves the rest in order.
LEMMA RemovedFirst ==
  ASSUME NEW S, NEW s \in Seq(S), IsInjective(s), NEW k \in 1 .. Len(s)
  PROVE  /\ RemoveFirst(s, s[k]) \in Seq(S)
         /\ IsInjective(RemoveFirst(s, s[k]))
         /\ \A x : Contains(RemoveFirst(s, s[k]), x) <=> Contains(s, x) /\ x # s[k]
<1> DEFINE r == SubSeq(s, 1, k - 1) \o SubSeq(s, k + 1, Len(s))
<1>1. Len(s) \in Nat /\ DOMAIN s = 1 .. Len(s) /\ \A i \in 1 .. Len(s) : s[i] \in S
  OBVIOUS
<1>2. {i \in 1 .. Len(s) : s[i] = s[k]} = {k}
  BY <1>1 DEF IsInjective
<1>3. SelectInSeq(s, LAMBDA v : v = s[k]) = k
  <2>1. {k} # {} /\ Min({k}) = k
    BY <1>1 DEF Min
  <2> QED BY <1>2, <2>1 DEF SelectInSeq
<1>4. RemoveFirst(s, s[k]) = r
  BY <1>3 DEF RemoveFirst, RemoveAt
<1>14. Len(s) \in Nat /\ k \in Int /\ 1 <= k /\ k <= Len(s)
  BY <1>1
<1> DEFINE p == SubSeq(s, 1, k - 1)
           q == SubSeq(s, k + 1, Len(s))
<1>10. p \in Seq(S) /\ Len(p) = k - 1 /\ \A i \in 1 .. k - 1 : p[i] = s[i]
  BY <1>1, SubSeqProperties, Z3
<1>11. q \in Seq(S) /\ Len(q) = Len(s) - k /\ \A i \in 1 .. Len(s) - k : q[i] = s[i + k]
  <2>1. \A i \in k + 1 .. Len(s) : s[i] \in S
    BY <1>1
  <2>2. /\ q \in Seq(S)
        /\ Len(q) = IF k + 1 <= Len(s) THEN Len(s) - (k + 1) + 1 ELSE 0
        /\ \A i \in 1 .. Len(s) - (k + 1) + 1 : q[i] = s[k + 1 + i - 1]
    BY <1>1, <2>1, SubSeqProperties, Z3
  <2> HIDE DEF q
  <2>3. ASSUME NEW i \in 1 .. Len(s) - k PROVE q[i] = s[i + k]
    <3>1. i \in 1 .. Len(s) - (k + 1) + 1 /\ k + 1 + i - 1 = i + k
      BY <1>1
    <3>2. q[i] = s[k + 1 + i - 1]
      BY <2>2, <3>1, Zenon
    <3> QED BY <3>1, <3>2, Zenon
  <2>4. Len(q) = Len(s) - k
    <3>1. CASE k + 1 <= Len(s)
      <4>1. Len(q) = Len(s) - (k + 1) + 1
        BY <2>2, <3>1, Zenon
      <4> QED BY <1>1, <4>1
    <3>2. CASE ~(k + 1 <= Len(s))
      <4>1. Len(q) = 0
        BY <2>2, <3>2, Zenon
      <4>2. k = Len(s)
        BY <1>14, <3>2
      <4> QED BY <1>14, <4>1, <4>2
    <3> QED BY <3>1, <3>2
  <2> QED BY <2>2, <2>3, <2>4, Zenon
<1>12. r = p \o q
  OBVIOUS
<1> HIDE DEF p, q, r
<1>13. /\ p \o q \in Seq(S)
       /\ Len(p \o q) = Len(p) + Len(q)
       /\ \A i \in 1 .. Len(p) + Len(q) : (p \o q)[i] = IF i <= Len(p) THEN p[i] ELSE q[i - Len(p)]
  BY <1>10, <1>11, ConcatProperties
<1>5. r \in Seq(S) /\ Len(r) = Len(s) - 1
  BY <1>1, <1>10, <1>11, <1>12, <1>13
<1>6. ASSUME NEW i \in 1 .. Len(r) PROVE r[i] = IF i < k THEN s[i] ELSE s[i + 1]
  <2>1. r[i] = IF i < k THEN p[i] ELSE q[i - (k - 1)]
    BY <1>1, <1>5, <1>10, <1>11, <1>12, <1>13
  <2>2. CASE i < k
    BY <1>1, <1>10, <2>1, <2>2
  <2>3. CASE ~(i < k)
    <3>1. i - (k - 1) \in 1 .. Len(s) - k /\ i - (k - 1) + k = i + 1
      BY <1>1, <1>5, <2>3
    <3> QED BY <1>11, <2>1, <2>3, <3>1
  <2> QED BY <2>2, <2>3
<1>7. DOMAIN r = 1 .. Len(r)
  BY <1>5
<1>8. IsInjective(r)
  BY <1>1, <1>5, <1>6, <1>7 DEF IsInjective
<1>9. ASSUME NEW x PROVE Contains(r, x) <=> Contains(s, x) /\ x # s[k]
  <2>1. ASSUME Contains(r, x) PROVE Contains(s, x) /\ x # s[k]
    <3>1. PICK i \in 1 .. Len(r) : r[i] = x
      BY <2>1 DEF Contains
    <3>2. CASE i < k
      <4>1. i \in 1 .. Len(s) /\ s[i] = x /\ i # k
        BY <1>1, <1>5, <1>6, <3>1, <3>2
      <4> QED BY <1>1, <4>1 DEF Contains, IsInjective
    <3>3. CASE ~(i < k)
      <4>1. i + 1 \in 1 .. Len(s) /\ s[i + 1] = x /\ i + 1 # k
        BY <1>1, <1>5, <1>6, <3>1, <3>3
      <4> QED BY <1>1, <4>1 DEF Contains, IsInjective
    <3> QED BY <3>2, <3>3
  <2>2. ASSUME Contains(s, x), x # s[k] PROVE Contains(r, x)
    <3>1. PICK i \in 1 .. Len(s) : s[i] = x
      BY <2>2 DEF Contains
    <3>2. CASE i < k
      <4>1. i \in 1 .. Len(r) /\ r[i] = x
        BY <1>1, <1>5, <1>6, <3>1, <3>2
      <4> QED BY <4>1 DEF Contains
    <3>3. CASE i > k
      <4>1. i - 1 \in 1 .. Len(r) /\ r[i - 1] = x
        BY <1>1, <1>5, <1>6, <3>1, <3>3
      <4> QED BY <4>1 DEF Contains
    <3> QED BY <2>2, <3>1, <3>2, <3>3
  <2> QED BY <2>1, <2>2
<1> QED BY <1>4, <1>5, <1>8, <1>9

\* An appended element is in the list, and nothing else is new.
LEMMA ContainsAppended ==
  ASSUME NEW S, NEW s \in Seq(S), NEW c \in S
  PROVE  \A x : Contains(Append(s, c), x) <=> Contains(s, x) \/ x = c
<1> DEFINE r == Append(s, c)
<1>1. /\ Len(s) \in Nat /\ Len(r) = Len(s) + 1
      /\ \A i \in 1 .. Len(s) : r[i] = s[i]
      /\ r[Len(s) + 1] = c
  OBVIOUS
<1> HIDE DEF r
<1>2. ASSUME NEW x PROVE Contains(r, x) <=> Contains(s, x) \/ x = c
  BY <1>1 DEF Contains
<1> QED BY <1>2 DEF r

\* Nobody is connected at first.
LEMMA TCPInvInit == TCPInit => TCPInv
<1> SUFFICES ASSUME TCPInit PROVE TCPInv
  OBVIOUS
<1>1. NoCast \in CastRecord /\ NoCast.at = "idle" /\ NoCast.sent = {} /\ NoCast.copy = <<>>
  BY DEF NoCast, CastRecord
<1>2. \A b \in Casters : cast[b] = NoCast
  BY DEF TCPInit
<1>3. listed = <<>> /\ cast \in [Casters -> CastRecord]
  BY <1>1 DEF TCPInit
<1>4. ListTypes
  BY <1>3 DEF TCPInit, ListTypes, IsInjective
<1>5. \A b \in Casters : CastOK(b)
  BY <1>1, <1>2 DEF CastOK, IsInjective
<1>6. AloneOK
  BY <1>1, <1>2 DEF AloneOK
<1> QED BY <1>4, <1>5, <1>6 DEF TCPInv

\* What a step of others leaves of a broadcast.
LEMMA CastKept ==
  ASSUME NEW b \in Casters, CastOK(b), cast[b] \in CastRecord,
         cast'[b].copy = cast[b].copy, cast'[b].sent = cast[b].sent,
         cast'[b].at = cast[b].at, cast'[b].i = cast[b].i,
         cast[b].at = "raised" => cast'[b].alone = cast[b].alone,
         accepted \ pending \subseteq accepted' \ pending',
         \A x \in accepted \ pending : x \notin alive => x \notin alive',
         \A x \in accepted \ pending : ~Contains(listed, x) => ~Contains(listed', x)
  PROVE  CastOK(b)'
<1>1. Len(cast[b].copy) \in Nat /\ cast[b].i \in Nat
  BY DEF CastRecord
<1>2. ASSUME NEW k \in 1 .. Len(cast[b].copy), Dealt(b, k) PROVE Dealt(b, k)'
  <2> DEFINE x == cast[b].copy[k]
  <2>1. x \in accepted \ pending /\ cast'[b].copy[k] = x
    BY DEF CastOK
  <2>2. x \in cast[b].sent \/ (x \notin alive /\ ~Contains(listed, x))
    BY <1>2 DEF Dealt
  <2> HIDE DEF x
  <2>3. x \in cast'[b].sent \/ (x \notin alive' /\ ~Contains(listed', x))
    BY <2>1, <2>2
  <2> QED BY <2>1, <2>3 DEF Dealt
<1> QED BY <1>1, <1>2 DEF CastOK

\* A client that is accepted is listed once.
LEMMA AcceptSteps == TCPInv /\ (\E c \in Clients : Accept(c) \/ ListClient(c) \/ Drop(c)) => TCPInv'
<1>1. ASSUME TCPInv, NEW c \in Clients, Accept(c) PROVE TCPInv'
  <2>1. ListTypes'
    BY <1>1 DEF TCPInv, ListTypes, Accept, Contains, IsInjective
  <2>2. ASSUME NEW b \in Casters PROVE CastOK(b)'
    BY <1>1, <2>2, CastKept DEF TCPInv, ListTypes, Accept
  <2>3. AloneOK'
    BY <1>1 DEF TCPInv, AloneOK, Accept
  <2> QED BY <2>1, <2>2, <2>3 DEF TCPInv
<1>2. ASSUME TCPInv, NEW c \in Clients, ListClient(c) PROVE TCPInv'
  <2>0. listed' = Append(listed, c) /\ \A x : Contains(listed', x) <=> Contains(listed, x) \/ x = c
    BY <1>2, ContainsAppended DEF TCPInv, ListTypes, ListClient
  <2>1. ListTypes'
    <3>1. listed' \in Seq(Clients) /\ IsInjective(listed') /\ \A k \in 1 .. Len(listed') : listed'[k] \in accepted
      BY <1>2, <2>0 DEF TCPInv, ListTypes, ListClient, Contains, IsInjective
    <3> QED BY <1>2, <3>1 DEF TCPInv, ListTypes, ListClient
  <2>2. ASSUME NEW b \in Casters PROVE CastOK(b)'
    BY <1>2, <2>0, <2>2, CastKept DEF TCPInv, ListTypes, ListClient
  <2>3. AloneOK'
    BY <1>2, <2>0 DEF TCPInv, AloneOK, ListClient
  <2> QED BY <2>1, <2>2, <2>3 DEF TCPInv
<1>3. ASSUME TCPInv, NEW c \in Clients, Drop(c) PROVE TCPInv'
  <2>1. ListTypes'
    BY <1>3 DEF TCPInv, ListTypes, Drop, Contains, IsInjective
  <2>2. ASSUME NEW b \in Casters PROVE CastOK(b)'
    BY <1>3, <2>2, CastKept DEF TCPInv, ListTypes, Drop
  <2>3. AloneOK'
    BY <1>3 DEF TCPInv, AloneOK, Drop
  <2> QED BY <2>1, <2>2, <2>3 DEF TCPInv
<1> QED BY <1>1, <1>2, <1>3

\* Marking the broadcasts under way as overlapped changes nothing else of them.
LEMMA Overlapped ==
  ASSUME TCPInv, NEW b
  PROVE  /\ Overlap(b) \in [Casters -> CastRecord]
         /\ \A d \in Casters : /\ Overlap(b)[d].copy = cast[d].copy /\ Overlap(b)[d].sent = cast[d].sent
                               /\ Overlap(b)[d].at = cast[d].at /\ Overlap(b)[d].i = cast[d].i
                               /\ Overlap(b)[d].alone => cast[d].alone
         /\ \A d \in Casters : d # b /\ cast[d].at = "send" => ~Overlap(b)[d].alone
         /\ \A d \in Casters : cast[d].at # "send" => Overlap(b)[d] = cast[d]
<1>1. \A d \in Casters : cast[d] \in CastRecord
  BY DEF TCPInv, ListTypes
<1>2. \A a \in CastRecord :
        /\ [a EXCEPT !.alone = FALSE] \in CastRecord
        /\ [a EXCEPT !.alone = FALSE].copy = a.copy /\ [a EXCEPT !.alone = FALSE].sent = a.sent
        /\ [a EXCEPT !.alone = FALSE].at = a.at /\ [a EXCEPT !.alone = FALSE].i = a.i
        /\ ~[a EXCEPT !.alone = FALSE].alone
  BY DEF CastRecord
<1>3. Overlap(b) = [d \in Casters |-> IF d # b /\ cast[d].at = "send" THEN [cast[d] EXCEPT !.alone = FALSE] ELSE cast[d]]
  BY DEF Overlap, Running
<1>4. \A d \in Casters : Overlap(b)[d] = IF d # b /\ cast[d].at = "send" THEN [cast[d] EXCEPT !.alone = FALSE] ELSE cast[d]
  BY <1>3
<1>5. Overlap(b) \in [Casters -> CastRecord]
  <2>1. \A d \in Casters : (IF d # b /\ cast[d].at = "send" THEN [cast[d] EXCEPT !.alone = FALSE] ELSE cast[d]) \in CastRecord
    BY <1>1, <1>2
  <2> QED BY <1>3, <2>1
<1>6. ASSUME NEW d \in Casters
      PROVE  /\ Overlap(b)[d].copy = cast[d].copy /\ Overlap(b)[d].sent = cast[d].sent
             /\ Overlap(b)[d].at = cast[d].at /\ Overlap(b)[d].i = cast[d].i
             /\ Overlap(b)[d].alone => cast[d].alone
             /\ d # b /\ cast[d].at = "send" => ~Overlap(b)[d].alone
             /\ cast[d].at # "send" => Overlap(b)[d] = cast[d]
  <2>1. CASE d # b /\ cast[d].at = "send"
    <3>1. Overlap(b)[d] = [cast[d] EXCEPT !.alone = FALSE]
      BY <1>4, <2>1
    <3> QED BY <1>1, <1>2, <2>1, <3>1
  <2>2. CASE ~(d # b /\ cast[d].at = "send")
    <3>1. Overlap(b)[d] = cast[d]
      BY <1>4, <2>2
    <3> QED BY <2>2, <3>1
  <2> QED BY <2>1, <2>2
<1> QED BY <1>5, <1>6

\* The stop closes every socket and then clears the list.
LEMMA CloseSteps == TCPInv /\ (CloseAll \/ ClearList) => TCPInv'
<1>0. \A x : ~Contains(<<>>, x)
  BY DEF Contains
<1>1. ASSUME TCPInv, CloseAll \/ ClearList PROVE TCPInv'
  <2>1. /\ cast' = Overlap("stop") /\ alive' \subseteq alive /\ UNCHANGED <<accepted, pending>>
        /\ listed' = listed \/ listed' = <<>>
        /\ stopping' \in {"closed", "cleared"}
    BY <1>1 DEF CloseAll, ClearList
  <2>2. /\ cast' \in [Casters -> CastRecord]
        /\ \A d \in Casters : /\ cast'[d].copy = cast[d].copy /\ cast'[d].sent = cast[d].sent
                              /\ cast'[d].at = cast[d].at /\ cast'[d].i = cast[d].i
                              /\ cast[d].at = "send" => ~cast'[d].alone
                              /\ cast[d].at # "send" => cast'[d] = cast[d]
    BY <1>1, <2>1, Overlapped, CastersAssumption
  <2>3. ListTypes'
    <3>1. CASE listed' = listed
      BY <1>1, <2>1, <2>2, <3>1 DEF TCPInv, ListTypes, IsInjective, Contains
    <3>2. CASE listed' = <<>>
      <4>1. listed' \in Seq(Clients) /\ Len(listed') = 0 /\ IsInjective(listed') /\ \A x : ~Contains(listed', x)
        BY <1>0, <3>2 DEF IsInjective
      <4> QED BY <1>1, <2>1, <2>2, <4>1 DEF TCPInv, ListTypes
    <3> QED BY <2>1, <3>1, <3>2
  <2>4. \A x : ~Contains(listed, x) => ~Contains(listed', x)
    BY <1>0, <2>1
  <2>5. ASSUME NEW b \in Casters PROVE CastOK(b)'
    BY <1>1, <2>1, <2>2, <2>4, CastKept DEF TCPInv, ListTypes
  <2>6. AloneOK'
    BY <2>2 DEF AloneOK
  <2> QED BY <2>3, <2>5, <2>6 DEF TCPInv
<1> QED BY <1>1

\* A broadcast starts from a copy of the list.
LEMMA CopySteps == TCPInv /\ (\E b \in Casters : Copy(b)) => TCPInv'
<1>1. ASSUME TCPInv, NEW b \in Casters, Copy(b) PROVE TCPInv'
  <2> DEFINE fresh == [NoCast EXCEPT !.at = "send", !.copy = listed, !.i = 1,
                                     !.alone = \A d \in Casters \ {b} : ~Running(d)]
  <2>1. cast' = [Overlap(b) EXCEPT ![b] = fresh] /\ UNCHANGED <<listed, alive, accepted, pending, stopping>>
    BY <1>1 DEF Copy
  <2>2. /\ fresh.at = "send" /\ fresh.copy = listed /\ fresh.i = 1 /\ fresh.sent = {}
        /\ fresh.alone = (\A d \in Casters \ {b} : ~Running(d))
    BY DEF NoCast
  <2>3. fresh \in CastRecord
    <3>1. (\A d \in Casters \ {b} : ~Running(d)) \in BOOLEAN
      BY Zenon
    <3>2. listed \in Seq(Clients)
      BY <1>1 DEF TCPInv, ListTypes
    <3> QED BY <3>1, <3>2 DEF NoCast, CastRecord
  <2> HIDE DEF fresh
  <2>4. cast'[b] = fresh /\ cast' \in [Casters -> CastRecord] /\ \A d \in Casters \ {b} : cast'[d] = Overlap(b)[d]
    BY <1>1, <2>1, <2>3, Overlapped
  <2>5. \A d \in Casters \ {b} :
          /\ cast'[d].copy = cast[d].copy /\ cast'[d].sent = cast[d].sent
          /\ cast'[d].at = cast[d].at /\ cast'[d].i = cast[d].i
          /\ cast[d].at = "send" => ~cast'[d].alone
          /\ cast[d].at # "send" => cast'[d] = cast[d]
    BY <1>1, <2>4, Overlapped
  <2>6. ListTypes'
    BY <1>1, <2>1, <2>4 DEF TCPInv, ListTypes
  <2>7. CastOK(b)'
    <3>1. Len(listed) \in Nat /\ \A k \in 1 .. Len(listed) : listed[k] \in accepted \ pending
      BY <1>1 DEF TCPInv, ListTypes, Contains
    <3>2. cast'[b].at = "send" /\ cast'[b].copy = listed /\ cast'[b].i = 1 /\ cast'[b].sent = {}
      BY <2>2, <2>4
    <3>3. IsInjective(listed)
      BY <1>1 DEF TCPInv, ListTypes
    <3> QED BY <2>1, <3>1, <3>2, <3>3 DEF CastOK
  <2>8. ASSUME NEW d \in Casters \ {b} PROVE CastOK(d)'
    BY <1>1, <2>1, <2>5, <2>8, CastKept DEF TCPInv, ListTypes
  <2>9. AloneOK'
    <3>1. cast'[b].alone => \A d \in Casters \ {b} : ~Running(d)
      BY <2>2, <2>4
    <3>2. cast'[b].alone => \A d \in Casters : cast'[d].at = "send" => d = b
      BY <2>5, <3>1 DEF Running
    <3>3. \A k \in 1 .. Len(listed) : Contains(listed, listed[k])
      BY DEF Contains
    <3>4. \A k \in cast'[b].i .. Len(cast'[b].copy) : Contains(listed', cast'[b].copy[k])
      BY <2>1, <2>2, <2>4, <3>3
    <3> QED BY <2>5, <3>2, <3>4 DEF AloneOK
  <2> QED BY <2>6, <2>7, <2>8, <2>9 DEF TCPInv
<1> QED BY <1>1

\* One field of a call of broadcast changes.
LEMMA CastMoves ==
  ASSUME NEW b \in Casters, cast \in [Casters -> CastRecord], NEW n \in Nat, NEW c \in Clients
  PROVE  /\ [cast EXCEPT ![b].i = n] \in [Casters -> CastRecord]
         /\ [cast EXCEPT ![b].i = n, ![b].sent = @ \cup {c}] \in [Casters -> CastRecord]
<1>1. \A a \in CastRecord : [a EXCEPT !.i = n] \in CastRecord
  BY DEF CastRecord
<1>2. \A a \in CastRecord : a.sent \in SUBSET Clients
  BY DEF CastRecord
<1>3. \A a \in CastRecord : [[a EXCEPT !.i = n] EXCEPT !.sent = a.sent \cup {c}] \in CastRecord
  BY DEF CastRecord
<1>4. [cast EXCEPT ![b].i = n, ![b].sent = @ \cup {c}] \in [Casters -> CastRecord]
  BY DEF CastRecord
<1> QED BY <1>1, <1>4

\* A broadcast sends to the next client of its copy, or removes it.
LEMMA SendSteps == TCPInv /\ (\E b \in Casters : SendNext(b) \/ CastReturns(b)) => TCPInv'
<1>1. ASSUME TCPInv, NEW b \in Casters, CastReturns(b) PROVE TCPInv'
  <2>0. cast[b] \in CastRecord /\ cast[b].i \in Nat /\ Len(cast[b].copy) \in Nat
    BY <1>1 DEF TCPInv, ListTypes, CastRecord
  <2>1. /\ cast[b].at = "send" /\ cast[b].i > Len(cast[b].copy)
        /\ cast' = [cast EXCEPT ![b].at = "returned"]
        /\ UNCHANGED <<listed, alive, accepted, pending, stopping>>
    BY <1>1 DEF CastReturns, Running, Clientele
  <2>2. cast' \in [Casters -> CastRecord]
    BY <1>1, <2>1 DEF TCPInv, ListTypes, CastRecord
  <2>3. /\ cast'[b].at = "returned" /\ cast'[b].copy = cast[b].copy /\ cast'[b].sent = cast[b].sent
        /\ \A d \in Casters \ {b} : cast'[d] = cast[d]
    BY <1>1, <2>0, <2>1 DEF TCPInv, ListTypes, CastRecord
  <2>4. ListTypes'
    BY <1>1, <2>1, <2>2 DEF TCPInv, ListTypes
  <2>5. CastOK(b)'
    <3>1. \A k \in 1 .. Len(cast[b].copy) : Dealt(b, k)
      BY <1>1, <2>0, <2>1 DEF TCPInv, CastOK
    <3>2. \A k \in 1 .. Len(cast[b].copy) : Dealt(b, k)'
      BY <2>1, <2>3, <3>1 DEF Dealt
    <3> QED BY <1>1, <2>1, <2>3, <3>2 DEF TCPInv, CastOK
  <2>6. ASSUME NEW d \in Casters \ {b} PROVE CastOK(d)'
    BY <1>1, <2>1, <2>3, <2>6, CastKept DEF TCPInv, ListTypes
  <2>7. AloneOK'
    BY <1>1, <2>1, <2>3 DEF TCPInv, AloneOK
  <2> QED BY <2>4, <2>5, <2>6, <2>7 DEF TCPInv
<1>2. ASSUME TCPInv, NEW b \in Casters, SendNext(b) PROVE TCPInv'
  <2> DEFINE i == cast[b].i
             c == cast[b].copy[i]
  <2>0. cast[b] \in CastRecord /\ Len(cast[b].copy) \in Nat /\ i \in 1 .. Len(cast[b].copy)
        /\ cast[b].at = "send" /\ c \in Clients /\ c \in accepted \ pending
    <3>1. cast[b] \in CastRecord /\ cast[b].at = "send" /\ i <= Len(cast[b].copy) /\ CastOK(b)
      BY <1>2 DEF TCPInv, ListTypes, SendNext, Running, Clientele
    <3>2. cast[b].copy \in Seq(Clients) /\ Len(cast[b].copy) \in Nat
      BY <3>1 DEF CastRecord
    <3>3. i \in 1 .. Len(cast[b].copy)
      BY <3>1, <3>2 DEF CastOK
    <3> QED BY <3>1, <3>2, <3>3 DEF CastOK
  <2>1. UNCHANGED <<alive, accepted, pending, stopping>>
    BY <1>2 DEF SendNext
  <2>2. \A k \in 1 .. i - 1 : Dealt(b, k)
    BY <1>2, <2>0 DEF TCPInv, CastOK
  <2>3. CASE c \in alive
    <3>1. cast' = [cast EXCEPT ![b].i = @ + 1, ![b].sent = @ \cup {c}] /\ listed' = listed
      BY <1>2, <2>3 DEF SendNext, Clientele
    <3>2. cast' \in [Casters -> CastRecord]
      <4>1. cast \in [Casters -> CastRecord] /\ i + 1 \in Nat
        BY <1>2, <2>0 DEF TCPInv, ListTypes
      <4> QED BY <2>0, <3>1, <4>1, CastMoves
    <3>3. /\ cast'[b].at = "send" /\ cast'[b].copy = cast[b].copy /\ cast'[b].sent = cast[b].sent \cup {c}
          /\ cast'[b].i = i + 1 /\ cast'[b].alone = cast[b].alone
          /\ \A d \in Casters \ {b} : cast'[d] = cast[d]
      BY <1>2, <2>0, <3>1 DEF TCPInv, ListTypes, CastRecord
    <3>4. ListTypes'
      BY <1>2, <2>1, <3>1, <3>2 DEF TCPInv, ListTypes
    <3>5. ASSUME NEW k \in 1 .. i PROVE Dealt(b, k)'
      <4>1. CASE k = i
        BY <3>3, <4>1 DEF Dealt
      <4>2. CASE k # i
        <5> DEFINE x == cast[b].copy[k]
        <5>1. Dealt(b, k)
          BY <2>0, <2>2, <4>2
        <5>2. x \in cast[b].sent \/ (x \notin alive /\ ~Contains(listed, x))
          BY <5>1 DEF Dealt
        <5>3. cast'[b].copy[k] = x
          BY <3>3
        <5> HIDE DEF x
        <5>4. x \in cast'[b].sent \/ (x \notin alive' /\ ~Contains(listed', x))
          BY <2>1, <3>1, <3>3, <5>2
        <5> QED BY <5>3, <5>4 DEF Dealt
      <4> QED BY <4>1, <4>2
    <3>6. CastOK(b)'
      <4>1. cast'[b].i \in 1 .. Len(cast'[b].copy) + 1 /\ cast'[b].i - 1 = i
        BY <2>0, <3>3
      <4>2. cast'[b].sent \subseteq Range(cast'[b].copy)
        <5>1. cast[b].copy \in Seq(Clients)
          BY <2>0 DEF CastRecord
        <5>2. c \in Range(cast[b].copy) /\ cast[b].sent \subseteq Range(cast[b].copy)
          BY <1>2, <2>0, <5>1 DEF Range, TCPInv, CastOK
        <5> QED BY <3>3, <5>2
      <4> QED BY <1>2, <2>1, <3>3, <3>5, <4>1, <4>2 DEF TCPInv, CastOK
    <3>7. ASSUME NEW d \in Casters \ {b} PROVE CastOK(d)'
      BY <1>2, <2>1, <3>1, <3>3, <3>7, CastKept DEF TCPInv, ListTypes
    <3>8. AloneOK'
      <4>1. ASSUME cast[b].alone
            PROVE  /\ \A d \in Casters : cast[d].at = "send" => d = b
                   /\ \A k \in i + 1 .. Len(cast[b].copy) : Contains(listed, cast[b].copy[k])
        BY <1>2, <2>0, <4>1 DEF TCPInv, AloneOK
      <4>2. ASSUME NEW d \in Casters \ {b}, cast'[d].at = "send", cast'[d].alone PROVE FALSE
        <5>1. cast[d].at = "send" /\ cast[d].alone
          BY <3>3, <4>2
        <5> QED BY <1>2, <2>0, <5>1 DEF TCPInv, AloneOK
      <4>3. ASSUME cast'[b].alone
            PROVE  /\ \A d \in Casters : cast'[d].at = "send" => d = b
                   /\ \A k \in i + 1 .. Len(cast[b].copy) : Contains(listed', cast[b].copy[k])
        BY <3>1, <3>3, <4>1, <4>3
      <4> QED BY <3>3, <4>2, <4>3 DEF AloneOK
    <3> QED BY <3>4, <3>6, <3>7, <3>8 DEF TCPInv
  <2>4. CASE c \notin alive /\ Contains(listed, c)
    <3>1. cast' = [cast EXCEPT ![b].i = @ + 1] /\ listed' = RemoveFirst(listed, c)
      BY <1>2, <2>4 DEF SendNext, Clientele, Without
    <3>2. cast' \in [Casters -> CastRecord]
      <4>1. cast \in [Casters -> CastRecord] /\ i + 1 \in Nat
        BY <1>2, <2>0 DEF TCPInv, ListTypes
      <4> QED BY <2>0, <3>1, <4>1, CastMoves
    <3>3. /\ cast'[b].at = "send" /\ cast'[b].copy = cast[b].copy /\ cast'[b].sent = cast[b].sent
          /\ cast'[b].i = i + 1 /\ cast'[b].alone = cast[b].alone
          /\ \A d \in Casters \ {b} : cast'[d] = cast[d]
      BY <1>2, <2>0, <3>1 DEF TCPInv, ListTypes, CastRecord
    <3>4. /\ listed' \in Seq(Clients) /\ IsInjective(listed')
          /\ \A x : Contains(listed', x) <=> Contains(listed, x) /\ x # c
      <4>1. PICK k \in 1 .. Len(listed) : listed[k] = c
        BY <2>4 DEF Contains
      <4>2. listed \in Seq(Clients) /\ IsInjective(listed)
        BY <1>2 DEF TCPInv, ListTypes
      <4> QED BY <3>1, <4>1, <4>2, RemovedFirst
    <3>5. ListTypes'
      <4>1. \A k \in 1 .. Len(listed') : Contains(listed, listed'[k])
        BY <3>4 DEF Contains
      <4>2. \A k \in 1 .. Len(listed') : listed'[k] \in accepted
        BY <1>2, <4>1 DEF TCPInv, ListTypes, Contains
      <4> QED BY <1>2, <2>1, <3>2, <3>4, <4>2 DEF TCPInv, ListTypes
    <3>6. \A k \in 1 .. i : Dealt(b, k)'
      BY <2>0, <2>1, <2>2, <2>4, <3>3, <3>4 DEF Dealt
    <3>7. CastOK(b)'
      <4>1. cast'[b].i \in 1 .. Len(cast'[b].copy) + 1 /\ cast'[b].i - 1 = i
        BY <2>0, <3>3
      <4> QED BY <1>2, <2>1, <3>3, <3>6, <4>1 DEF TCPInv, CastOK
    <3>8. ASSUME NEW d \in Casters \ {b} PROVE CastOK(d)'
      BY <1>2, <2>1, <3>3, <3>4, <3>8, CastKept DEF TCPInv, ListTypes
    <3>9. AloneOK'
      <4>1. ASSUME cast[b].alone
            PROVE  /\ \A d \in Casters : cast[d].at = "send" => d = b
                   /\ \A k \in i + 1 .. Len(cast[b].copy) : Contains(listed', cast[b].copy[k])
        <5>1. /\ \A d \in Casters : cast[d].at = "send" => d = b
              /\ \A k \in i .. Len(cast[b].copy) : Contains(listed, cast[b].copy[k])
          BY <1>2, <2>0, <4>1 DEF TCPInv, AloneOK
        <5>2. \A k \in i + 1 .. Len(cast[b].copy) : cast[b].copy[k] # c
          <6>1. IsInjective(cast[b].copy) /\ DOMAIN cast[b].copy = 1 .. Len(cast[b].copy)
            BY <1>2, <2>0 DEF TCPInv, CastOK, CastRecord
          <6> QED BY <2>0, <6>1 DEF IsInjective
        <5> QED BY <2>0, <3>4, <5>1, <5>2
      <4>2. \A d \in Casters \ {b} : ~(cast'[d].at = "send" /\ cast'[d].alone)
        BY <1>2, <2>0, <3>3 DEF TCPInv, AloneOK
      <4> QED BY <3>3, <4>1, <4>2 DEF AloneOK
    <3> QED BY <3>5, <3>7, <3>8, <3>9 DEF TCPInv
  <2>5. CASE c \notin alive /\ ~Contains(listed, c)
    <3>1. cast' = [cast EXCEPT ![b].at = "raised"] /\ listed' = listed
      BY <1>2, <2>5 DEF SendNext, Clientele
    <3>2. cast' \in [Casters -> CastRecord]
      BY <1>2, <2>0, <3>1 DEF TCPInv, ListTypes, CastRecord
    <3>3. /\ cast'[b].at = "raised" /\ cast'[b].copy = cast[b].copy /\ cast'[b].sent = cast[b].sent
          /\ cast'[b].alone = cast[b].alone
          /\ \A d \in Casters \ {b} : cast'[d] = cast[d]
      BY <1>2, <2>0, <3>1 DEF TCPInv, ListTypes, CastRecord
    <3>4. ListTypes'
      BY <1>2, <2>1, <3>1, <3>2 DEF TCPInv, ListTypes
    <3>5. ~cast[b].alone
      BY <1>2, <2>0, <2>5 DEF TCPInv, AloneOK
    <3>6. CastOK(b)'
      BY <1>2, <2>1, <3>3, <3>5 DEF TCPInv, CastOK
    <3>7. ASSUME NEW d \in Casters \ {b} PROVE CastOK(d)'
      BY <1>2, <2>1, <3>1, <3>3, <3>7, CastKept DEF TCPInv, ListTypes
    <3>8. AloneOK'
      BY <1>2, <2>0, <3>1, <3>3 DEF TCPInv, AloneOK
    <3> QED BY <3>4, <3>6, <3>7, <3>8 DEF TCPInv
  <2> QED BY <2>3, <2>4, <2>5
<1> QED BY <1>1, <1>2

\* No step of the server breaks its invariant.
LEMMA TCPSteps == TCPInv /\ [TCPNext]_tcpVars => TCPInv'
<1>1. CASE UNCHANGED tcpVars
  BY <1>1 DEF tcpVars, TCPInv, ListTypes, CastOK, Dealt, AloneOK
<1> QED BY <1>1, AcceptSteps, CopySteps, SendSteps, CloseSteps DEF TCPNext

\* A broadcast that nobody overlapped has sent to every client of its copy that lives.
LEMMA TCPInvCasts == TCPInv => TCPTypeOK /\ CastComplete /\ RaisesOnlyOverlapped
<1> SUFFICES ASSUME TCPInv PROVE TCPTypeOK /\ CastComplete /\ RaisesOnlyOverlapped
  OBVIOUS
<1>1. TCPTypeOK
  BY DEF TCPInv, ListTypes, TCPTypeOK, CastRecord, CastOK
<1>2. CastComplete
  <2> SUFFICES ASSUME NEW b \in Casters, cast[b].at = "returned", NEW c \in Range(cast[b].copy) \ cast[b].sent
               PROVE  c \notin alive /\ ~Contains(listed, c)
    BY DEF CastComplete
  <2>1. cast[b].copy \in Seq(Clients)
    BY DEF TCPInv, ListTypes, CastRecord
  <2>2. PICK k \in 1 .. Len(cast[b].copy) : cast[b].copy[k] = c
    BY <2>1 DEF Range
  <2> QED BY <2>2 DEF TCPInv, CastOK, Dealt
<1>3. RaisesOnlyOverlapped
  BY DEF TCPInv, CastOK, RaisesOnlyOverlapped
<1> QED BY <1>1, <1>2, <1>3

\* A broadcast that runs alone reaches every live client on the list, and only overlapping ones raise.
THEOREM CastsReachTheListed == TCPSpec => [](TCPTypeOK /\ CastComplete /\ RaisesOnlyOverlapped)
<1>1. TCPSpec => []TCPInv
  BY TCPInvInit, TCPSteps, PTL DEF TCPSpec
<1> QED BY <1>1, TCPInvCasts, PTL
-----------------------------------------------------------------------------
(***************************************************************************)
(* The native WebSocket server.  The list of peers is walked under the     *)
(* lock, so that a peer on it is alive; the lock also keeps two broadcasts *)
(* apart, whatever connection their descriptors name by then.  And until a *)
(* peer is closed by another than its own thread, a thread's number names  *)
(* its own connection.                                                     *)
(***************************************************************************)

WSTypes ==
  /\ WSTypeOK
  /\ speaker \in [Speakers -> [at : WSPeers \cup {"idle", "walk", "done"}, part : {"check", "header", "payload"},
                              todo : SUBSET WSPeers]]
  /\ \A p \in WSPeers : thread[p] = "hang" => p \in Hangers

\* Who is in the list has a thread that has not unlinked it; and what stop still
\* has to sweep is in the list, which it holds for as long.
ListedAlive ==
  /\ \A p \in peers : thread[p] \notin {"none", "handshake", "freed"}
  /\ sweeping \subseteq peers
  /\ IF phase = "sweeping" THEN holder = "stop" ELSE sweeping = {}

\* Only the broadcast that holds the lock walks the list, and only over peers
\* that are in it.
LockedWalk ==
  \A b \in Speakers :
    /\ speaker[b].at \in {"idle", "done"} => speaker[b].todo = {}
    /\ speaker[b].at \notin {"idle", "done"} => holder = b /\ speaker[b].todo \subseteq peers
    /\ speaker[b].at \in WSPeers => speaker[b].at \in speaker[b].todo

\* A number names the connection that got it last, if that is open.
NumbersOK ==
  /\ \A n \in Numbers : names[n] # NoOne => fd[names[n]] = n /\ thread[names[n]] # "none"
  /\ \A p \in WSPeers : IF thread[p] = "none" THEN half[p] = NoOne ELSE fd[p] \in Numbers

\* A broadcast whose header waits for its payload in an open connection is about
\* to send it by the number of that connection.
HeadersOK ==
  \A c \in WSPeers : \A b \in Speakers :
    half[c] = b /\ fd[c] \in Numbers /\ names[fd[c]] = c =>
      speaker[b].at \in WSPeers /\ speaker[b].part = "payload" /\ fd[speaker[b].at] = fd[c]

\* Until some peer may be closed twice, the threads use their own connections.
OwnNumbers ==
  ~ClosedTwice =>
    /\ \A p \in WSPeers : thread[p] \in {"handshake", "listed", "loop", "reading", "echo", "echoing", "leaving"} =>
                           fd[p] \in Numbers /\ names[fd[p]] = p
    /\ \A c \in WSPeers : half[c] \in WSPeers => half[c] = c

WSInv == WSTypes /\ ListedAlive /\ LockedWalk /\ NumbersOK /\ HeadersOK /\ OwnNumbers

\* The names of threads, peers and states are different ones.
LEMMA WSNames ==
  /\ NoOne \notin Speakers /\ NoOne \notin WSPeers /\ Waiting \notin WSPeers /\ Exited \notin WSPeers
  /\ WSPeers \cap Speakers = {} /\ "walk" \notin WSPeers /\ "idle" \notin WSPeers /\ "done" \notin WSPeers
  /\ "stop" \notin Speakers /\ NoOne # "stop" /\ 0 \notin Numbers
  /\ Onwards \in {Waiting, Exited}
  BY WSAssumption DEF NoOne, Waiting, Exited, Onwards

\* The native server begins without peers.
LEMMA WSInvInit == WSInit => WSInv
<1> SUFFICES ASSUME WSInit PROVE WSInv
  OBVIOUS
<1> USE WSNames
<1>1. WSTypes
  BY DEF WSInit, WSTypes, WSTypeOK
<1>2. ListedAlive /\ LockedWalk
  BY DEF WSInit, ListedAlive, LockedWalk
<1>3. NumbersOK /\ HeadersOK /\ OwnNumbers
  BY DEF WSInit, NumbersOK, HeadersOK, OwnNumbers
<1> QED BY <1>1, <1>2, <1>3 DEF WSInv

\* Peers are listed, walked over, unlinked and freed under the lock alone; a
\* broadcast sends headers and payloads under it; a close frees a number.
LEMMA WSSteps == WSInv /\ [WSNext]_wsVars => WSInv'
<1> SUFFICES ASSUME WSInv, [WSNext]_wsVars PROVE WSInv'
  OBVIOUS
<1> USE WSNames DEF WSTypes, WSTypeOK, At, wsServer, wsFiles, WSInv, ListedAlive, LockedWalk, NumbersOK, HeadersOK,
                    OwnNumbers, ClosedTwice
<1> HIDE DEF NoOne, Waiting, Exited, Onwards
<1>1. ASSUME NEW p \in WSPeers, AcceptConnection(p) PROVE WSInv'
  BY <1>1 DEF AcceptConnection
<1>2. ASSUME AcceptFails PROVE WSInv'
  BY <1>2 DEF AcceptFails
<1>3. ASSUME NEW p \in WSPeers, Reject(p) PROVE WSInv'
  BY <1>3 DEF Reject, Close, Connection
<1>4. ASSUME NEW p \in WSPeers, Register(p) PROVE WSInv'
  BY <1>4 DEF Register
<1>5. ASSUME NEW p \in WSPeers, StartThread(p) PROVE WSInv'
  BY <1>5 DEF StartThread
<1>6. ASSUME NEW p \in WSPeers, DetachThread(p) PROVE WSInv'
  BY <1>6 DEF DetachThread
<1>7. ASSUME NEW p \in WSPeers, EnterLoop(p) PROVE WSInv'
  BY <1>7 DEF EnterLoop
<1>8. ASSUME NEW p \in WSPeers, ReadFrame(p) PROVE WSInv'
  BY <1>8 DEF ReadFrame, Connection
<1>9. ASSUME NEW p \in WSPeers, EchoHeader(p) PROVE WSInv'
  BY <1>9 DEF EchoHeader, Header, Connection
<1>10. ASSUME NEW p \in WSPeers, EchoPayload(p) PROVE WSInv'
  BY <1>10 DEF EchoPayload, Payload, Connection
<1>11. ASSUME NEW p \in WSPeers, EchoFails(p) PROVE WSInv'
  BY <1>11 DEF EchoFails
<1>12. ASSUME NEW p \in WSPeers, HangUp(p) PROVE WSInv'
  BY <1>12 DEF HangUp, Close, Connection
<1>13. ASSUME NEW p \in WSPeers, LeaveLoop(p) PROVE WSInv'
  BY <1>13 DEF LeaveLoop, Leaving
<1>14. ASSUME NEW p \in WSPeers, ReadFails(p) PROVE WSInv'
  BY <1>14 DEF ReadFails, Leaving
<1>15. ASSUME NEW p \in WSPeers, CloseSocket(p) PROVE WSInv'
  BY <1>15 DEF CloseSocket, Close, Connection
<1>16. ASSUME NEW p \in WSPeers, Unlink(p) PROVE WSInv'
  BY <1>16 DEF Unlink, MayUnlink
<1>17. ASSUME NEW b \in Speakers, LockList(b) PROVE WSInv'
  BY <1>17 DEF LockList, Locked
<1>18. ASSUME NEW b \in Speakers, NEW p \in WSPeers, SpeakTo(b, p) PROVE WSInv'
  BY <1>18 DEF SpeakTo, Passed
<1>19. ASSUME NEW b \in Speakers, NEW p \in WSPeers, SpeakHeader(b, p) PROVE WSInv'
  BY <1>19 DEF SpeakHeader, Header, Passed, Connection
<1>20. ASSUME NEW b \in Speakers, NEW p \in WSPeers, SpeakPayload(b, p) PROVE WSInv'
  BY <1>20 DEF SpeakPayload, Payload, Passed, Connection
<1>21. ASSUME NEW b \in Speakers, UnlockList(b) PROVE WSInv'
  BY <1>21 DEF UnlockList, Unlocked
<1>22. ASSUME ClearFlag PROVE WSInv'
  BY <1>22 DEF ClearFlag
<1>23. ASSUME LockSweep PROVE WSInv'
  BY <1>23 DEF LockSweep
<1>24. ASSUME NEW p \in WSPeers, Sweep(p) PROVE WSInv'
  BY <1>24 DEF Sweep, Close, Connection
<1>25. ASSUME UnlockSweep PROVE WSInv'
  BY <1>25 DEF UnlockSweep
<1>26. ASSUME FreeServer PROVE WSInv'
  BY <1>26 DEF FreeServer
<1>27. CASE UNCHANGED wsVars
  BY <1>27 DEF wsVars
<1> QED BY <1>1, <1>2, <1>3, <1>4, <1>5, <1>6, <1>7, <1>8, <1>9, <1>10, <1>11, <1>12, <1>13, <1>14, <1>15, <1>16,
           <1>17, <1>18, <1>19, <1>20, <1>21, <1>22, <1>23, <1>24, <1>25, <1>26, <1>27 DEF WSNext, PeerRuns, AcceptRuns, SpeakerRuns, StopRuns

\* So nobody walks over a freed peer, two broadcasts do not mix, and numbers are
\* one's own as long as nobody is closed twice.
LEMMA WSInvWhole == WSInv => WSTypeOK /\ NoFreedPeer /\ BroadcastsWhole /\ OnlyClosedTwice
<1> SUFFICES ASSUME WSInv PROVE WSTypeOK /\ NoFreedPeer /\ BroadcastsWhole /\ OnlyClosedTwice
  OBVIOUS
<1> USE WSNames
<1>1. WSTypeOK /\ NoFreedPeer
  BY DEF WSInv, WSTypes, WSTypeOK, ListedAlive, LockedWalk, NoFreedPeer
<1>2. BroadcastsWhole
  <2> SUFFICES ASSUME NEW b \in Speakers, NEW p \in WSPeers,
                      speaker[b].at = p, speaker[b].part = "header", Connection(p) # NoOne
               PROVE  /\ half[Connection(p)] \notin Speakers
                      /\ half[Connection(p)] \in {NoOne, Connection(p)} \/ ClosedTwice
    BY DEF BroadcastsWhole
  <2>1. p \in peers /\ fd[p] \in Numbers /\ holder = b
    BY DEF WSInv, ListedAlive, LockedWalk, NumbersOK
  <2>2. PICK c \in WSPeers : Connection(p) = c /\ fd[c] = fd[p] /\ names[fd[c]] = c
    BY <2>1 DEF WSInv, WSTypes, WSTypeOK, NumbersOK, Connection
  <2>3. half[c] \notin Speakers
    BY <2>1, <2>2 DEF WSInv, HeadersOK, LockedWalk
  <2>4. half[c] \in {NoOne, c} \/ ClosedTwice
    BY <2>3 DEF WSInv, WSTypes, WSTypeOK, OwnNumbers
  <2> QED BY <2>2, <2>3, <2>4
<1>3. OnlyClosedTwice
  BY DEF WSInv, OwnNumbers, OnlyClosedTwice, Connection
<1> QED BY <1>1, <1>2, <1>3
-----------------------------------------------------------------------------
(***************************************************************************)
(* The signaling server.  Who is in a room has an entry of its own there, and*)
(* a stop leaves none.                                                     *)
(***************************************************************************)

ConnRecord ==
  [at : {"out", "handshake", "turn", "receive", "index", "answer", "close", "unindex", "leave", "gone"},
   open : BOOLEAN, entry : Entries \cup {NoEntry}, last : Entries \cup {NoEntry}, joins : Nat]

\* Values of the variables.
RoomTypes ==
  /\ sockets \subseteq Conns /\ halt.left \subseteq Conns
  /\ conn \in [Conns -> ConnRecord]
  /\ table \in [Entries -> Conns \cup {Nobody}]
  /\ usedBy \in [Entries -> SUBSET Conns]
  /\ index \in [Conns -> Entries \cup {NoEntry}]
  /\ \A c \in Conns : conn[c].joins <= MaxJoins[c]

\* Whose the tables are: what a connection joined as last is what the index
\* has, but for the time between the two steps, and the table has no one else
\* there who was not there.
JoinsOK ==
  /\ \A e \in Entries : table[e] = Nobody \/ table[e] \in usedBy[e]
  /\ \A c \in Conns :
       /\ conn[c].last # NoEntry => c \in usedBy[conn[c].last]
       /\ conn[c].at \in {"out", "handshake"} => conn[c].last = NoEntry /\ index[c] = NoEntry
       /\ conn[c].at \in {"index", "leave"} => conn[c].entry = conn[c].last /\ conn[c].last # NoEntry
       /\ conn[c].at \in {"turn", "receive", "answer", "close", "unindex"} => index[c] = conn[c].last
       /\ conn[c].at \in {"leave", "gone"} => index[c] = NoEntry
       /\ conn[c].at \in {"out", "handshake", "unindex", "leave", "gone"} => c \notin sockets

\* A peer that one connection alone has ever joined as is that connection's
\* until its thread leaves the room.
OwnPeers ==
  \A c \in Conns : conn[c].last # NoEntry =>
    /\ conn[c].at = "gone" => table[conn[c].last] # c
    /\ conn[c].at \notin {"leave", "gone"} /\ usedBy[conn[c].last] = {c} => table[conn[c].last] = c

RoomInv == RoomTypes /\ JoinsOK /\ OwnPeers

\* None is neither a peer nor a connection.
LEMMA NoEntryIsNone == NoEntry \notin Entries /\ Nobody \notin Conns
  BY SignalingAssumption DEF NoEntry, Entries, Nobody

\* Rooms and index are empty at first.
LEMMA RoomInvInit == SignalInit => RoomInv
<1> SUFFICES ASSUME SignalInit PROVE RoomInv
  OBVIOUS
<1>0. NotYet \in ConnRecord /\ NotYet.at = "out" /\ NotYet.last = NoEntry /\ NotYet.joins = 0
  BY DEF NotYet, ConnRecord
<1>1. \A c \in Conns : conn[c] = NotYet /\ index[c] = NoEntry /\ MaxJoins[c] \in Nat
  BY SignalingAssumption DEF SignalInit
<1>2. \A e \in Entries : table[e] = Nobody /\ usedBy[e] = {}
  BY DEF SignalInit
<1>3. RoomTypes
  <2>1. conn \in [Conns -> ConnRecord] /\ \A c \in Conns : conn[c].joins <= MaxJoins[c]
    BY <1>0, <1>1 DEF SignalInit
  <2>2. sockets \subseteq Conns /\ halt.left \subseteq Conns
    BY DEF SignalInit
  <2>3. table \in [Entries -> Conns \cup {Nobody}] /\ usedBy \in [Entries -> SUBSET Conns]
        /\ index \in [Conns -> Entries \cup {NoEntry}]
    BY DEF SignalInit
  <2> QED BY <2>1, <2>2, <2>3 DEF RoomTypes
<1>4. JoinsOK /\ OwnPeers
  BY <1>0, <1>1, <1>2, NoEntryIsNone DEF JoinsOK, OwnPeers, SignalInit
<1> QED BY <1>3, <1>4 DEF RoomInv

\* A step of a thread changes the record of its own connection.
LEMMA ConnMoves ==
  ASSUME conn \in [Conns -> ConnRecord], NEW c \in Conns, NEW b \in BOOLEAN,
         NEW e \in Entries \cup {NoEntry},
         NEW x \in {"out", "handshake", "turn", "receive", "index", "answer", "close", "unindex", "leave", "gone"}
  PROVE  /\ [conn EXCEPT ![c].at = x] \in [Conns -> ConnRecord]
         /\ [conn EXCEPT ![c].open = b] \in [Conns -> ConnRecord]
         /\ [conn EXCEPT ![c].at = x, ![c].open = b] \in [Conns -> ConnRecord]
         /\ [conn EXCEPT ![c].at = x, ![c].entry = e] \in [Conns -> ConnRecord]
<1>1. /\ [conn EXCEPT ![c].at = x] \in [Conns -> ConnRecord]
      /\ [conn EXCEPT ![c].open = b] \in [Conns -> ConnRecord]
  BY DEF ConnRecord
<1>2. [conn EXCEPT ![c].at = x, ![c].open = b] \in [Conns -> ConnRecord]
  BY ZenonT(40) DEF ConnRecord
<1>3. [conn EXCEPT ![c].at = x, ![c].entry = e] \in [Conns -> ConnRecord]
  BY ZenonT(40) DEF ConnRecord
<1> QED BY <1>1, <1>2, <1>3

\* No join, leave or disconnect breaks the room invariant.
LEMMA RoomSteps == RoomInv /\ [SignalNext]_signalVars => RoomInv'
<1> SUFFICES ASSUME RoomInv, [SignalNext]_signalVars PROVE RoomInv'
  OBVIOUS
<1> USE NoEntryIsNone DEF RoomInv, RoomTypes, JoinsOK, OwnPeers, ConnRecord
<1> HIDE DEF NoEntry, Entries, Nobody
<1>1. ASSUME NEW c \in Conns, Connect(c) PROVE RoomInv'
  BY <1>1 DEF Connect
<1>2. ASSUME NEW c \in Conns, Handshake(c) PROVE RoomInv'
  <2>1. conn' \in [Conns -> ConnRecord]
    <3>1. CASE conn' = [conn EXCEPT ![c].at = "turn", ![c].open = TRUE]
      BY <3>1, ConnMoves
    <3>2. CASE conn' = [conn EXCEPT ![c].at = "gone"]
      BY <3>2, ConnMoves
    <3> QED BY <1>2, <3>1, <3>2 DEF Handshake
  <2>2. RoomTypes'
    BY <1>2, <2>1 DEF Handshake
  <2>3. JoinsOK'
    BY <1>2, <2>1 DEF Handshake
  <2>4. OwnPeers'
    BY <1>2, <2>1 DEF Handshake
  <2> QED BY <2>2, <2>3, <2>4
<1>3. ASSUME NEW c \in Conns, Turn(c) PROVE RoomInv'
  BY <1>3 DEF Turn
<1>4. ASSUME NEW c \in Conns, Hangup(c) PROVE RoomInv'
  <2>1. conn' \in [Conns -> ConnRecord]
    BY <1>4, ConnMoves DEF Hangup
  <2>2. RoomTypes'
    BY <1>4, <2>1 DEF Hangup
  <2>3. JoinsOK'
    BY <1>4, <2>1 DEF Hangup
  <2>4. OwnPeers'
    BY <1>4, <2>1 DEF Hangup
  <2> QED BY <2>2, <2>3, <2>4
<1>5. ASSUME NEW c \in Conns, ClosedBy(c) PROVE RoomInv'
  <2>1. conn' \in [Conns -> ConnRecord]
    BY <1>5, ConnMoves DEF ClosedBy
  <2>2. RoomTypes'
    BY <1>5, <2>1 DEF ClosedBy
  <2>3. JoinsOK'
    BY <1>5, <2>1 DEF ClosedBy
  <2>4. OwnPeers'
    BY <1>5, <2>1 DEF ClosedBy
  <2> QED BY <2>2, <2>3, <2>4
<1>6. ASSUME NEW c \in Conns, NEW e \in Entries, JoinRoom(c, e) PROVE RoomInv'
  BY <1>6, SignalingAssumption DEF JoinRoom
<1>7. ASSUME NEW c \in Conns, IndexPeer(c) PROVE RoomInv'
  BY <1>7 DEF IndexPeer, Indexed
<1>8. ASSUME NEW c \in Conns, Answer(c) PROVE RoomInv'
  BY <1>8 DEF Answer
<1>9. ASSUME NEW c \in Conns, NEW e \in Entries, Signal(c, e) PROVE RoomInv'
  BY <1>9 DEF Signal
<1>10. ASSUME NEW c \in Conns, Discard(c) PROVE RoomInv'
  <2>1. conn' \in [Conns -> ConnRecord]
    BY <1>10, ConnMoves DEF Discard
  <2>2. RoomTypes'
    BY <1>10, <2>1 DEF Discard
  <2>3. JoinsOK'
    BY <1>10, <2>1 DEF Discard
  <2>4. OwnPeers'
    BY <1>10, <2>1 DEF Discard
  <2> QED BY <2>2, <2>3, <2>4
<1>11. ASSUME NEW c \in Conns, Unindex(c) PROVE RoomInv'
  <2>1. conn' \in [Conns -> ConnRecord]
    <3>1. index[c] \in Entries \cup {NoEntry}
      OBVIOUS
    <3>2. CASE index[c] = NoEntry
      <4>1. conn' = [conn EXCEPT ![c].at = "gone", ![c].entry = index[c]]
        BY <1>11, <3>2 DEF Unindex
      <4> QED BY <3>1, <4>1, ConnMoves
    <3>3. CASE index[c] # NoEntry
      <4>1. conn' = [conn EXCEPT ![c].at = "leave", ![c].entry = index[c]]
        BY <1>11, <3>3 DEF Unindex
      <4> QED BY <3>1, <4>1, ConnMoves
    <3> QED BY <3>2, <3>3
  <2>2. RoomTypes'
    BY <1>11, <2>1 DEF Unindex
  <2>3. JoinsOK'
    BY <1>11, <2>1 DEF Unindex
  <2>4. OwnPeers'
    BY <1>11, <2>1 DEF Unindex
  <2> QED BY <2>2, <2>3, <2>4
<1>12. ASSUME NEW c \in Conns, LeaveRoom(c) PROVE RoomInv'
  BY <1>12 DEF LeaveRoom, Emptied
<1>13. ASSUME ClearRunning \/ ListClients \/ RunAgain PROVE RoomInv'
  BY <1>13 DEF ClearRunning, ListClients, RunAgain
<1>14. ASSUME CloseClient PROVE RoomInv'
  <2>0. PICK c \in halt.left : conn' = [conn EXCEPT ![c].open = FALSE] /\ halt' = [halt EXCEPT !.left = @ \ {c}]
    BY <1>14 DEF CloseClient
  <2>1. conn' \in [Conns -> ConnRecord]
    BY <2>0, ConnMoves
  <2>2. RoomTypes'
    BY <1>14, <2>0, <2>1 DEF CloseClient
  <2>3. JoinsOK'
    BY <1>14, <2>0, <2>1 DEF CloseClient
  <2>4. OwnPeers'
    BY <1>14, <2>0, <2>1 DEF CloseClient
  <2> QED BY <2>2, <2>3, <2>4
<1>15. CASE UNCHANGED signalVars
  BY <1>15 DEF signalVars
<1> QED BY <1>1, <1>2, <1>3, <1>4, <1>5, <1>6, <1>7, <1>8, <1>9, <1>10, <1>11, <1>12, <1>13, <1>14, <1>15
  DEF SignalNext, ConnRuns

\* The room invariant gives what the runs check.
LEMMA RoomInvFollows == RoomInv => RoomsFollow
<1> SUFFICES ASSUME RoomInv PROVE RoomsFollow
  OBVIOUS
<1>1. SignalTypeOK
  BY SignalingAssumption DEF SignalTypeOK, RoomInv, RoomTypes, ConnRecord, JoinsOK
<1>2. GoneLeaveNothing
  BY NoEntryIsNone DEF GoneLeaveNothing, RoomInv, RoomTypes, ConnRecord, JoinsOK, OwnPeers
<1>3. JoinedReachable
  BY DEF JoinedReachable, RoomInv, RoomTypes, ConnRecord, JoinsOK, OwnPeers
<1> QED BY <1>1, <1>2, <1>3 DEF RoomsFollow

\* Who has gone leaves nothing in rooms and index, and a peer whose id one socket
\* alone has used is reached through the room.
THEOREM SignalingKeepsRooms == SignalSpec => []RoomsFollow
<1>1. SignalSpec => []RoomInv
  BY RoomInvInit, RoomSteps, PTL DEF SignalSpec
<1> QED BY <1>1, RoomInvFollows, PTL
-----------------------------------------------------------------------------
(***************************************************************************)
(* The supervisor.  A height is bridged once by whoever has the lock.      *)
(***************************************************************************)

\* What a node run once has done so far, service by service.
OnceSoFar ==
  /\ main = "new" => mode = "none" /\ height = 0 /\ shown = 0
  /\ mode = "once" =>
       /\ main \in {"validate", "bridge", "stop", "shutdown", "await", "returned"}
       /\ main = "validate" => height = 0 /\ shown = 0
       /\ main = "bridge" => shown = 0
       /\ main # "validate" /\ "validator" \in enabled => height = 1
       /\ main \notin {"validate", "bridge"} /\ "beacon" \in enabled => shown = height

SupervisorInv == SupervisorTypeOK /\ OnceSoFar

\* No service has run at first.
LEMMA SupervisorInvInit == SupervisorInit => SupervisorInv
  BY SupervisorAssumption DEF SupervisorInit, SupervisorInv, SupervisorTypeOK, OnceSoFar

\* Only the main thread can use the node.
LEMMA LoopsCannot == \A t \in Loops : ~Usable(t)
  BY DEF Loops, Usable

\* No thread takes a turn of another, or two services at once.
LEMMA SupervisorSteps == SupervisorInv /\ [SupervisorNext]_supervisorVars => SupervisorInv'
<1> SUFFICES ASSUME SupervisorInv, [SupervisorNext]_supervisorVars PROVE SupervisorInv'
  OBVIOUS
<1> USE SupervisorAssumption DEF SupervisorInv, SupervisorTypeOK, OnceSoFar
<1>1. ASSUME Command PROVE SupervisorInv'
  BY <1>1 DEF Command
<1>2. ASSUME OnceValidator PROVE SupervisorInv'
  BY <1>2 DEF OnceValidator, ProducedBy, Usable
<1>3. ASSUME OnceBeacon PROVE SupervisorInv'
  BY <1>3 DEF OnceBeacon, BridgedBy, Usable
<1>4. ASSUME StartThreads PROVE SupervisorInv'
  BY <1>4 DEF StartThreads
<1>5. ASSUME StopEvent \/ Wake \/ Shutdown \/ Returned PROVE SupervisorInv'
  BY <1>5 DEF StopEvent, Wake, Shutdown, Returned
<1>6. ASSUME MakeServer \/ Serve \/ Request PROVE SupervisorInv'
  BY <1>6 DEF MakeServer, Serve, Request, Loops
<1>7. ASSUME NEW t \in Loops, CheckStop(t) \/ TakeLock(t) \/ Slept(t) PROVE SupervisorInv'
  BY <1>7 DEF CheckStop, TakeLock, Slept
<1>8. ASSUME NEW t \in Loops, Work(t) PROVE SupervisorInv'
  BY <1>8, LoopsCannot DEF Work, ProducedBy, BridgedBy
<1>9. CASE UNCHANGED supervisorVars
  BY <1>9 DEF supervisorVars
<1> QED BY <1>1, <1>2, <1>3, <1>4, <1>5, <1>6, <1>7, <1>8, <1>9 DEF SupervisorNext, MainRuns, LoopRuns

\* So --once with both services ends with one block made and that block bridged.
LEMMA SupervisorInvOnce == SupervisorInv => SupervisorTypeOK /\ OnceBridges
  BY DEF SupervisorInv, OnceSoFar, OnceBridges

\* --once with both services produces one block and bridges that block.
THEOREM OnceIsOnce == SupervisorSpec => [](SupervisorTypeOK /\ OnceBridges)
<1>1. SupervisorSpec => []SupervisorInv
  BY SupervisorInvInit, SupervisorSteps, PTL DEF SupervisorSpec
<1> QED BY <1>1, SupervisorInvOnce, PTL
-----------------------------------------------------------------------------
(***************************************************************************)
(* Side by side.  A step of MCServices is a step of each service or leaves *)
(* it as it is.                                                            *)
(***************************************************************************)

\* Each service starts in its own initial state.
LEMMA PeersStart ==
  MCInit => GossipInit /\ TCPInit /\ WSInit /\ SignalInit /\ SupervisorInit
  BY DEF MCInit

\* A step of the composition is, for each service, a step of its own or none.
LEMMA PeerSteps ==
  [MCNext]_serviceVars =>
    /\ [GossipNext]_gossipVars /\ [TCPNext]_tcpVars /\ [WSNext]_wsVars
    /\ [SignalNext]_signalVars /\ [SupervisorNext]_supervisorVars
<1> SUFFICES ASSUME [MCNext]_serviceVars
             PROVE  /\ [GossipNext]_gossipVars /\ [TCPNext]_tcpVars /\ [WSNext]_wsVars
                    /\ [SignalNext]_signalVars /\ [SupervisorNext]_supervisorVars
  OBVIOUS
<1>1. GossipNext \/ UNCHANGED gossipVars
  BY DEF MCNext, serviceVars, Gossip
<1>2. TCPNext \/ UNCHANGED tcpVars
  BY DEF MCNext, serviceVars, TCP
<1>3. WSNext \/ UNCHANGED wsVars
  BY DEF MCNext, serviceVars, Native
<1>4. SignalNext \/ UNCHANGED signalVars
  BY DEF MCNext, serviceVars, Signals
<1>5. SupervisorNext \/ UNCHANGED supervisorVars
  BY DEF MCNext, serviceVars, Supervise
<1> QED BY <1>1, <1>2, <1>3, <1>4, <1>5

\* What is sent arrives once and whole, or the sender learns of it.
THEOREM MessagesAreWhole == MCSpec => []MessagesWhole
<1>1. MCInit => GossipInv /\ TCPInv /\ WSInv
  BY PeersStart, GossipInvInit, TCPInvInit, WSInvInit
<1>2. (GossipInv /\ TCPInv /\ WSInv) /\ [MCNext]_serviceVars => (GossipInv /\ TCPInv /\ WSInv)'
  BY PeerSteps, GossipSteps, TCPSteps, WSSteps
<1>3. GossipInv /\ TCPInv /\ WSInv => MessagesWhole
  BY GossipInvOnce, TCPInvCasts, WSInvWhole DEF MessagesWhole
<1> QED BY <1>1, <1>2, <1>3, PTL DEF MCSpec

\* Rooms and their index agree with who is connected, and what is to be done
\* once is done once.
THEOREM RoomsAndTurnsKept == MCSpec => []RoomsAndTurns
<1>1. MCInit => RoomInv /\ SupervisorInv
  BY PeersStart, RoomInvInit, SupervisorInvInit
<1>2. (RoomInv /\ SupervisorInv) /\ [MCNext]_serviceVars => (RoomInv /\ SupervisorInv)'
  BY PeerSteps, RoomSteps, SupervisorSteps
<1>3. RoomInv /\ SupervisorInv => RoomsAndTurns
  BY RoomInvFollows, SupervisorInvOnce DEF RoomsAndTurns
<1> QED BY <1>1, <1>2, <1>3, PTL DEF MCSpec
=============================================================================
