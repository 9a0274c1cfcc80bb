------------------------------ MODULE JobQueue ------------------------------
(***************************************************************************)
(* The background job queue of the web framework.  Request threads call    *)
(* start, enqueue and stop; nothing but the queue itself has a lock, so a  *)
(* call is a sequence of steps that other threads may come between.        *)
(***************************************************************************)
EXTENDS Integers, FiniteSets, Sequences

CONSTANTS
  Callers,      \* threads that call the queue
  Jobs,
  Exits,        \* jobs that may leave their thread (SystemExit is no Exception)
  PoolSize,     \* JobQueue(workers)
  MaxStops      \* bound: calls of stop

NoJob == "none"
None == "sentinel"   \* what stop puts for each thread

ASSUME JobAssumption ==
  /\ Exits \subseteq Jobs
  /\ Jobs \cap {NoJob, None, "idle", "exited", "died"} = {}
  /\ PoolSize \in Int
  /\ MaxStops \in Nat

VARIABLES
  started,
  fifo,         \* _queue
  threads,      \* _threads
  worker,       \* what each thread spawned so far is doing
  status,       \* of the jobs
  caller,
  stops,        \* calls of stop begun
  early         \* jobs put before any stop began

jobVars == <<started, fifo, threads, worker, status, caller, stops, early>>

Idle == [at |-> "idle", job |-> NoJob, left |-> 0, thread |-> 0, late |-> FALSE]

JobInit ==
  /\ started = FALSE
  /\ fifo = <<>> /\ threads = <<>> /\ worker = <<>>
  /\ status = [j \in Jobs |-> "new"]
  /\ caller = [c \in Callers |-> Idle]
  /\ stops = 0 /\ early = {}

ThreadCount == IF PoolSize > 1 THEN PoolSize ELSE 1

\* start() goes past its test
NeedsStart == ~started

\* Mutant of Listed: _threads has one slot per turn of the loop, so that a
\* second start writes over the first.
ListedOver(c) ==
  LET i == ThreadCount - caller[c].left + 1 IN
  IF i \in DOMAIN threads THEN [threads EXCEPT ![i] = caller[c].thread]
                          ELSE Append(threads, caller[c].thread)

\* _threads after append(t)
Listed(c) == Append(threads, caller[c].thread)

\* Mutant of Fed: what is put last is served first.
FedFirst(x) == <<x>> \o fifo

\* _queue after put(x)
Fed(x) == Append(fifo, x)

\* _queue after get()
Taken == Tail(fifo)

\* what a worker does after a job
After(outcome) == "idle"
-----------------------------------------------------------------------------
\* enqueue(j), or start() when j is NoJob, as far as the test of _started
Call(c, j) ==
  /\ caller[c] = Idle
  /\ j \in Jobs => status[j] = "new" /\ \A d \in Callers : caller[d].job # j
  /\ j = NoJob => NeedsStart
  /\ caller' = [caller EXCEPT ![c] =
                  [Idle EXCEPT !.job = j, !.at = IF NeedsStart THEN "start" ELSE "put"]]
  /\ UNCHANGED <<started, fifo, threads, worker, status, stops, early>>

SetStarted(c) ==
  /\ caller[c].at = "start"
  /\ started' = TRUE
  /\ caller' = [caller EXCEPT ![c].at = "spawn", ![c].left = ThreadCount]
  /\ UNCHANGED <<fifo, threads, worker, status, stops, early>>

\* t.start(): the thread may take jobs before _threads knows it
Spawn(c) ==
  /\ caller[c].at = "spawn"
  /\ worker' = Append(worker, "idle")
  /\ caller' = [caller EXCEPT ![c].at = "append", ![c].thread = Len(worker')]
  /\ UNCHANGED <<started, fifo, threads, status, stops, early>>

AppendThread(c) ==
  /\ caller[c].at = "append"
  /\ threads' = Listed(c)
  /\ caller' = IF caller[c].left > 1
               THEN [caller EXCEPT ![c].at = "spawn", ![c].left = @ - 1]
               ELSE [caller EXCEPT ![c] =
                       IF @.job = NoJob THEN Idle ELSE [@ EXCEPT !.at = "put", !.left = 0]]
  /\ UNCHANGED <<started, fifo, worker, status, stops, early>>

Put(c) ==
  /\ caller[c].at = "put"
  /\ fifo' = Fed(caller[c].job)
  /\ status' = [status EXCEPT ![caller[c].job] = "queued"]
  /\ early' = IF stops = 0 THEN early \cup {caller[c].job} ELSE early
  /\ caller' = [caller EXCEPT ![c] = Idle]
  /\ UNCHANGED <<started, threads, worker, stops>>
-----------------------------------------------------------------------------
StopBegins(c) ==
  /\ caller[c] = Idle
  /\ stops < MaxStops
  /\ stops' = stops + 1
  /\ caller' = [caller EXCEPT ![c].at = "stop"]
  /\ UNCHANGED <<started, fifo, threads, worker, status, early>>

\* one sentinel for each element of the list, which another thread may still
\* be filling
PutSentinels(c) ==
  /\ caller[c].at = "stop"
  /\ IF caller[c].left < Len(threads)
     THEN /\ fifo' = Fed(None)
          /\ caller' = [caller EXCEPT ![c].left = @ + 1]
     ELSE /\ caller' = [caller EXCEPT ![c].at = "join", ![c].left = 0]
          /\ UNCHANGED fifo
  /\ UNCHANGED <<started, threads, worker, status, stops, early>>

Gone(w) == worker[w] \in {"exited", "died"}

\* t.join(timeout=1.0): "late" is a join that timed out
Join(c) ==
  /\ caller[c].at = "join"
  /\ caller[c].left < Len(threads)
  /\ LET w == threads[caller[c].left + 1] IN
     caller' = [caller EXCEPT ![c].left = @ + 1, ![c].late = @ \/ ~Gone(w)]
  /\ UNCHANGED <<started, fifo, threads, worker, status, stops, early>>

StopReturns(c) ==
  /\ caller[c].at = "join"
  /\ caller[c].left >= Len(threads)
  /\ caller' = [caller EXCEPT ![c] = Idle]
  /\ UNCHANGED <<started, fifo, threads, worker, status, stops, early>>
-----------------------------------------------------------------------------
\* _queue.get() and "running"
Take(w) ==
  /\ worker[w] = "idle" /\ fifo # <<>>
  /\ fifo' = Taken
  /\ IF Head(fifo) = None
     THEN worker' = [worker EXCEPT ![w] = "exited"] /\ UNCHANGED status
     ELSE /\ worker' = [worker EXCEPT ![w] = Head(fifo)]
          /\ status' = [status EXCEPT ![Head(fifo)] = "running"]
  /\ UNCHANGED <<started, threads, caller, stops, early>>

\* the function returns, or raises an Exception
Finish(w) ==
  /\ worker[w] \in Jobs
  /\ \E outcome \in {"done", "failed"} :
       /\ status' = [status EXCEPT ![worker[w]] = outcome]
       /\ worker' = [worker EXCEPT ![w] = After(outcome)]
  /\ UNCHANGED <<started, fifo, threads, caller, stops, early>>

\* what is raised is no Exception: the thread ends, the job stays "running"
Leave(w) ==
  /\ worker[w] \in Exits
  /\ worker' = [worker EXCEPT ![w] = "died"]
  /\ UNCHANGED <<started, fifo, threads, status, caller, stops, early>>
-----------------------------------------------------------------------------
CallGoesOn(c) ==
  SetStarted(c) \/ Spawn(c) \/ AppendThread(c) \/ Put(c)
    \/ PutSentinels(c) \/ Join(c) \/ StopReturns(c)

WorkerRuns(w) == Take(w) \/ Finish(w) \/ Leave(w)

JobNext ==
  \/ \E c \in Callers :
       CallGoesOn(c) \/ StopBegins(c) \/ \E j \in Jobs \cup {NoJob} : Call(c, j)
  \/ \E w \in DOMAIN worker : WorkerRuns(w)

(***************************************************************************)
(* Callers and workers are scheduled.  Whether a job ends is up to its     *)
(* function.                                                               *)
(***************************************************************************)
JobFairness ==
  /\ \A c \in Callers : WF_jobVars(CallGoesOn(c))
  /\ \A w \in 1 .. ThreadCount * Cardinality(Callers) :
       WF_jobVars(w \in DOMAIN worker /\ Take(w))

JobSpec == JobInit /\ [][JobNext]_jobVars /\ JobFairness
-----------------------------------------------------------------------------
(***************************************************************************)
(* What callers of a job queue may rely on, and where that ends: at the    *)
(* first stop.                                                             *)
(***************************************************************************)

\* Types; a worker does nothing, a job, or nothing ever again.
JobTypeOK ==
  /\ started \in BOOLEAN /\ stops \in 0 .. MaxStops
  /\ fifo \in Seq(Jobs \cup {None})
  /\ worker \in Seq({"idle", "exited", "died"} \cup Jobs)
  /\ threads \in Seq(DOMAIN worker)
  /\ status \in [Jobs -> {"new", "queued", "running", "done", "failed"}]
  /\ early \subseteq Jobs
  /\ \A c \in Callers :
       /\ caller[c].at \in {"idle", "start", "spawn", "append", "put", "stop", "join"}
       /\ caller[c].job \in Jobs \cup {NoJob}

\* Every job that was put is in one place: once in the queue while "queued",
\* with one worker at most while "running", nowhere once it is "done" or
\* "failed"; however many threads two racing starts have made.
TakenOnce ==
  \A j \in Jobs :
    /\ Cardinality({i \in DOMAIN fifo : fifo[i] = j}) = IF status[j] = "queued" THEN 1 ELSE 0
    /\ Cardinality({w \in DOMAIN worker : worker[w] = j}) <= IF status[j] = "running" THEN 1 ELSE 0

\* A stop that joined every thread it found without a timeout has drained the
\* queue: the jobs put before any stop are finished, except one that a thread
\* not yet listed by a start still runs.
StopDrains ==
  \A c \in Callers :
    /\ caller[c].at = "join" /\ ~caller[c].late
    /\ caller[c].left > 0 /\ caller[c].left = Len(threads)
    /\ \A w \in DOMAIN worker : worker[w] # "died"
    => \A j \in early :
         \/ status[j] \in {"done", "failed"}
         \/ \E w \in DOMAIN worker : worker[w] = j /\ \A i \in DOMAIN threads : threads[i] # w

\* No job runs for ever.
JobsEnd ==
  \A w \in 1 .. ThreadCount * Cardinality(Callers) :
    []<>(w \in DOMAIN worker => worker[w] \notin Jobs)

\* If jobs end, a job put before the first stop leaves the queue, whatever stop
\* does afterwards, unless the jobs themselves have taken all its threads with them:
\* there is always a time to come when none of them waits.
EarlyServed ==
  JobsEnd =>
    []<>(\/ \A j \in early : status[j] \notin {"new", "queued"}
         \/ \A w \in DOMAIN worker : worker[w] = "died")

\* Once a queue is started and no start is under way, a stop ends all its
\* threads, those of a second start included, if jobs end.
StopEnds ==
  JobsEnd =>
    (/\ started
     /\ \A c \in Callers : caller[c].at \notin {"start", "spawn", "append"}
     /\ \E c \in Callers : caller[c].at = "stop" /\ caller[c].left = 0
     ~> \A w \in DOMAIN worker : Gone(w))

\* When all threads are gone nothing revives the queue: a job put after stop
\* stays "queued" for ever.
NoRevival ==
  [][/\ started /\ \A w \in DOMAIN worker : Gone(w)
     /\ \A c \in Callers : caller[c].at \notin {"start", "spawn", "append"}
     => \A j \in Jobs : status[j] = "queued" => status'[j] = "queued" /\ worker' = worker]_jobVars

\* A job is in one place, a stop that finds all its threads drains the queue,
\* and a queue whose threads are gone is not revived.
JobsKept == [](JobTypeOK /\ TakenOnce /\ StopDrains) /\ NoRevival
=============================================================================
