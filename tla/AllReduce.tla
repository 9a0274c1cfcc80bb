----------------------------- MODULE AllReduce -----------------------------
(***************************************************************************)
(* FileSystemAllReduceCoordinator.allreduce_average: workers that share a  *)
(* directory write one file each per step name, wait until as many files   *)
(* are there as workers, and read them.  A worker may be killed and start  *)
(* again from its first round; a step name may serve several rounds (the   *)
(* default name is "step").                                                *)
(*                                                                         *)
(* A file holds the number of the round its vector belongs to.  Renaming,  *)
(* creating and writing a file are steps of their own; a short write is    *)
(* one.                                                                    *)
(***************************************************************************)
EXTENDS Integers, Sequences

CONSTANTS
  N,            \* workers 1 .. N, in the order of their file names
  LastRound,
  StepName,     \* step name of each round
  MaxRestarts   \* bound: workers killed or failed that start again

Workers == 1 .. N
Rounds == 1 .. LastRound
Names == {StepName[r] : r \in Rounds}

ASSUME AllReduceAssumption == N \in Nat \ {0} /\ LastRound \in Nat /\ MaxRestarts \in Nat

Absent == -1
Empty == 0

VARIABLES
  file,         \* step directories
  ranker,       \* what each worker is doing
  returned,     \* per round and worker: what its last call came back with
  written,      \* per round: the workers that have written its vector
  restarts

allreduceVars == <<file, ranker, returned, written, restarts>>

AtRound(r) == [at |-> "begin", round |-> r, got |-> <<>>]
NotYetUp == [AtRound(1) EXCEPT !.at = "new"]

AllReduceInit ==
  /\ file = [s \in Names |-> [w \in Workers |-> Absent]]
  /\ ranker = [w \in Workers |-> NotYetUp]
  /\ returned = [r \in Rounds |-> [w \in Workers |-> <<>>]]
  /\ written = [r \in Rounds |-> {}]
  /\ restarts = 0
-----------------------------------------------------------------------------
Launch(w) ==
  /\ ranker[w].at = "new"
  /\ ranker' = [ranker EXCEPT ![w] = AtRound(1)]
  /\ UNCHANGED <<file, returned, written, restarts>>

\* Mutant of Name: the name of the step is left out of the path.
NameLess(w) == StepName[1]

\* the step directory of the round a worker is in
Name(w) == StepName[ranker[w].round]

\* open(..., "w"): the file is there and empty
CreateFile(w) ==
  /\ ranker[w].at = "begin" /\ ranker[w].round \in Rounds
  /\ file' = [file EXCEPT ![Name(w)][w] = Empty]
  /\ ranker' = [ranker EXCEPT ![w].at = "write"]
  /\ UNCHANGED <<returned, written, restarts>>

WriteVector(w) ==
  /\ ranker[w].at = "write"
  /\ file' = [file EXCEPT ![Name(w)][w] = ranker[w].round]
  /\ written' = [written EXCEPT ![ranker[w].round] = @ \cup {w}]
  /\ ranker' = [ranker EXCEPT ![w].at = "poll"]
  /\ UNCHANGED <<returned, restarts>>

\* len(files) >= workers: no file is ever removed
Complete(s) == \A w \in Workers : file[s][w] # Absent

Poll(w) ==
  /\ ranker[w].at = "poll"
  /\ Complete(Name(w))
  /\ ranker' = [ranker EXCEPT ![w].at = "read"]
  /\ UNCHANGED <<file, returned, written, restarts>>

\* the next of files[:workers]; an empty one is no JSON and raises
ReadFile(w) ==
  /\ ranker[w].at = "read" /\ Len(ranker[w].got) < N
  /\ LET content == file[Name(w)][Len(ranker[w].got) + 1] IN
     ranker' = IF content \in {Absent, Empty}
               THEN [ranker EXCEPT ![w].at = "failed"]
               ELSE [ranker EXCEPT ![w].got = Append(@, content)]
  /\ UNCHANGED <<file, returned, written, restarts>>

\* result.json is written by whoever is first; nobody reads it
ReturnAverage(w) ==
  /\ ranker[w].at = "read" /\ Len(ranker[w].got) = N
  /\ returned' = [returned EXCEPT ![ranker[w].round][w] = ranker[w].got]
  /\ ranker' = [ranker EXCEPT ![w] = AtRound(@.round + 1)]
  /\ UNCHANGED <<file, written, restarts>>

\* the deadline passes, or the process is killed
GiveUp(w) ==
  /\ ranker[w].at \in {"begin", "write", "poll", "read"} /\ ranker[w].round \in Rounds
  /\ ranker' = [ranker EXCEPT ![w].at = "failed"]
  /\ UNCHANGED <<file, returned, written, restarts>>

StartAgain(w) ==
  /\ ranker[w].at = "failed" /\ restarts < MaxRestarts
  /\ restarts' = restarts + 1
  /\ ranker' = [ranker EXCEPT ![w] = AtRound(1)]
  /\ UNCHANGED <<file, returned, written>>

Allreduce(w) ==
  CreateFile(w) \/ WriteVector(w) \/ Poll(w) \/ ReadFile(w) \/ ReturnAverage(w)

AllReduceNext == \E w \in Workers : Launch(w) \/ Allreduce(w) \/ GiveUp(w) \/ StartAgain(w)

\* a worker that runs and is not killed goes on
AllReduceFairness == \A w \in Workers : WF_allreduceVars(Allreduce(w))

AllReduceSpec == AllReduceInit /\ [][AllReduceNext]_allreduceVars /\ AllReduceFairness
-----------------------------------------------------------------------------
AllReduceTypeOK ==
  /\ file \in [Names -> [Workers -> Rounds \cup {Absent, Empty}]]
  /\ \A w \in Workers :
       /\ ranker[w].at \in {"new", "begin", "write", "poll", "read", "failed"}
       /\ ranker[w].round \in 1 .. LastRound + 1
       /\ ranker[w].got \in Seq(Rounds)
  /\ written \in [Rounds -> SUBSET Workers]
  /\ restarts \in 0 .. MaxRestarts

\* rounds whose step name is theirs alone
Named == {r \in Rounds : \A q \in Rounds : StepName[q] = StepName[r] => q = r}

(***************************************************************************)
(* With a step name per round, as the documented call has it (epoch and    *)
(* batch in the name), allreduce is a rendezvous, whatever restarts.       *)
(***************************************************************************)
R == INSTANCE Rendezvous WITH
       Rounds <- Named,
       brought <- [r \in Named |-> written[r]],
       result <- [r \in Named |-> [w \in Workers |->
                    {v \in Workers : returned[r][w] # <<>> /\ returned[r][w][v] = r}]]

ImplementsRendezvous == R!RendezvousSpec

\* Under a name that serves several rounds an average still has one vector of
\* each worker, its own of this round, and none of a round that its worker has
\* not written; only that the others' are of this round is no longer so.
OneOfEach ==
  \A r \in Rounds, w \in Workers :
    returned[r][w] # <<>> =>
      /\ returned[r][w][w] = r
      /\ \A v \in Workers : /\ StepName[returned[r][w][v]] = StepName[r]
                            /\ v \in written[returned[r][w][v]]

\* Once all are up, whenever each started, everybody comes back from every
\* round, if nobody is killed, runs out of time or meets a file just being
\* written.
AllReturn ==
  (\A w \in Workers : ranker[w].at # "new") ~>
    \/ \E w \in Workers : ranker[w].at = "failed"
    \/ \A w \in Workers : ranker[w].round > LastRound
\* Averages take one vector of each worker, and under a name of its own those
\* of this round: what a rendezvous gives.
AveragesWhole == [](AllReduceTypeOK /\ OneOfEach) /\ ImplementsRendezvous
=============================================================================
