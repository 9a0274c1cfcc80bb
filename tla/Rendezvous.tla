----------------------------- MODULE Rendezvous -----------------------------
(***************************************************************************)
(* What a step of a distributed run asks of its allreduce: nobody comes    *)
(* back from a round before everybody has brought a vector to it, and each *)
(* comes back with the vectors of all.                                     *)
(***************************************************************************)
CONSTANTS Workers, Rounds

VARIABLES
  brought,   \* per round: the workers that have brought their vector
  result     \* per round and worker: whose vectors it came back with, last time

TypeInvariant ==
  /\ brought \in [Rounds -> SUBSET Workers]
  /\ result \in [Rounds -> [Workers -> SUBSET Workers]]

RendezvousInit ==
  /\ brought = [r \in Rounds |-> {}]
  /\ result = [r \in Rounds |-> [w \in Workers |-> {}]]

Bring(w, r) ==
  /\ brought' = [brought EXCEPT ![r] = @ \cup {w}]
  /\ UNCHANGED result

ComeBack(w, r) ==
  /\ brought[r] = Workers
  /\ result' = [result EXCEPT ![r][w] = Workers]
  /\ UNCHANGED brought

RendezvousNext == \E w \in Workers, r \in Rounds : Bring(w, r) \/ ComeBack(w, r)

RendezvousSpec == RendezvousInit /\ [][RendezvousNext]_<<brought, result>>
=============================================================================
