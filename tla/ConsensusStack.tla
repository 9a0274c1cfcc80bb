--------------------------- MODULE ConsensusStack ---------------------------
(***************************************************************************)
(* The consensus engines, the replica and the Ethereum clients side by     *)
(* side.  They share nothing: the node's engine decides on its own blocks, *)
(* the replica is a simulation, the clients are processes of their own.    *)
(***************************************************************************)
EXTENDS Proposers, EthereumStack

consensusVars == <<proposerVars, replicaVars, stackVars>>

ConsensusInit == ProposerInit /\ ReplicaInit /\ StackInit

ConsensusNext ==
  \/ ProposerNext /\ UNCHANGED <<replicaVars, stackVars>>
  \/ ReplicaSlot /\ UNCHANGED <<proposerVars, stackVars>>
  \/ StackNext /\ UNCHANGED <<proposerVars, replicaVars>>

ConsensusSpec == ConsensusInit /\ [][ConsensusNext]_consensusVars

\* Who proposes and who attests: the engines' proposers and branches, the duties
\* and the finality of the replica, and the clients of an Ethereum stack, which
\* have one secret and reach each other.
ConsensusSound == ProposersFair /\ ReplicaDuties /\ ReplicaFinality /\ StackTypeOK /\ OneSecret /\ StackUp
=============================================================================
