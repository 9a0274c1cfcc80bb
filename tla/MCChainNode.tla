---------------------------- MODULE MCChainNode ----------------------------
(***************************************************************************)
(* Eight blocks in three generations.  o1 and o2 are the node's own, the   *)
(* others its peers'; three compete at height 1, so a crash can leave one  *)
(* or two siblings behind.  q1 is empty, o1 and p1 only move balances and  *)
(* nonces, p2 deploys a contract.                                          *)
(***************************************************************************)
EXTENDS ChainNode

MCBlocks == {"g", "o1", "p1", "q1", "o2", "p2", "r2", "p3"}
MCParent == [b \in MCBlocks \ {"g"} |->
               CASE b \in {"o1", "p1", "q1"} -> "g"
                 [] b \in {"o2", "p2"} -> "p1"
                 [] b = "r2" -> "o1"
                 [] b = "p3" -> "p2"]
MCHeight == [b \in MCBlocks |-> CASE b = "g" -> 0
                                  [] b \in {"o1", "p1", "q1"} -> 1
                                  [] b \in {"o2", "p2", "r2"} -> 2
                                  [] b = "p3" -> 3]
MCChain == [b \in MCBlocks |-> CASE b = "g" -> {"g"}
                                 [] b \in {"o1", "p1", "q1"} -> {"g", b}
                                 [] b \in {"o2", "p2"} -> {"g", "p1", b}
                                 [] b = "r2" -> {"g", "o1", "r2"}
                                 [] b = "p3" -> {"g", "p1", "p2", "p3"}]
\* two validators with stakes 2 and 1; genesis is nobody's
MCStake == [b \in MCBlocks |-> CASE b = "g" -> 0
                                 [] b \in {"o1", "o2"} -> 2
                                 [] OTHER -> 1]
MCHashOrder == [b \in MCBlocks |-> CASE b = "g" -> 0 [] b = "o1" -> 4 [] b = "p1" -> 2
                                     [] b = "q1" -> 3 [] b = "o2" -> 6 [] b = "p2" -> 5
                                     [] b = "r2" -> 1 [] b = "p3" -> 7]
MCOwn == {"o1", "o2"}
MCEffect == [b \in MCBlocks |-> CASE b = "g" -> {"balances"}
                                  [] b = "q1" -> {}
                                  [] b = "p2" -> {"contracts", "nonces"}
                                  [] OTHER -> {"balances", "nonces"}]
-----------------------------------------------------------------------------
\* A second node, whose peers may send it a block again.
VARIABLES again, stored2, canonical2, finalized2, kv2, at2, importing2, wrote2, settled2
vars2 == <<stored2, canonical2, finalized2, kv2, at2, importing2, wrote2, settled2>>
Again ==
  INSTANCE ChainNode WITH stored <- stored2, canonical <- canonical2, finalized <- finalized2, kv <- kv2,
                               at <- at2, importing <- importing2, wrote <- wrote2, settled <- settled2

\* One of the two nodes runs.
MCInit == Init /\ Again!Init /\ again \in BOOLEAN
MCNext ==
  /\ UNCHANGED again
  /\ \/ ~again /\ Next /\ UNCHANGED vars2
     \/ again /\ Again!DupNext /\ UNCHANGED vars
MCSpec == MCInit /\ [][MCNext]_<<again, vars, vars2>>

\* Blocks delivered again, and crashes while one is imported again, change
\* nothing that the next completed import does not set right.
AtRestAgain == Again!AtRest
=============================================================================
