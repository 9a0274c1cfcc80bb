--------------------------- MODULE MCChainNetwork ---------------------------
(***************************************************************************)
(* Three nodes; two transactions of "a" compete for nonce 0, a third has   *)
(* nonce 1.  The nodes are a devnet or connect one by one: one run serves  *)
(* both.                                                                   *)
(***************************************************************************)
EXTENDS ChainNetwork

VARIABLE devnet  \* are the nodes those of a Devnet?

MCNodes == {"n1", "n2", "n3"}
MCTxs == {"a0", "a0x", "a1"}
MCFrom == [t \in MCTxs |-> "a"]
MCNonce == [t \in MCTxs |-> IF t = "a1" THEN 1 ELSE 0]

MCInit == devnet \in BOOLEAN /\ IF devnet THEN DevnetInit ELSE Init

MCNext ==
  /\ IF devnet THEN DevnetNext ELSE Next
  /\ UNCHANGED devnet

MCSpec == MCInit /\ [][MCNext]_<<vars, devnet>>
-----------------------------------------------------------------------------
\* The nodes of a devnet have the same chain and the same pool after every
\* call.
DevnetAgreement == devnet => DevnetAgrees

\* "peer-to-peer sync" (docs/BLOCKCHAIN_FRAMEWORK_V19.md:3): a node that is
\* behind another has its chain after sync_from.
SyncCatchesUp ==
  [][\A n, m \in Nodes :
       /\ SyncFrom(n, m)
       /\ Len(chain[n]) < Len(chain[m])
       /\ chain[n] = SubSeq(chain[m], 1, Len(chain[n]))
       => chain'[n] = chain[m]]_vars
=============================================================================
