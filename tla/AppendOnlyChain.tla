-------------------------- MODULE AppendOnlyChain --------------------------
(***************************************************************************)
(* What the canonical chain of a node promises to everyone who reads it:   *)
(* it starts at genesis and grows at its tip, one block at a time; a block *)
(* that was canonical once stays canonical, crash or no crash.             *)
(***************************************************************************)
CONSTANTS Blocks, Genesis, Parent, Chain

VARIABLE log   \* the blocks of the canonical chain

LogInit == log = {}

Create == log = {} /\ log' = {Genesis}

Append(b) ==
  /\ log = Chain[Parent[b]]
  /\ log' = log \cup {b}

LogNext == Create \/ \E b \in Blocks \ {Genesis} : Append(b)

LogSpec == LogInit /\ [][LogNext]_log
=============================================================================
