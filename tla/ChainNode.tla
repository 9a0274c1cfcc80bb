----------------------------- MODULE ChainNode -----------------------------
(***************************************************************************)
(* The chain of one BlockchainNode in its SQLite file, one commit at a     *)
(* time.  import_block is not one transaction: put_block, the canonical    *)
(* flags and each of the three state keys are committed separately, and    *)
(* the process may die after any of them.  What survives is the file;      *)
(* _ensure_genesis is all the recovery there is.                           *)
(*                                                                         *)
(* A block is immutable and names its parent by hash, so the tree of       *)
(* blocks honest producers may build is a constant; the node learns it     *)
(* block by block.                                                         *)
(***************************************************************************)
EXTENDS Integers, FiniteSets

CONSTANTS
  Blocks,         \* blocks honest nodes may build, Genesis included
  Genesis,
  Parent,         \* Parent[b], for every block but Genesis
  Chain,          \* Chain[b]: b and its ancestors
  Height,         \* Height[b]
  Stake,          \* Stake[b]: stake of the proposer of b
  TotalStake,     \* max(1, total_stake())
  HashOrder,      \* HashOrder[b]: place of b's hash among all hashes
  Own,            \* blocks this node may build; the others come from peers
  Effect,         \* Effect[b]: state keys b's successful transactions change
  FinalityDepth   \* max(0, config.finality_depth)

\* _rebuild_canonical_state commits the state keys in this order
Keys == {"balances", "contracts", "nonces"}
KeyAt == [i \in 1..3 |-> CASE i = 1 -> "balances" [] i = 2 -> "contracts" [] i = 3 -> "nonces"]

ASSUME TreeAssumption ==
  /\ Genesis \in Blocks
  /\ Parent \in [Blocks \ {Genesis} -> Blocks]
  /\ Chain \in [Blocks -> SUBSET Blocks]
  /\ Chain[Genesis] = {Genesis}
  /\ \A b \in Blocks \ {Genesis} : Chain[b] = Chain[Parent[b]] \cup {b}
  /\ Height \in [Blocks -> Nat]
  /\ Height[Genesis] = 0
  /\ \A b \in Blocks \ {Genesis} : Height[b] = Height[Parent[b]] + 1

ASSUME ScoreAssumption ==
  /\ TotalStake \in Nat \ {0}
  /\ Stake \in [Blocks -> 0 .. TotalStake]
  /\ HashOrder \in [Blocks -> Nat]
  /\ \A b, c \in Blocks : HashOrder[b] = HashOrder[c] => b = c

ASSUME NodeAssumption ==
  /\ Own \subseteq Blocks \ {Genesis}
  /\ Effect \in [Blocks -> SUBSET Keys]
  /\ FinalityDepth \in Nat

VARIABLES
  stored,     \* hashes in table blocks
  canonical,  \* rows with canonical = 1
  finalized,  \* rows with finalized = 1
  kv,         \* table state: per key, the blocks whose effects it reflects
  at,         \* what the process commits next; "down" when it is not running
  importing,  \* the block being imported, or Genesis when none is
  wrote,      \* state keys committed so far by the running import
  settled     \* an import (or genesis) has completed since the last start

disk == <<stored, canonical, finalized, kv>>
vars == <<stored, canonical, finalized, kv, at, importing, wrote, settled>>

Init ==
  /\ stored = {} /\ canonical = {} /\ finalized = {}
  /\ kv = [k \in Keys |-> {}]
  /\ at = "down" /\ importing = Genesis /\ wrote = 0 /\ settled = FALSE
-----------------------------------------------------------------------------
(***************************************************************************)
(* Consensus order: block_score, then height, then hash (apply_fork_choice *)
(* takes the max over the stored blocks no stored block has as parent).    *)
(***************************************************************************)
Score(b) == Height[b] * TotalStake + Stake[b]

\* Mutant of Better: the order the keys are written in is reversed.
BetterByHash(b, c) ==
  \/ HashOrder[b] > HashOrder[c]
  \/ HashOrder[b] = HashOrder[c] /\ Score(b) >= Score(c)


Better(b, c) ==
  \/ Score(b) > Score(c)
  \/ Score(b) = Score(c) /\ Height[b] > Height[c]
  \/ Score(b) = Score(c) /\ Height[b] = Height[c] /\ HashOrder[b] >= HashOrder[c]

CandidateHeads ==
  {b \in stored : \A c \in stored \ {Genesis} : Parent[c] # b}

\* canonical_head: the highest canonical block
IsHead(b) == b \in canonical /\ \A c \in canonical : Height[c] <= Height[b]

\* canonical_chain replayed from genesis_state with the blocks' receipts
Replayed(chain) == [k \in Keys |-> {b \in chain : k \in Effect[b]}]
-----------------------------------------------------------------------------
(***************************************************************************)
(* The constructor opens the file.  _ensure_genesis returns at once when   *)
(* there is a canonical head, whatever the rest of the file holds.         *)
(***************************************************************************)
Start ==
  /\ at = "down"
  /\ at' = IF canonical = {} THEN "genesis" ELSE "idle"
  /\ UNCHANGED <<stored, canonical, finalized, kv, importing, wrote, settled>>

PutGenesis ==
  /\ at = "genesis"
  /\ stored' = stored \cup {Genesis}
  /\ canonical' = canonical \cup {Genesis}
  /\ finalized' = finalized \cup {Genesis}
  /\ at' = "state" /\ wrote' = 0
  /\ UNCHANGED <<kv, importing, settled>>

\* Mutants of Receive: any stored parent will do, as in blockchain.py before
\* the patch; the parent is not looked up at all.
ReceiveOnAnyFork(b) ==
  /\ at = "idle" /\ b \in Blocks \ (Own \cup stored \cup {Genesis})
  /\ Parent[b] \in stored
  /\ at' = "put" /\ importing' = b
  /\ UNCHANGED <<stored, canonical, finalized, kv, wrote, settled>>
ReceiveUnknownParent(b) ==
  /\ at = "idle" /\ b \in Blocks \ (Own \cup stored \cup {Genesis})
  /\ at' = "put" /\ importing' = b
  /\ UNCHANGED <<stored, canonical, finalized, kv, wrote, settled>>


(***************************************************************************)
(* receive_gossip of a peer's block.  Unless the block is known already,   *)
(* import_block refuses every parent but the head (stale_parent_hash).  A  *)
(* well-formed block then passes validate_block: its state is recomputed   *)
(* from the stored ancestors, not from table state.                        *)
(***************************************************************************)
Receive(b) ==
  /\ at = "idle"
  /\ b \in Blocks \ (Own \cup stored \cup {Genesis})
  /\ IsHead(Parent[b])
  /\ at' = "put" /\ importing' = b
  /\ UNCHANGED <<stored, canonical, finalized, kv, wrote, settled>>

\* A block the node has stored is delivered once more: the head test is
\* skipped and validate_block passes again.
Redeliver(b) ==
  /\ at = "idle"
  /\ b \in stored \ {Genesis}
  /\ at' = "put" /\ importing' = b
  /\ UNCHANGED <<stored, canonical, finalized, kv, wrote, settled>>

(***************************************************************************)
(* produce_and_import_block: the block is executed on table state, so when *)
(* that is not the state of the head validate_block answers                *)
(* invalid_state_updates and nothing is imported.                          *)
(***************************************************************************)
Produce(b) ==
  /\ at = "idle"
  /\ b \in Own \ stored
  /\ IsHead(Parent[b])
  /\ kv = Replayed(Chain[Parent[b]])
  /\ at' = "put" /\ importing' = b
  /\ UNCHANGED <<stored, canonical, finalized, kv, wrote, settled>>

\* put_block(block, canonical=False, finalized=False): INSERT OR REPLACE
PutBlock ==
  /\ at = "put"
  /\ stored' = stored \cup {importing}
  /\ canonical' = canonical \ {importing}
  /\ finalized' = finalized \ {importing}
  /\ at' = "choose"
  /\ UNCHANGED <<kv, importing, wrote, settled>>

\* Mutants of ForkChoice: only the block that crosses the cut-off is flagged;
\* only the new head is flagged canonical.
ForkChoiceFlagsCutoff ==
  /\ at = "choose"
  /\ \E best \in CandidateHeads :
       /\ \A c \in CandidateHeads : Better(best, c)
       /\ canonical' = Chain[best]
       /\ finalized' = (finalized \ Chain[best])
            \cup {b \in Chain[best] : Height[b] = Height[best] - FinalityDepth}
  /\ at' = "state" /\ wrote' = 0
  /\ UNCHANGED <<stored, kv, importing, settled>>
ForkChoiceFlagsHead ==
  /\ at = "choose"
  /\ \E best \in CandidateHeads :
       /\ \A c \in CandidateHeads : Better(best, c)
       /\ canonical' = canonical \cup {best}
       /\ finalized' = (finalized \ canonical')
            \cup {b \in canonical' : Height[b] <= Height[best] - FinalityDepth}
  /\ at' = "state" /\ wrote' = 0
  /\ UNCHANGED <<stored, kv, importing, settled>>


(***************************************************************************)
(* apply_fork_choice: set_canonical_chain clears every canonical flag,     *)
(* walks from the best head to genesis and rewrites both flags on the way, *)
(* in one commit.  (The metadata row written next is never read.)          *)
(***************************************************************************)
ForkChoice ==
  /\ at = "choose"
  /\ \E best \in CandidateHeads :
       LET path   == Chain[best]
           cutoff == Height[best] - FinalityDepth IN
       /\ \A c \in CandidateHeads : Better(best, c)
       /\ canonical' = path
       /\ finalized' = (finalized \ path) \cup {b \in path : Height[b] <= cutoff}
  /\ at' = "state" /\ wrote' = 0
  /\ UNCHANGED <<stored, kv, importing, settled>>

\* Mutant of PutState: the rebuild stops before the last key.
PutStateTwoKeys ==
  /\ at = "state"
  /\ kv' = [kv EXCEPT ![KeyAt[wrote + 1]] = Replayed(canonical)[KeyAt[wrote + 1]]]
  /\ IF wrote < 1
     THEN wrote' = wrote + 1 /\ UNCHANGED <<at, importing, settled>>
     ELSE wrote' = 0 /\ at' = "idle" /\ importing' = Genesis /\ settled' = TRUE
  /\ UNCHANGED <<stored, canonical, finalized>>


(***************************************************************************)
(* _rebuild_canonical_state (and the end of _ensure_genesis): one          *)
(* put_state per key.  After the last one import_block returns ok.         *)
(***************************************************************************)
PutState ==
  LET k == KeyAt[wrote + 1] IN
  /\ at = "state"
  /\ kv' = [kv EXCEPT ![k] = Replayed(canonical)[k]]
  /\ IF wrote < 2
     THEN wrote' = wrote + 1 /\ UNCHANGED <<at, importing, settled>>
     ELSE wrote' = 0 /\ at' = "idle" /\ importing' = Genesis /\ settled' = TRUE
  /\ UNCHANGED <<stored, canonical, finalized>>

\* The process dies; SQLite keeps what was committed.
Crash ==
  /\ at # "down"
  /\ at' = "down" /\ importing' = Genesis /\ wrote' = 0 /\ settled' = FALSE
  /\ UNCHANGED disk
-----------------------------------------------------------------------------
Commit == PutGenesis \/ PutBlock \/ ForkChoice \/ PutState

Next ==
  \/ Start
  \/ Crash
  \/ Commit
  \/ \E b \in Blocks : Receive(b) \/ Produce(b)

Spec == Init /\ [][Next]_vars

\* The same node with peers that may send a block again.
DupNext == Next \/ \E b \in Blocks : Redeliver(b)
-----------------------------------------------------------------------------
(***************************************************************************)
(* What the chain of module ChainNode promises.                            *)
(***************************************************************************)

\* Types: tables over known blocks, and the point import_block has reached.
TypeOK ==
  /\ stored \subseteq Blocks /\ canonical \subseteq Blocks /\ finalized \subseteq Blocks
  /\ kv \in [Keys -> SUBSET Blocks]
  /\ at \in {"down", "genesis", "idle", "put", "choose", "state"}
  /\ importing \in Blocks
  /\ wrote \in 0 .. 2
  /\ settled \in BOOLEAN

\* The canonical rows are, after every single commit and every crash, the
\* unbroken path from genesis to one head (set_canonical_chain stops its walk
\* at a missing row, so this also needs the stored blocks closed under parent).
CanonicalIsPath ==
  /\ \A b \in stored : Chain[b] \subseteq stored
  /\ canonical # {} => \E h \in canonical : IsHead(h) /\ canonical = Chain[h]

\* The rows are what the node takes them for, after every commit and crash:
\* well typed, and the canonical ones a path.
RowsConsistent == TypeOK /\ CanonicalIsPath

\* After a completed import the node at rest serves the state of its head:
\* the three separately committed keys agree with one another, with the
\* canonical flags and with the finality cut-off.  Genesis is the exception
\* to the cut-off: it is stored as final and loses the flag when the first
\* block is imported and FinalityDepth is not yet reached.
AtRest ==
  settled /\ at = "idle" =>
    \E h \in canonical :
       /\ IsHead(h) /\ canonical = Chain[h]
       /\ kv = Replayed(Chain[h])
       /\ finalized = IF h = Genesis THEN {Genesis}
                      ELSE {b \in canonical : Height[b] <= Height[h] - FinalityDepth}

\* The canonical chain is never rewritten: import_block refuses every block
\* that does not extend the head, and a sibling left behind by a crash can
\* win the fork choice only against a block that was not canonical yet.
ChainGrows == [][canonical \subseteq canonical']_vars

\* A final block (genesis apart) stays final.
FinalStaysFinal == [][finalized \ {Genesis} \subseteq finalized']_vars

\* What the node has once made canonical or final it never takes back.
NothingTakenBack == ChainGrows /\ FinalStaysFinal

\* The block import_block reports as imported is the new head, unless a
\* crash has left a stored sibling of it.
ImportMakesHead ==
  [][ForkChoice /\ (\A c \in stored \ {Genesis, importing} : Parent[c] # Parent[importing])
       => IsHead(importing)']_vars

\* The canonical chain implements the append-only log.
Log == INSTANCE AppendOnlyChain WITH log <- canonical
ImplementsLog == Log!LogSpec

\* The strengthening.  The stored blocks: closed under parent, each above its
\* ancestors and each a child of a canonical block, so a leftover sibling can
\* never be higher than the block being imported.
StoredInv ==
  /\ canonical \subseteq stored
  /\ stored # {} => canonical # {}
  /\ \A b \in stored :
       /\ Chain[b] \subseteq stored
       /\ b \in Chain[b] /\ Genesis \in Chain[b]
       /\ \A x \in Chain[b] : x = b \/ Height[x] < Height[b]
  /\ \A b \in stored \ {Genesis} : Parent[b] \in canonical

\* The flags: one path, and finality measured from its head.
FlagsInv ==
  /\ canonical = {} => finalized = {}
  /\ canonical # {} =>
       \E h \in canonical :
         /\ canonical = Chain[h]
         /\ finalized = IF h = Genesis THEN {Genesis}
                        ELSE {b \in canonical : Height[b] <= Height[h] - FinalityDepth}

\* Where import_block is, and what it has in hand.
StepInv ==
  /\ at = "genesis" => canonical = {}
  /\ at \in {"idle", "put", "choose", "state"} => canonical # {}
  /\ at \in {"put", "choose"} =>
       /\ importing # Genesis
       /\ importing \notin canonical
       /\ IsHead(Parent[importing])
  /\ at = "choose" => importing \in stored

\* The state keys written so far are those of the canonical chain.
StateInv ==
  /\ at = "down" => ~settled
  /\ at = "state" => \A i \in 1 .. wrote : kv[KeyAt[i]] = Replayed(canonical)[KeyAt[i]]
  /\ at = "idle" /\ settled => kv = Replayed(canonical)

Inv == TypeOK /\ StoredInv /\ FlagsInv /\ StepInv /\ StateInv

(***************************************************************************)
(* The strengthening when stored blocks may be imported again.  A crash    *)
(* between put_block and the fork choice then leaves a hole in the         *)
(* canonical rows, so neither StoredInv nor FlagsInv holds.  What stays is *)
(* a block t, the one the fork choice took last: the canonical rows lie on *)
(* its chain and no stored block branches off anywhere else.               *)
(***************************************************************************)
LineageInv ==
  /\ canonical \subseteq stored /\ finalized \subseteq canonical
  /\ stored # {} => Genesis \in canonical
  /\ \A b \in stored :
       /\ Chain[b] \subseteq stored
       /\ b \in Chain[b] /\ Genesis \in Chain[b]
       /\ \A x \in Chain[b] : x = b \/ Height[x] < Height[b]

\* t was chosen last: while its row is canonical only a child can beat it, and
\* until the next import starts the flags are those of its chain.
TakenLast(t) ==
  /\ canonical \subseteq Chain[t]
  /\ \A b \in stored \ {Genesis} : Parent[b] \in Chain[t]
  /\ t \in canonical =>
       /\ \A c \in CandidateHeads : Better(t, c) \/ Parent[c] = t
       /\ at = "put" /\ importing \notin stored => Parent[importing] = t
  /\ at = "state" \/ (at = "idle" /\ settled) =>
       /\ canonical = Chain[t]
       /\ finalized = IF t = Genesis THEN {Genesis}
                      ELSE {b \in canonical : Height[b] <= Height[t] - FinalityDepth}

\* Where an import that may be a second one is.
AgainStepInv ==
  /\ at = "genesis" => stored = {}
  /\ at \in {"idle", "put", "choose", "state"} => stored # {}
  /\ at \in {"put", "choose"} => importing # Genesis
  /\ at = "put" /\ importing \notin stored => Parent[importing] \in canonical
  /\ at = "choose" => importing \in stored

AgainInv ==
  /\ TypeOK /\ LineageInv /\ AgainStepInv /\ StateInv
  /\ stored # {} => \E t \in stored : TakenLast(t)

\* "canonical balances, contracts and nonces are replayed after fork-choice
\* updates" (docs/BLOCKCHAIN_FRAMEWORK_V19.md:63): a node that is up and idle
\* serves the state of its head.
StateFollowsHead ==
  at = "idle" => \E h \in canonical : IsHead(h) /\ kv = Replayed(Chain[h])
=============================================================================
