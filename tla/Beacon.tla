------------------------------- MODULE Beacon -------------------------------
(***************************************************************************)
(* The SBQ beacon layer: a BeaconState kept in storage/beacon.sqlite and   *)
(* worked on by processes that each load it, change their copy and write   *)
(* it back whole.  "agi beacon produce-block", attest, finalize and        *)
(* fork-choice do that once; "agi start --continuous" and the supervisor's *)
(* beacon service load once and write after every slot.                    *)
(*                                                                         *)
(* Validators never change status in this code and committee_for_slot is   *)
(* all of them, so a block has the votes of the whole active stake or of   *)
(* none, and the stake threshold is met by every call.                     *)
(***************************************************************************)
EXTENDS Integers, FiniteSets, Sequences, TLC

CONSTANTS
  Procs,           \* processes that may run at the same time
  Jobs,            \* what they are started for
  SlotsPerEpoch,   \* max(1, config.slots_per_epoch)
  MaxBlocks,       \* bound: blocks ever produced
  MaxOverwrites    \* bound: saves over what was not read, after which there are none

Commands == {"produce-block", "attest", "finalize", "fork-choice"}

ASSUME BeaconAssumption ==
  /\ Jobs \subseteq Commands \cup {"loop"}
  /\ SlotsPerEpoch \in Nat \ {0}
  /\ MaxBlocks \in Nat /\ MaxOverwrites \in Nat

VARIABLES
  made,   \* every block ever produced; its root is its place in this list
  disk,   \* the BeaconState in the file
  mem,    \* mem[p]: the copy process p works on
  job,    \* job[p]: what p was started for, or "off"
  read,   \* read[p]: how much of the file p has read
  behind,      \* processes that run and have not read the last save of another
  overwrites   \* how often one of them has saved, over what it had not read

vars == <<made, disk, mem, job, read, behind, overwrites>>
history == <<behind, overwrites>>

\* GENESIS_ROOT is no block's root; line is a block's ancestors and itself
GenesisRoot == 0
Blocks == [slot : Nat, parent : Nat, line : SUBSET Nat]
LineIn(all, r) == IF r = GenesisRoot THEN {GenesisRoot} ELSE all[r].line
Line(r) == LineIn(made, r)

Checkpoint(epoch, root) == [epoch |-> epoch, root |-> root]
Epoch(slot) == slot \div SlotsPerEpoch

\* create_beacon_state as init_beacon_runtime saves it.  An attestation is
\* one vote of every active validator for head in the target epoch.
Fresh == [slot      |-> 0,
          head      |-> GenesisRoot,
          justified |-> Checkpoint(0, GenesisRoot),
          finalized |-> Checkpoint(0, GenesisRoot),
          blocks    |-> {},
          votes     |-> {}]

Init ==
  /\ made = <<>>
  /\ disk = Fresh
  /\ mem = [p \in Procs |-> Fresh]
  /\ job = [p \in Procs |-> "off"]
  /\ read = [p \in Procs |-> "nothing"]
  /\ behind = {} /\ overwrites = 0
-----------------------------------------------------------------------------
(***************************************************************************)
(* What the functions of beacon.py do to a state s                         *)
(***************************************************************************)
NewRoot == Len(made) + 1

\* Mutant of WithBlock: the slot does not move.
WithBlockSameSlot(s) == [s EXCEPT !.head = NewRoot, !.blocks = @ \cup {NewRoot}]

\* produce_beacon_block.  (Two blocks made from one state within a second
\* have one root in the code; here they are two.)
NewBlock(s) == [slot |-> s.slot + 1, parent |-> s.head,
                line |-> Line(s.head) \cup {NewRoot}]
WithBlock(s) == [s EXCEPT !.slot = @ + 1, !.head = NewRoot, !.blocks = @ \cup {NewRoot}]

\* attest_to_head: votes for a head that is not among the blocks are dropped
Attested(s) ==
  [s EXCEPT !.votes = @ \cup {[head |-> b, target |-> Epoch(s.slot)] : b \in s.blocks \cap {s.head}}]

\* Mutants of Finalized: the new checkpoint is final at once; justifying an
\* epoch again moves the final checkpoint.
FinalizedNow(s) ==
  LET new == Checkpoint(Epoch(s.slot), s.head) IN
  [s EXCEPT !.justified = new, !.finalized = new]
FinalizedAgain(s) ==
  [s EXCEPT !.justified = Checkpoint(Epoch(s.slot), s.head), !.finalized = s.justified]

\* process_epoch_finality on the votes just cast: they carry all the stake
Finalized(s) ==
  [s EXCEPT !.justified = Checkpoint(Epoch(s.slot), s.head),
            !.finalized = IF s.justified.epoch < Epoch(s.slot) THEN s.justified ELSE @]

\* Mutant of Heads: the lightest blocks instead of the heaviest.
HeadsLight(blocks, votes, all) ==
  LET light == {b \in blocks : ~\E v \in votes : v.head = b} IN
  {b \in blocks : light # {} => b \in light}

(***************************************************************************)
(* fork_choice_head takes the maximum of (attestation weight, slot, root)  *)
(* over all blocks; which of two roots is the larger is anybody's guess.   *)
(***************************************************************************)
Heads(blocks, votes, all) ==
  LET heavy == {b \in blocks : \E v \in votes : v.head = b}
      pick  == IF heavy = {} THEN blocks ELSE heavy IN
  {b \in pick : \A c \in pick : all[c].slot <= all[b].slot}

\* What fork_choice_head may make of s, all being the blocks made by then
Chosen(s, all) ==
  IF s.blocks = {} THEN {s}
  ELSE {[s EXCEPT !.head = h] : h \in Heads(s.blocks, s.votes, all)}
-----------------------------------------------------------------------------
\* Mutant of Start: the final checkpoint is not read.
StartForgets(p, j) ==
  /\ job[p] = "off"
  /\ job' = [job EXCEPT ![p] = j]
  /\ read' = [read EXCEPT ![p] = "meta"]
  /\ mem' = [mem EXCEPT ![p] = [disk EXCEPT !.blocks = {}, !.votes = {},
                                             !.finalized = Checkpoint(0, GenesisRoot)]]
  /\ UNCHANGED <<made, disk, history>>

(***************************************************************************)
(* load_state reads the meta table, then the blocks, then the attestations *)
(* in separate SELECTs: another process may save in between.               *)
(***************************************************************************)
Start(p, j) ==
  /\ job[p] = "off"
  /\ job' = [job EXCEPT ![p] = j]
  /\ read' = [read EXCEPT ![p] = "meta"]
  /\ mem' = [mem EXCEPT ![p] = [disk EXCEPT !.blocks = {}, !.votes = {}]]
  /\ UNCHANGED <<made, disk, history>>

ReadBlocks(p) ==
  /\ read[p] = "meta"
  /\ read' = [read EXCEPT ![p] = "blocks"]
  /\ mem' = [mem EXCEPT ![p].blocks = disk.blocks]
  /\ UNCHANGED <<made, disk, job, history>>

\* An attestation for a block that was not read is left out.
ReadVotes(p) ==
  /\ read[p] = "blocks"
  /\ read' = [read EXCEPT ![p] = "all"]
  /\ mem' = [mem EXCEPT ![p].votes = {v \in disk.votes : v.head \in mem[p].blocks}]
  /\ UNCHANGED <<made, disk, job, history>>

\* No lock keeps others from saving between a process's reading and its save.
Saved(p) ==
  /\ overwrites <= MaxOverwrites
  /\ behind' = {q \in Procs \ {p} : job[q] # "off"}
  /\ overwrites' = overwrites + (IF p \in behind THEN 1 ELSE 0)

\* A command works on its own copy until save_state, one transaction, has
\* replaced the whole file; then the process ends.
Finish(p, s) ==
  /\ disk' = s /\ Saved(p)
  /\ job' = [job EXCEPT ![p] = "off"]
  /\ read' = [read EXCEPT ![p] = "nothing"]
  /\ mem' = [mem EXCEPT ![p] = Fresh]

ProduceBlock(p) ==
  /\ read[p] = "all" /\ job[p] = "produce-block"
  /\ Len(made) < MaxBlocks
  /\ made' = Append(made, NewBlock(mem[p]))
  /\ Finish(p, WithBlock(mem[p]))

Attest(p) ==
  /\ read[p] = "all" /\ job[p] = "attest"
  /\ Finish(p, Attested(mem[p]))
  /\ UNCHANGED made

\* "agi beacon finalize" attests before it counts
FinalizeNow(p) ==
  /\ read[p] = "all" /\ job[p] = "finalize"
  /\ Finish(p, Finalized(Attested(mem[p])))
  /\ UNCHANGED made

ForkChoice(p) ==
  /\ read[p] = "all" /\ job[p] = "fork-choice"
  /\ UNCHANGED made
  /\ \E s \in Chosen(mem[p], made) : Finish(p, s)

(***************************************************************************)
(* One turn of the continuous loop, or beacon_once: produce, attest, at an *)
(* epoch's first slot count, choose the head, save, keep the copy.         *)
(***************************************************************************)
LoopSlot(p) ==
  /\ read[p] = "all" /\ job[p] = "loop"
  /\ Len(made) < MaxBlocks
  /\ made' = Append(made, NewBlock(mem[p]))
  /\ LET voted   == Attested(WithBlock(mem[p]))
         counted == IF voted.slot % SlotsPerEpoch = 0 THEN Finalized(voted) ELSE voted IN
     \E s \in Chosen(counted, made') :
       /\ disk' = s /\ Saved(p)
       /\ mem' = [mem EXCEPT ![p] = s]
  /\ UNCHANGED <<job, read>>

\* The process ends, or is killed, before or between saves.
Stop(p) ==
  /\ job[p] # "off"
  /\ job' = [job EXCEPT ![p] = "off"]
  /\ read' = [read EXCEPT ![p] = "nothing"]
  /\ mem' = [mem EXCEPT ![p] = Fresh]
  /\ behind' = behind \ {p}
  /\ UNCHANGED <<made, disk, overwrites>>

Next ==
  \E p \in Procs :
    \/ \E j \in Jobs : Start(p, j)
    \/ ReadBlocks(p) \/ ReadVotes(p)
    \/ ProduceBlock(p) \/ Attest(p) \/ FinalizeNow(p) \/ ForkChoice(p)
    \/ LoopSlot(p)
    \/ Stop(p)

Spec == Init /\ [][Next]_vars

\* No process is unlike another (nothing is stated under fairness here).
ProcSymmetry == Permutations(Procs)
-----------------------------------------------------------------------------
(***************************************************************************)
(* What the beacon state of module Beacon promises.                        *)
(***************************************************************************)

Checkpoints(n) == [epoch : Nat, root : 0 .. n]
States(n) == [slot : Nat, head : 0 .. n, justified : Checkpoints(n), finalized : Checkpoints(n),
              blocks : SUBSET (1 .. n), votes : SUBSET [head : 1 .. n, target : Nat]]

\* Types: roots are genesis or blocks that were made; the line of a block is
\* its parent's and itself, and its parent was made before it.
StateOK ==
  /\ made \in Seq(Blocks)
  /\ \A r \in 1 .. Len(made) : /\ made[r].parent < r
                               /\ made[r].line = Line(made[r].parent) \cup {r}
  /\ disk \in States(Len(made))
  /\ mem \in [Procs -> States(Len(made))]
  /\ job \in [Procs -> Commands \cup {"loop", "off"}]
  /\ read \in [Procs -> {"nothing", "meta", "blocks", "all"}]
TypeOK == StateOK /\ behind \subseteq Procs /\ overwrites \in Nat

\* Whoever else writes the file, its checkpoints are in order: the final one
\* is of an earlier epoch than the justified one, or it is still genesis in
\* epoch 0, and neither is ahead of the slot.
EpochsInOrder(s) ==
  /\ \/ s.finalized.epoch < s.justified.epoch
     \/ s.justified.epoch = 0 /\ s.finalized = Checkpoint(0, GenesisRoot)
  /\ s.justified.epoch <= Epoch(s.slot)
CheckpointsInOrder == EpochsInOrder(disk)

\* The file is well formed whatever processes do to it.
FileConsistent == TypeOK /\ CheckpointsInOrder

(***************************************************************************)
(* Processes may run beside each other, in whatever order the commands     *)
(* come and wherever they are killed.  What follows holds until one saves  *)
(* a copy older than the file, which no lock prevents: then it brings back *)
(* an old state, and its block may be the second of a slot.                *)
(***************************************************************************)

\* No two blocks in the file have the same slot, hence the same proposer: a
\* crash between a slot and its save does not leave a double proposal.
NoDoubleProposal ==
  overwrites = 0 => \A b, c \in disk.blocks : made[b].slot = made[c].slot => b = c

\* The blocks that were voted for are on one line, although fork choice may
\* leave a head nobody voted for and production goes on elsewhere.
VotesOnOneLine ==
  overwrites = 0 => \A v, w \in disk.votes : v.head \in Line(w.head) \/ w.head \in Line(v.head)

\* The final checkpoint is on the line of the justified one, and that on the
\* line of the head.
FinalOnHead ==
  overwrites = 0 =>
    /\ disk.finalized.root \in Line(disk.justified.root)
    /\ disk.justified.root \in Line(disk.head)

\* A final checkpoint is never taken back nor moved to another branch.
FinalLine == Line(disk.finalized.root)
FinalStays ==
  [][overwrites' = 0 => /\ disk.finalized.epoch <= disk'.finalized.epoch
                      /\ disk.finalized.root \in FinalLine']_vars

\* Every epoch's first block is justified in its own slot and final one epoch
\* later, and each turn of the loop keeps to that, whatever commands have run
\* in between and wherever the loop was stopped.
OnTime ==
  LET first(e) == IF e = 0 THEN GenesisRoot
                  ELSE CHOOSE b \in disk.blocks : made[b].slot = e * SlotsPerEpoch
      now == Epoch(disk.slot) IN
  /\ disk.justified = Checkpoint(now, first(now))
  /\ disk.finalized = IF now = 0 THEN Checkpoint(0, GenesisRoot)
                      ELSE Checkpoint(now - 1, first(now - 1))
LoopFinalizes ==
  [][overwrites' = 0 /\ OnTime /\ (\E p \in Procs : LoopSlot(p)) => OnTime']_vars
=============================================================================
