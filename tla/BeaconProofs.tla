---------------------------- MODULE BeaconProofs ----------------------------
(***************************************************************************)
(* The beacon state for every number of slots per epoch: what any number   *)
(* of processes keep true together, then what they keep as long as none    *)
(* saves a copy that is older than the file.                               *)
(***************************************************************************)
EXTENDS Beacon, SequenceTheorems, TLAPS

USE BeaconAssumption DEF GenesisRoot

\* A later slot is in the same epoch or a later one.
LEMMA EpochMonotone ==
  ASSUME NEW a \in Nat, NEW b \in Nat, a <= b
  PROVE  Epoch(a) \in Nat /\ Epoch(a) <= Epoch(b)
<1>1. Epoch(a) \in Nat /\ Epoch(b) \in Nat
  BY DEF Epoch
<1>2. a < SlotsPerEpoch * (Epoch(a) + 1) /\ SlotsPerEpoch * Epoch(a) <= a
  BY DEF Epoch
<1>3. b < SlotsPerEpoch * (Epoch(b) + 1)
  BY DEF Epoch
<1> QED BY <1>1, <1>2, <1>3

-----------------------------------------------------------------------------
(***************************************************************************)
(* Any number of processes                                                 *)
(***************************************************************************)

\* The invariant: types, and ordered epochs in the file and in every copy,
\* because a torn read tears the blocks off but not the meta table.
Inv ==
  /\ StateOK
  /\ EpochsInOrder(disk)
  /\ \A p \in Procs : EpochsInOrder(mem[p])

\* Roots and states stay what they are when one more block is made.
LEMMA StatesGrow ==
  ASSUME NEW n \in Nat, NEW s \in States(n)
  PROVE  s \in States(n + 1)
<1>1. 0 .. n \subseteq 0 .. (n + 1) /\ 1 .. n \subseteq 1 .. (n + 1)
  OBVIOUS
<1>2. Checkpoints(n) \subseteq Checkpoints(n + 1)
  BY <1>1 DEF Checkpoints
<1> QED BY <1>1, <1>2 DEF States

\* Voting keeps a state well typed.
LEMMA AttestedTyped ==
  ASSUME NEW n \in Nat, NEW s \in States(n), EpochsInOrder(s)
  PROVE  Attested(s) \in States(n) /\ EpochsInOrder(Attested(s))
<1>1. Epoch(s.slot) \in Nat
  BY EpochMonotone DEF States
<1>2. {[head |-> b, target |-> Epoch(s.slot)] : b \in s.blocks \cap {s.head}}
        \in SUBSET [head : 1 .. n, target : Nat]
  BY <1>1 DEF States
<1>3. Attested(s) \in States(n)
  BY <1>2 DEF Attested, States
<1>4. /\ Attested(s).slot = s.slot
      /\ Attested(s).justified = s.justified
      /\ Attested(s).finalized = s.finalized
  BY DEF Attested, States
<1> QED BY <1>3, <1>4 DEF EpochsInOrder

\* So does finalizing.
LEMMA FinalizedTyped ==
  ASSUME NEW n \in Nat, NEW s \in States(n), EpochsInOrder(s)
  PROVE  Finalized(s) \in States(n) /\ EpochsInOrder(Finalized(s))
<1>1. Epoch(s.slot) \in Nat
  BY EpochMonotone DEF States
<1>2. Checkpoint(Epoch(s.slot), s.head) \in Checkpoints(n)
  BY <1>1 DEF Checkpoint, Checkpoints, States
<1>3. /\ Finalized(s).slot = s.slot
      /\ Finalized(s).justified = Checkpoint(Epoch(s.slot), s.head)
      /\ Finalized(s).finalized =
           IF s.justified.epoch < Epoch(s.slot) THEN s.justified ELSE s.finalized
  BY DEF Finalized, States
<1>4. Finalized(s) \in States(n)
  BY <1>2 DEF Finalized, States
<1>5. s.justified.epoch \in Nat /\ s.finalized.epoch \in Nat
  BY DEF States, Checkpoints
<1>6. Checkpoint(Epoch(s.slot), s.head).epoch = Epoch(s.slot)
  BY DEF Checkpoint
<1>7. EpochsInOrder(Finalized(s))
  BY <1>1, <1>3, <1>5, <1>6 DEF EpochsInOrder
<1> QED BY <1>4, <1>7

\* So does the fork choice, whichever tie it takes.
LEMMA ChosenTyped ==
  ASSUME NEW n \in Nat, NEW s \in States(n), EpochsInOrder(s),
         NEW all, NEW t \in Chosen(s, all)
  PROVE  t \in States(n) /\ EpochsInOrder(t)
<1>1. CASE t = s
  BY <1>1
<1>2. CASE \E h \in Heads(s.blocks, s.votes, all) : t = [s EXCEPT !.head = h]
  <2>1. PICK h \in s.blocks : t = [s EXCEPT !.head = h]
    BY <1>2 DEF Heads
  <2>2. h \in 0 .. n
    BY <2>1 DEF States
  <2> QED BY <2>1, <2>2 DEF States, EpochsInOrder
<1> QED BY <1>1, <1>2 DEF Chosen

\* Producing a block gives a state over one more block.
LEMMA WithBlockTyped ==
  ASSUME made \in Seq(Blocks), NEW s \in States(Len(made)), EpochsInOrder(s)
  PROVE  WithBlock(s) \in States(Len(made) + 1) /\ EpochsInOrder(WithBlock(s))
<1> DEFINE n == Len(made)
<1>1. n \in Nat /\ NewRoot = n + 1
  BY DEF NewRoot
<1>2. s \in States(n + 1)
  BY <1>1, StatesGrow
<1>3. NewRoot \in 0 .. (n + 1) /\ NewRoot \in 1 .. (n + 1)
  BY <1>1
<1> HIDE DEF n
<1>4. WithBlock(s) \in States(n + 1)
  <2>1. s.blocks \cup {NewRoot} \in SUBSET (1 .. (n + 1))
    BY <1>2, <1>3 DEF States
  <2>2. s.slot + 1 \in Nat
    BY <1>2 DEF States
  <2> QED BY <1>2, <1>3, <2>1, <2>2 DEF WithBlock, States
<1>5. /\ WithBlock(s).slot = s.slot + 1
      /\ WithBlock(s).justified = s.justified
      /\ WithBlock(s).finalized = s.finalized
  BY DEF WithBlock, States
<1>6. s.slot \in Nat /\ Epoch(s.slot) <= Epoch(s.slot + 1) /\ Epoch(s.slot) \in Nat /\ Epoch(s.slot + 1) \in Nat
  BY EpochMonotone DEF States
<1>7. s.justified.epoch \in Nat
  BY DEF States, Checkpoints
<1>8. EpochsInOrder(WithBlock(s))
  BY <1>5, <1>6, <1>7 DEF EpochsInOrder
<1> QED BY <1>4, <1>8 DEF n

\* The list of blocks stays well-formed when a block on the head of a state
\* is added to it.
LEMMA MadeGrows ==
  ASSUME StateOK, NEW s \in States(Len(made)), made' = Append(made, NewBlock(s))
  PROVE  /\ made' \in Seq(Blocks)
         /\ Len(made') = Len(made) + 1 /\ Len(made) \in Nat
         /\ \A r \in 1 .. Len(made) : made'[r] = made[r]
         /\ made'[Len(made) + 1] = NewBlock(s)
         /\ \A r \in 1 .. Len(made') : /\ made'[r].parent < r
                                       /\ made'[r].line = LineIn(made', made'[r].parent) \cup {r}
<1>1. made \in Seq(Blocks) /\ Len(made) \in Nat
  BY DEF StateOK
<1>2. s.head \in 0 .. Len(made) /\ s.slot \in Nat
  BY DEF States
<1>3. \A r \in 1 .. Len(made) : made[r] \in Blocks
  BY <1>1
<1>4. Line(s.head) \in SUBSET Nat
  BY <1>2, <1>3 DEF Line, LineIn, Blocks
<1>5. NewBlock(s) \in Blocks
  BY <1>1, <1>2, <1>4 DEF NewBlock, Blocks, NewRoot
<1>6. /\ made' \in Seq(Blocks) /\ Len(made') = Len(made) + 1
      /\ \A r \in 1 .. Len(made) : made'[r] = made[r]
      /\ made'[Len(made) + 1] = NewBlock(s)
  BY <1>1, <1>5
<1>7. \A r \in 0 .. Len(made) : LineIn(made', r) = Line(r)
  BY <1>1, <1>6 DEF Line, LineIn
<1>8. \A r \in 1 .. Len(made) : made[r].parent \in 0 .. Len(made) /\ made[r].parent < r
  BY <1>1, <1>3 DEF StateOK, Blocks
<1>9. ASSUME NEW r \in 1 .. Len(made)
      PROVE  made'[r].parent < r /\ made'[r].line = LineIn(made', made'[r].parent) \cup {r}
  <2>1. made'[r] = made[r]
    BY <1>6
  <2>2. made[r].line = Line(made[r].parent) \cup {r}
    BY DEF StateOK
  <2>3. LineIn(made', made[r].parent) = Line(made[r].parent)
    BY <1>7, <1>8
  <2> QED BY <1>8, <2>1, <2>2, <2>3
<1>10. /\ NewBlock(s).parent = s.head /\ s.head < Len(made) + 1
       /\ NewBlock(s).line = Line(s.head) \cup {Len(made) + 1}
  BY <1>1, <1>2 DEF NewBlock, NewRoot
<1>11. LineIn(made', s.head) = Line(s.head)
  BY <1>2, <1>7
<1>12. /\ made'[Len(made) + 1].parent < Len(made) + 1
       /\ made'[Len(made) + 1].line =
            LineIn(made', made'[Len(made) + 1].parent) \cup {Len(made) + 1}
  BY <1>6, <1>10, <1>11
<1>13. \A r \in 1 .. Len(made') : r \in 1 .. Len(made) \/ r = Len(made) + 1
  BY <1>1, <1>6
<1> QED BY <1>1, <1>6, <1>9, <1>12, <1>13

\* A step that leaves the list of blocks well-formed and gives the file and
\* every copy a typed state keeps the invariant.
LEMMA InvKept ==
  ASSUME Inv,
         \/ made' = made
         \/ \E s \in States(Len(made)) : made' = Append(made, NewBlock(s)),
         disk' \in States(Len(made')) /\ EpochsInOrder(disk)',
         NEW p \in Procs,
         NEW s \in States(Len(made')), EpochsInOrder(s),
         mem' = [mem EXCEPT ![p] = s],
         job' \in [Procs -> Commands \cup {"loop", "off"}],
         read' \in [Procs -> {"nothing", "meta", "blocks", "all"}]
  PROVE  Inv'
<1>1. /\ made' \in Seq(Blocks)
      /\ \A r \in 1 .. Len(made') : /\ made'[r].parent < r
                                    /\ made'[r].line = LineIn(made', made'[r].parent) \cup {r}
      /\ Len(made') = Len(made) \/ Len(made') = Len(made) + 1
      /\ Len(made) \in Nat
  <2>1. CASE made' = made
    BY <2>1 DEF Inv, StateOK, Line
  <2>2. CASE \E t \in States(Len(made)) : made' = Append(made, NewBlock(t))
    BY <2>2, MadeGrows DEF Inv
  <2> QED BY <2>1, <2>2
<1>2. mem \in [Procs -> States(Len(made))]
  BY DEF Inv, StateOK
<1>3. \A q \in Procs : mem[q] \in States(Len(made'))
  BY <1>1, <1>2, StatesGrow
<1>4. mem' \in [Procs -> States(Len(made'))]
  BY <1>2, <1>3
<1>5. \A q \in Procs : EpochsInOrder(mem'[q])
  BY <1>2 DEF Inv
<1>6. StateOK'
  BY <1>1, <1>4 DEF StateOK, Line
<1> QED BY <1>5, <1>6 DEF Inv, EpochsInOrder

\* The state a process begins with is well typed.
LEMMA FreshTyped ==
  ASSUME NEW n \in Nat
  PROVE  Fresh \in States(n) /\ EpochsInOrder(Fresh)
<1>1. Epoch(0) \in Nat
  BY EpochMonotone
<1>2. Checkpoint(0, GenesisRoot) \in Checkpoints(n)
  BY DEF Checkpoint, Checkpoints
<1>3. Fresh \in States(n)
  BY <1>2 DEF Fresh, States
<1>4. Fresh.slot = 0 /\ Fresh.justified.epoch = 0 /\ Fresh.finalized = Checkpoint(0, GenesisRoot)
  BY DEF Fresh, Checkpoint
<1> QED BY <1>1, <1>3, <1>4 DEF EpochsInOrder

\* Nothing is stored at first.
LEMMA InitInv == Init => Inv
<1> SUFFICES ASSUME Init PROVE Inv
  OBVIOUS
<1>1. made = <<>> /\ Len(made) = 0
  BY DEF Init
<1>2. Fresh \in States(0) /\ EpochsInOrder(Fresh)
  BY FreshTyped
<1> QED BY <1>1, <1>2 DEF Init, Inv, StateOK

\* The end of a command.
LEMMA FinishInv ==
  ASSUME Inv,
         \/ made' = made
         \/ \E t \in States(Len(made)) : made' = Append(made, NewBlock(t)),
         NEW p \in Procs,
         NEW s \in States(Len(made')), EpochsInOrder(s),
         Finish(p, s)
  PROVE  Inv'
<1>1. Len(made') \in Nat
  <2>1. CASE made' = made
    BY <2>1 DEF Inv, StateOK
  <2>2. CASE \E t \in States(Len(made)) : made' = Append(made, NewBlock(t))
    BY <2>2, MadeGrows DEF Inv
  <2> QED BY <2>1, <2>2
<1>2. Fresh \in States(Len(made')) /\ EpochsInOrder(Fresh)
  BY <1>1, FreshTyped
<1>3. disk' = s /\ mem' = [mem EXCEPT ![p] = Fresh]
  BY DEF Finish
<1>4. /\ job' \in [Procs -> Commands \cup {"loop", "off"}]
      /\ read' \in [Procs -> {"nothing", "meta", "blocks", "all"}]
  BY DEF Finish, Inv, StateOK
<1>5. EpochsInOrder(disk)'
  BY <1>3 DEF EpochsInOrder
<1> QED BY <1>2, <1>3, <1>4, <1>5, InvKept

\* No step of any process breaks a copy, torn reads and lost updates included.
LEMMA NextInv == Inv /\ [Next]_vars => Inv'
<1> SUFFICES ASSUME Inv, [Next]_vars PROVE Inv'
  OBVIOUS
<1>0. /\ made \in Seq(Blocks) /\ Len(made) \in Nat
      /\ disk \in States(Len(made)) /\ EpochsInOrder(disk)
      /\ \A p \in Procs : mem[p] \in States(Len(made)) /\ EpochsInOrder(mem[p])
      /\ job \in [Procs -> Commands \cup {"loop", "off"}]
      /\ read \in [Procs -> {"nothing", "meta", "blocks", "all"}]
  BY DEF Inv, StateOK
<1>1. CASE UNCHANGED vars
  BY <1>1 DEF Inv, StateOK, EpochsInOrder, Line, vars
<1>2. ASSUME NEW p \in Procs, NEW j \in Jobs, Start(p, j) PROVE Inv'
  <2> DEFINE s == [disk EXCEPT !.blocks = {}, !.votes = {}]
  <2>1. s \in States(Len(made))
    BY <1>0 DEF States
  <2>2. s.slot = disk.slot /\ s.justified = disk.justified /\ s.finalized = disk.finalized
    BY <1>0 DEF States
  <2>3. EpochsInOrder(s)
    BY <1>0, <2>2 DEF EpochsInOrder
  <2>4. /\ job' \in [Procs -> Commands \cup {"loop", "off"}]
        /\ read' \in [Procs -> {"nothing", "meta", "blocks", "all"}]
        /\ made' = made /\ disk' = disk /\ mem' = [mem EXCEPT ![p] = s]
    BY <1>0, <1>2 DEF Start
  <2> HIDE DEF s
  <2>5. EpochsInOrder(disk)'
    BY <1>0, <2>4 DEF EpochsInOrder
  <2> QED BY <1>0, <2>1, <2>3, <2>4, <2>5, InvKept
<1>3. ASSUME NEW p \in Procs, ReadBlocks(p) PROVE Inv'
  <2> DEFINE s == [mem[p] EXCEPT !.blocks = disk.blocks]
  <2>1. s \in States(Len(made))
    BY <1>0 DEF States
  <2>2. s.slot = mem[p].slot /\ s.justified = mem[p].justified /\ s.finalized = mem[p].finalized
    BY <1>0 DEF States
  <2>3. EpochsInOrder(s)
    BY <1>0, <2>2 DEF EpochsInOrder
  <2>4. /\ job' = job
        /\ read' \in [Procs -> {"nothing", "meta", "blocks", "all"}]
        /\ made' = made /\ disk' = disk /\ mem' = [mem EXCEPT ![p] = s]
    BY <1>0, <1>3 DEF ReadBlocks, Inv, StateOK
  <2> HIDE DEF s
  <2>5. EpochsInOrder(disk)'
    BY <1>0, <2>4 DEF EpochsInOrder
  <2> QED BY <1>0, <2>1, <2>3, <2>4, <2>5, InvKept
<1>4. ASSUME NEW p \in Procs, ReadVotes(p) PROVE Inv'
  <2> DEFINE some == {v \in disk.votes : v.head \in mem[p].blocks}
             s == [mem[p] EXCEPT !.votes = some]
  <2>0. some \subseteq disk.votes
    OBVIOUS
  <2>1. s \in States(Len(made))
    BY <1>0, <2>0 DEF States
  <2>2. s.slot = mem[p].slot /\ s.justified = mem[p].justified /\ s.finalized = mem[p].finalized
    BY <1>0 DEF States
  <2>3. EpochsInOrder(s)
    BY <1>0, <2>2 DEF EpochsInOrder
  <2>4. /\ job' = job
        /\ read' \in [Procs -> {"nothing", "meta", "blocks", "all"}]
        /\ made' = made /\ disk' = disk /\ mem' = [mem EXCEPT ![p] = s]
    BY <1>0, <1>4 DEF ReadVotes, Inv, StateOK
  <2> HIDE DEF s
  <2>5. EpochsInOrder(disk)'
    BY <1>0, <2>4 DEF EpochsInOrder
  <2> QED BY <1>0, <2>1, <2>3, <2>4, <2>5, InvKept
<1>5. ASSUME NEW p \in Procs, ProduceBlock(p) PROVE Inv'
  <2>1. made' = Append(made, NewBlock(mem[p])) /\ Finish(p, WithBlock(mem[p]))
    BY <1>5 DEF ProduceBlock
  <2>2. Len(made') = Len(made) + 1
    BY <1>0, <2>1, MadeGrows DEF Inv
  <2>3. WithBlock(mem[p]) \in States(Len(made')) /\ EpochsInOrder(WithBlock(mem[p]))
    BY <1>0, <2>2, WithBlockTyped
  <2> QED BY <1>0, <2>1, <2>3, FinishInv
<1>6. ASSUME NEW p \in Procs, Attest(p) PROVE Inv'
  <2>1. Attested(mem[p]) \in States(Len(made')) /\ EpochsInOrder(Attested(mem[p]))
    BY <1>0, <1>6, AttestedTyped DEF Attest
  <2> QED BY <1>6, <2>1, FinishInv DEF Attest
<1>7. ASSUME NEW p \in Procs, FinalizeNow(p) PROVE Inv'
  <2>1. Attested(mem[p]) \in States(Len(made)) /\ EpochsInOrder(Attested(mem[p]))
    BY <1>0, AttestedTyped
  <2>2. /\ Finalized(Attested(mem[p])) \in States(Len(made'))
        /\ EpochsInOrder(Finalized(Attested(mem[p])))
    BY <1>0, <1>7, <2>1, FinalizedTyped DEF FinalizeNow
  <2> QED BY <1>7, <2>2, FinishInv DEF FinalizeNow
<1>8. ASSUME NEW p \in Procs, ForkChoice(p) PROVE Inv'
  <2>1. PICK s \in Chosen(mem[p], made) : Finish(p, s)
    BY <1>8 DEF ForkChoice
  <2>2. made' = made
    BY <1>8 DEF ForkChoice
  <2>3. s \in States(Len(made')) /\ EpochsInOrder(s)
    BY <1>0, <2>2, ChosenTyped
  <2> QED BY <2>1, <2>2, <2>3, FinishInv
<1>9. ASSUME NEW p \in Procs, LoopSlot(p) PROVE Inv'
  <2> DEFINE voted == Attested(WithBlock(mem[p]))
             counted == IF voted.slot % SlotsPerEpoch = 0 THEN Finalized(voted) ELSE voted
  <2>1. PICK s \in Chosen(counted, made') : disk' = s /\ mem' = [mem EXCEPT ![p] = s]
    BY <1>9 DEF LoopSlot
  <2>2. made' = Append(made, NewBlock(mem[p])) /\ job' = job /\ read' = read
    BY <1>9 DEF LoopSlot
  <2>3. Len(made') = Len(made) + 1 /\ Len(made') \in Nat
    BY <1>0, <2>2, MadeGrows DEF Inv
  <2>4. WithBlock(mem[p]) \in States(Len(made')) /\ EpochsInOrder(WithBlock(mem[p]))
    BY <1>0, <2>3, WithBlockTyped
  <2>5. voted \in States(Len(made')) /\ EpochsInOrder(voted)
    BY <2>3, <2>4, AttestedTyped
  <2>6. counted \in States(Len(made')) /\ EpochsInOrder(counted)
    BY <2>3, <2>5, FinalizedTyped
  <2> HIDE DEF counted
  <2>7. s \in States(Len(made')) /\ EpochsInOrder(s)
    BY <2>3, <2>6, ChosenTyped
  <2>8. EpochsInOrder(disk)'
    BY <2>1, <2>7 DEF EpochsInOrder
  <2> QED BY <1>0, <2>1, <2>2, <2>7, <2>8, InvKept
<1>10. ASSUME NEW p \in Procs, Stop(p) PROVE Inv'
  <2>1. Fresh \in States(Len(made)) /\ EpochsInOrder(Fresh)
    BY <1>0, FreshTyped
  <2>2. /\ job' \in [Procs -> Commands \cup {"loop", "off"}]
        /\ read' \in [Procs -> {"nothing", "meta", "blocks", "all"}]
        /\ made' = made /\ disk' = disk /\ mem' = [mem EXCEPT ![p] = Fresh]
    BY <1>0, <1>10 DEF Stop
  <2>3. EpochsInOrder(disk)'
    BY <1>0, <2>2 DEF EpochsInOrder
  <2> QED BY <1>0, <2>1, <2>2, <2>3, InvKept
<1> QED BY <1>1, <1>2, <1>3, <1>4, <1>5, <1>6, <1>7, <1>8, <1>9, <1>10 DEF Next

\* What is remembered of who has read what.
HistoryOK == behind \subseteq Procs /\ overwrites \in Nat

\* Every save sets it, a stop takes the process out, and no other step changes it.
LEMMA HistoryTyped ==
  /\ Init => HistoryOK
  /\ HistoryOK /\ [Next]_vars => HistoryOK'
<1>1. Init => HistoryOK
  BY DEF Init, HistoryOK
<1>2. ASSUME HistoryOK, NEW p \in Procs, Saved(p)
      PROVE  HistoryOK'
  <2>1. behind' \subseteq Procs
    BY <1>2 DEF Saved
  <2>2. overwrites' \in Nat
    BY <1>2 DEF Saved, HistoryOK
  <2> QED BY <2>1, <2>2 DEF HistoryOK
<1>3. ASSUME HistoryOK, NEW p \in Procs, NEW s, Finish(p, s)
      PROVE  HistoryOK'
  BY <1>2, <1>3 DEF Finish
<1>4. ASSUME HistoryOK, [Next]_vars
      PROVE  HistoryOK'
  <2>1. CASE UNCHANGED history
    BY <1>4, <2>1 DEF history, HistoryOK
  <2>2. ASSUME NEW p \in Procs,
               ProduceBlock(p) \/ Attest(p) \/ FinalizeNow(p) \/ ForkChoice(p)
        PROVE  HistoryOK'
    <3>1. \E s : Finish(p, s)
      BY <2>2 DEF ProduceBlock, Attest, FinalizeNow, ForkChoice
    <3> QED BY <1>3, <1>4, <3>1
  <2>3. ASSUME NEW p \in Procs, LoopSlot(p)
        PROVE  HistoryOK'
    <3>1. Saved(p)
      BY <2>3 DEF LoopSlot
    <3> QED BY <1>2, <1>4, <3>1
  <2>4. ASSUME NEW p \in Procs, Stop(p)
        PROVE  HistoryOK'
    BY <1>4, <2>4 DEF Stop, HistoryOK
  <2>5. ASSUME NEW p \in Procs,
               (\E j \in Jobs : Start(p, j)) \/ ReadBlocks(p) \/ ReadVotes(p)
        PROVE  UNCHANGED history
    BY <2>5 DEF Start, ReadBlocks, ReadVotes
  <2>6. UNCHANGED vars => UNCHANGED history
    BY DEF vars, history
  <2> QED BY <1>4, <2>1, <2>2, <2>3, <2>4, <2>5, <2>6 DEF Next
<1> QED BY <1>1, <1>4

\* Types hold for any processes running at the same time.
THEOREM BeaconTyped == Spec => []TypeOK
<1>1. Inv /\ HistoryOK => TypeOK
  BY DEF Inv, HistoryOK, TypeOK
<1> QED BY InitInv, NextInv, HistoryTyped, <1>1, PTL DEF Spec

\* However many processes read and replace the file at the same time, its
\* checkpoints are in order and not ahead of its slot.
THEOREM CheckpointsStayInOrder == Spec => []CheckpointsInOrder
<1>1. Inv => CheckpointsInOrder
  BY DEF Inv, CheckpointsInOrder
<1> QED BY InitInv, NextInv, <1>1, PTL DEF Spec

\* However many processes there are, what the file says fits together.
THEOREM FileAlwaysConsistent == Spec => []FileConsistent
<1>1. TypeOK /\ CheckpointsInOrder => FileConsistent
  BY DEF FileConsistent
<1> QED BY BeaconTyped, CheckpointsStayInOrder, <1>1, PTL

-----------------------------------------------------------------------------
(***************************************************************************)
(* Processes beside each other, none of which saves a copy older than the  *)
(* file                                                                    *)
(***************************************************************************)

SlotOf(all, r) == IF r = GenesisRoot THEN 0 ELSE all[r].slot

\* The line of a block is a chain: closed under lines, with slots that rise
\* strictly up to the block, and of two blocks on it one is on the line of
\* the other.
LineOk(all, r) ==
  /\ LineIn(all, r) \subseteq 0 .. r /\ r \in LineIn(all, r) /\ GenesisRoot \in LineIn(all, r)
  /\ \A x \in LineIn(all, r) :
       /\ LineIn(all, x) \subseteq LineIn(all, r)
       /\ SlotOf(all, x) \in Nat
       /\ x # r => SlotOf(all, x) < SlotOf(all, r)
  /\ \A x, y \in LineIn(all, r) : x \in LineIn(all, y) \/ y \in LineIn(all, x)

Lines(all) == \A r \in 0 .. Len(all) : LineOk(all, r) /\ SlotOf(all, r) \in Nat

\* A state that only newest copies were saved over: every block voted for is on
\* the line of the head, what is justified was voted for (or is genesis), and
\* what is final is on the line of what is justified.
Sound(all, s) ==
  /\ s.head \in s.blocks \cup {GenesisRoot}
  /\ \A b \in s.blocks : SlotOf(all, b) <= s.slot
  /\ \A b, c \in s.blocks : SlotOf(all, b) = SlotOf(all, c) => b = c
  /\ \A v \in s.votes : v.head \in s.blocks /\ v.head \in LineIn(all, s.head)
  /\ s.justified.root = GenesisRoot \/ \E v \in s.votes : v.head = s.justified.root
  /\ s.finalized.root \in LineIn(all, s.justified.root)

\* A new block on the head of a sound state leaves the old lines alone and
\* has a line of its own.
LEMMA LinesGrow ==
  ASSUME StateOK, Lines(made), NEW s \in States(Len(made)), Sound(made, s),
         made' = Append(made, NewBlock(s))
  PROVE  /\ \A r \in 0 .. Len(made) : /\ LineIn(made', r) = LineIn(made, r)
                                      /\ SlotOf(made', r) = SlotOf(made, r)
         /\ LineIn(made', NewRoot) = LineIn(made, s.head) \cup {NewRoot}
         /\ SlotOf(made', NewRoot) = s.slot + 1
         /\ NewRoot = Len(made) + 1 /\ Len(made') = NewRoot /\ Len(made) \in Nat
         /\ Lines(made')
<1>1. /\ Len(made) \in Nat /\ Len(made') = Len(made) + 1 /\ NewRoot = Len(made) + 1
      /\ \A r \in 1 .. Len(made) : made'[r] = made[r]
      /\ made'[NewRoot] = NewBlock(s)
  BY MadeGrows DEF NewRoot
<1>2. s.head \in 0 .. Len(made) /\ s.slot \in Nat /\ s.blocks \subseteq 1 .. Len(made)
  BY DEF States
<1>3. \A r \in 0 .. Len(made) : /\ LineIn(made', r) = LineIn(made, r)
                                /\ SlotOf(made', r) = SlotOf(made, r)
  BY <1>1 DEF LineIn, SlotOf
<1>4. /\ LineIn(made', NewRoot) = LineIn(made, s.head) \cup {NewRoot}
      /\ SlotOf(made', NewRoot) = s.slot + 1
  BY <1>1 DEF LineIn, SlotOf, NewBlock, Line
<1>5. \A r \in 0 .. Len(made) : LineOk(made, r) /\ SlotOf(made, r) \in Nat
  BY DEF Lines
<1>6. SlotOf(made, s.head) <= s.slot
  BY <1>2 DEF Sound, SlotOf
<1>7. \A r \in 0 .. Len(made) : LineOk(made', r)
  <2> SUFFICES ASSUME NEW r \in 0 .. Len(made) PROVE LineOk(made', r)
    OBVIOUS
  <2>1. LineIn(made, r) \subseteq 0 .. Len(made)
    BY <1>1, <1>5 DEF LineOk
  <2>2. \A x \in 0 .. r : x \in 0 .. Len(made)
    BY <1>1
  <2>3. LineOk(made, r)
    BY <1>5
  <2> QED BY <1>3, <2>1, <2>3 DEF LineOk
<1>8. LineOk(made', NewRoot)
  <2>1. LineOk(made, s.head)
    BY <1>2, <1>5
  <2>2. LineIn(made, s.head) \subseteq 0 .. Len(made)
    BY <1>1, <1>2, <2>1 DEF LineOk
  <2>3. /\ LineIn(made', NewRoot) \subseteq 0 .. NewRoot
        /\ NewRoot \in LineIn(made', NewRoot)
        /\ GenesisRoot \in LineIn(made', NewRoot)
    BY <1>1, <1>4, <2>1, <2>2 DEF LineOk
  <2>4. ASSUME NEW x \in LineIn(made', NewRoot)
        PROVE  /\ LineIn(made', x) \subseteq LineIn(made', NewRoot)
               /\ SlotOf(made', x) \in Nat
               /\ x # NewRoot => SlotOf(made', x) < SlotOf(made', NewRoot)
    <3>1. CASE x = NewRoot
      BY <1>2, <1>4, <3>1
    <3>2. CASE x # NewRoot
      <4>1. x \in LineIn(made, s.head) /\ x \in 0 .. Len(made)
        BY <1>4, <2>2, <3>2
      <4>2. LineIn(made', x) = LineIn(made, x) /\ SlotOf(made', x) = SlotOf(made, x)
        BY <1>3, <4>1
      <4>3. SlotOf(made, x) \in Nat /\ SlotOf(made, s.head) \in Nat /\ SlotOf(made, x) <= SlotOf(made, s.head)
        BY <1>2, <1>5, <2>1, <4>1 DEF LineOk
      <4>4. LineIn(made, x) \subseteq LineIn(made, s.head)
        BY <2>1, <4>1 DEF LineOk
      <4> QED BY <1>2, <1>4, <1>6, <4>2, <4>3, <4>4
    <3> QED BY <3>1, <3>2
  <2>5. ASSUME NEW x \in LineIn(made', NewRoot), NEW y \in LineIn(made', NewRoot)
        PROVE  x \in LineIn(made', y) \/ y \in LineIn(made', x)
    <3>1. CASE x = NewRoot \/ y = NewRoot
      BY <3>1
    <3>2. CASE x # NewRoot /\ y # NewRoot
      <4>1. x \in LineIn(made, s.head) /\ y \in LineIn(made, s.head)
        BY <1>4, <3>2
      <4>2. x \in LineIn(made, y) \/ y \in LineIn(made, x)
        BY <2>1, <4>1 DEF LineOk
      <4> QED BY <1>3, <2>2, <4>1, <4>2
    <3> QED BY <3>1, <3>2
  <2> QED BY <2>3, <2>4, <2>5 DEF LineOk
<1>9. \A r \in 0 .. NewRoot : r \in 0 .. Len(made) \/ r = NewRoot
  BY <1>1
<1>10. Lines(made')
  BY <1>1, <1>2, <1>3, <1>4, <1>5, <1>7, <1>8, <1>9 DEF Lines
<1> QED BY <1>1, <1>3, <1>4, <1>10

\* Soundness does not depend on blocks made later.
LEMMA SoundKept ==
  ASSUME NEW all, NEW all2, NEW n \in Nat, Len(all) = n, Lines(all),
         \A r \in 0 .. n : LineIn(all2, r) = LineIn(all, r) /\ SlotOf(all2, r) = SlotOf(all, r),
         NEW s \in States(n), Sound(all, s)
  PROVE  Sound(all2, s)
<1>1. /\ s.head \in 0 .. n /\ s.justified.root \in 0 .. n
      /\ s.blocks \subseteq 0 .. n
  BY DEF States, Checkpoints
<1> QED BY <1>1 DEF Sound

\* Soundness through each function of beacon.py
LEMMA FreshSound ==
  ASSUME NEW all
  PROVE  Sound(all, Fresh)
<1>1. /\ Fresh.head = GenesisRoot /\ Fresh.blocks = {} /\ Fresh.votes = {}
      /\ Fresh.justified.root = GenesisRoot /\ Fresh.finalized.root = GenesisRoot
  BY DEF Fresh, Checkpoint
<1>2. GenesisRoot \in LineIn(all, GenesisRoot)
  BY DEF LineIn
<1> QED BY <1>1, <1>2 DEF Sound

\* A produced block goes on from the head, so head, votes and checkpoints stay on their lines.
LEMMA WithBlockSound ==
  ASSUME StateOK, Lines(made), NEW s \in States(Len(made)), Sound(made, s),
         made' = Append(made, NewBlock(s))
  PROVE  Sound(made', WithBlock(s))
<1>1. /\ \A r \in 0 .. Len(made) : /\ LineIn(made', r) = LineIn(made, r)
                                   /\ SlotOf(made', r) = SlotOf(made, r)
      /\ LineIn(made', NewRoot) = LineIn(made, s.head) \cup {NewRoot}
      /\ SlotOf(made', NewRoot) = s.slot + 1
      /\ Len(made) \in Nat
  BY LinesGrow
<1>2. /\ s.blocks \subseteq 1 .. Len(made) /\ s.slot \in Nat
      /\ s.justified.root \in 0 .. Len(made)
  BY DEF States, Checkpoints
<1>3. Sound(made', s)
  BY <1>1, SoundKept
<1> DEFINE t == WithBlock(s)
<1>4. /\ t.slot = s.slot + 1 /\ t.head = NewRoot /\ t.blocks = s.blocks \cup {NewRoot}
      /\ t.votes = s.votes /\ t.justified = s.justified /\ t.finalized = s.finalized
  BY DEF WithBlock, States
<1> HIDE DEF t
<1>5. \A b \in s.blocks : SlotOf(made', b) \in Nat
  BY <1>1, <1>2 DEF Lines
<1>6. \A b \in t.blocks : SlotOf(made', b) <= t.slot
  BY <1>1, <1>2, <1>3, <1>4, <1>5 DEF Sound
<1>7. \A b, c \in t.blocks : SlotOf(made', b) = SlotOf(made', c) => b = c
  <2>1. \A b \in s.blocks : SlotOf(made', b) # s.slot + 1
    BY <1>2, <1>3, <1>5 DEF Sound
  <2> QED BY <1>1, <1>3, <1>4, <2>1 DEF Sound
<1>8. \A v \in t.votes : v.head \in t.blocks /\ v.head \in LineIn(made', t.head)
  <2>1. \A v \in s.votes : v.head \in s.blocks /\ v.head \in LineIn(made, s.head)
    BY DEF Sound
  <2> QED BY <1>1, <1>4, <2>1
<1>9. /\ t.justified.root = GenesisRoot \/ \E v \in t.votes : v.head = t.justified.root
      /\ t.finalized.root \in LineIn(made', t.justified.root)
  BY <1>3, <1>4 DEF Sound
<1>10. t.head \in t.blocks
  BY <1>4
<1> QED BY <1>6, <1>7, <1>8, <1>9, <1>10 DEF Sound, t

\* A vote is cast for the head and for its epoch, so votes stay on one line.
LEMMA AttestedSound ==
  ASSUME NEW all, Lines(all), Len(all) \in Nat, NEW s \in States(Len(all)), Sound(all, s)
  PROVE  /\ Sound(all, Attested(s))
         /\ Attested(s).head = GenesisRoot \/ \E v \in Attested(s).votes : v.head = s.head
         /\ Attested(s).head = s.head
<1> DEFINE t == Attested(s)
           more == {[head |-> b, target |-> Epoch(s.slot)] : b \in s.blocks \cap {s.head}}
<1>1. /\ t.slot = s.slot /\ t.head = s.head /\ t.blocks = s.blocks
      /\ t.votes = s.votes \cup more /\ t.justified = s.justified /\ t.finalized = s.finalized
  BY DEF Attested, States
<1>2. \A v \in more : v.head = s.head /\ s.head \in s.blocks
  OBVIOUS
<1>3. s.head \in s.blocks => \E v \in more : v.head = s.head
  <2> SUFFICES ASSUME s.head \in s.blocks PROVE \E v \in more : v.head = s.head
    OBVIOUS
  <2>1. [head |-> s.head, target |-> Epoch(s.slot)] \in more
    OBVIOUS
  <2> HIDE DEF more
  <2> QED BY <2>1
<1> HIDE DEF t, more
<1>4. s.head \in LineIn(all, s.head)
  <2>1. s.head \in 0 .. Len(all)
    BY DEF States
  <2> QED BY <2>1 DEF Lines, LineOk
<1>5. \A v \in t.votes : v.head \in t.blocks /\ v.head \in LineIn(all, t.head)
  BY <1>1, <1>2, <1>4 DEF Sound
<1>6. t.justified.root = GenesisRoot \/ \E v \in t.votes : v.head = t.justified.root
  BY <1>1 DEF Sound
<1>7. Sound(all, t)
  BY <1>1, <1>5, <1>6 DEF Sound
<1>8. s.head = GenesisRoot \/ s.head \in s.blocks
  BY DEF Sound
<1> QED BY <1>1, <1>3, <1>7, <1>8 DEF t

\* The finality step turns the justified checkpoint into the final one, and
\* what was final is on its line.
LEMMA FinalizedSound ==
  ASSUME NEW all, Lines(all), Len(all) \in Nat, NEW s \in States(Len(all)), Sound(all, s),
         s.head = GenesisRoot \/ \E v \in s.votes : v.head = s.head
  PROVE  /\ Sound(all, Finalized(s))
         /\ s.finalized.root \in LineIn(all, Finalized(s).finalized.root)
<1> DEFINE t == Finalized(s)
<1>1. /\ t.slot = s.slot /\ t.head = s.head /\ t.blocks = s.blocks /\ t.votes = s.votes
      /\ t.justified = Checkpoint(Epoch(s.slot), s.head)
      /\ t.finalized = s.justified \/ t.finalized = s.finalized
  BY DEF Finalized, States
<1>2. t.justified.root = s.head
  BY <1>1 DEF Checkpoint
<1> HIDE DEF t
<1>3. /\ s.head \in 0 .. Len(all) /\ s.justified.root \in 0 .. Len(all)
      /\ s.finalized.root \in 0 .. Len(all)
  BY DEF States, Checkpoints
<1>4. LineOk(all, s.head) /\ LineOk(all, s.finalized.root)
  BY <1>3 DEF Lines
<1>5. s.justified.root \in LineIn(all, s.head)
  BY <1>4 DEF Sound, LineOk
<1>6. s.finalized.root \in LineIn(all, s.head)
  BY <1>4, <1>5 DEF Sound, LineOk
<1>7. s.finalized.root \in LineIn(all, t.finalized.root)
  BY <1>1, <1>4 DEF Sound, LineOk
<1>8. t.finalized.root \in LineIn(all, t.justified.root)
  BY <1>1, <1>2, <1>5, <1>6
<1>9. Sound(all, t)
  BY <1>1, <1>2, <1>8 DEF Sound
<1> QED BY <1>7, <1>9 DEF t

\* Fork choice goes to the latest block voted for: the others voted for are
\* on its line, because they were on the line of the old head together.
LEMMA ChosenSound ==
  ASSUME NEW all, Lines(all), Len(all) \in Nat, NEW s \in States(Len(all)), Sound(all, s),
         NEW t \in Chosen(s, all)
  PROVE  Sound(all, t) /\ t.finalized = s.finalized
<1>1. CASE t = s
  BY <1>1
<1>2. CASE \E h \in Heads(s.blocks, s.votes, all) : t = [s EXCEPT !.head = h]
  <2>1. PICK h \in Heads(s.blocks, s.votes, all) : t = [s EXCEPT !.head = h]
    BY <1>2
  <2>2. /\ t.slot = s.slot /\ t.head = h /\ t.blocks = s.blocks /\ t.votes = s.votes
        /\ t.justified = s.justified /\ t.finalized = s.finalized
    BY <2>1 DEF States
  <2>3. h \in s.blocks /\ h \in 1 .. Len(all)
    BY DEF Heads, States
  <2>4. ASSUME NEW v \in s.votes PROVE v.head \in LineIn(all, h)
    <3>1. v.head \in s.blocks /\ v.head \in 1 .. Len(all)
      BY DEF Sound, States
    <3>2. (\E w \in s.votes : w.head = h) /\ all[v.head].slot <= all[h].slot
      BY <3>1 DEF Heads
    <3>3. h \in LineIn(all, s.head) /\ v.head \in LineIn(all, s.head)
      BY <3>2 DEF Sound
    <3>4. LineOk(all, s.head) /\ LineOk(all, v.head) /\ LineOk(all, h)
      BY <2>3, <3>1 DEF Lines, States
    <3>5. v.head \in LineIn(all, h) \/ h \in LineIn(all, v.head)
      BY <3>3, <3>4 DEF LineOk
    <3>6. SlotOf(all, v.head) <= SlotOf(all, h) /\ SlotOf(all, v.head) \in Nat /\ SlotOf(all, h) \in Nat
      BY <2>3, <3>1, <3>2 DEF SlotOf, Lines
    <3>7. h \in LineIn(all, v.head) => h = v.head
      BY <3>4, <3>6 DEF LineOk
    <3> QED BY <3>4, <3>5, <3>7 DEF LineOk
  <2> QED BY <2>2, <2>3, <2>4 DEF Sound
<1> QED BY <1>1, <1>2 DEF Chosen

\* From a state to one that keeps its final checkpoint or moves it on.
Onward(all, s, t) ==
  /\ Sound(all, t)
  /\ s.finalized.epoch <= t.finalized.epoch
  /\ s.finalized.root \in LineIn(all, t.finalized.root)

\* A state that finalizes nothing new is no step back.
LEMMA OnwardSame ==
  ASSUME NEW all, Lines(all), Len(all) \in Nat, NEW s, NEW t, Sound(all, t),
         t.finalized = s.finalized, s.finalized \in Checkpoints(Len(all))
  PROVE  Onward(all, s, t)
<1>1. s.finalized.root \in 0 .. Len(all) /\ s.finalized.epoch \in Nat
  BY DEF Checkpoints
<1> QED BY <1>1 DEF Onward, Lines, LineOk

\* Attesting and counting, as the finalize command and the loop do.
LEMMA CountedOnward ==
  ASSUME NEW all, Lines(all), Len(all) \in Nat, NEW s \in States(Len(all)),
         Sound(all, s), EpochsInOrder(s)
  PROVE  /\ Onward(all, s, Attested(s))
         /\ Onward(all, s, Finalized(Attested(s)))
<1> DEFINE v == Attested(s)
           t == Finalized(v)
<1>1. v \in States(Len(all)) /\ EpochsInOrder(v)
  BY AttestedTyped
<1>2. v.finalized = s.finalized
  BY DEF Attested, States
<1>3. /\ Sound(all, v)
      /\ v.head = GenesisRoot \/ \E w \in v.votes : w.head = v.head
  BY AttestedSound
<1> HIDE DEF v
<1>4. Sound(all, t) /\ v.finalized.root \in LineIn(all, t.finalized.root)
  BY <1>1, <1>3, FinalizedSound
<1>5. t.finalized = v.justified \/ t.finalized = v.finalized
  BY <1>1 DEF Finalized, States
<1>6. v.finalized.epoch \in Nat /\ v.justified.epoch \in Nat
  BY <1>1 DEF States, Checkpoints
<1>7. v.finalized.epoch <= v.justified.epoch
  BY <1>1, <1>6 DEF EpochsInOrder, Checkpoint
<1> HIDE DEF t
<1>8. Onward(all, s, t)
  BY <1>2, <1>4, <1>5, <1>6, <1>7 DEF Onward
<1>9. s.finalized \in Checkpoints(Len(all))
  BY DEF States
<1>10. Onward(all, s, v)
  BY <1>2, <1>3, <1>9, OnwardSame
<1> QED BY <1>8, <1>10 DEF v, t

\* What a process has read so far is what the file holds.
OneReader(p) ==
  /\ read[p] = "meta" => mem[p] = [disk EXCEPT !.blocks = {}, !.votes = {}]
  /\ read[p] = "blocks" => mem[p] = [disk EXCEPT !.votes = {}]
  /\ read[p] = "all" => mem[p] = disk
Idle == \A p \in Procs : job[p] = "off" => read[p] = "nothing"

\* The invariant as long as nothing was saved over what had not been read:
\* the file is sound, and whoever is not behind has read what it holds.
SeqInv ==
  /\ Lines(made)
  /\ Sound(made, disk)
  /\ \A p \in Procs \ behind : OneReader(p)
  /\ Idle

\* Nothing is read or stored at first.
LEMMA SeqInit ==
  ASSUME Init
  PROVE  SeqInv
<1>1. Len(made) = 0 /\ Sound(made, disk) /\ (\A p \in Procs : OneReader(p)) /\ Idle
  BY FreshSound DEF Init, OneReader, Idle
<1>2. LineIn(made, 0) = {0} /\ SlotOf(made, 0) = 0
  BY DEF LineIn, SlotOf
<1>3. LineOk(made, 0)
  BY <1>2 DEF LineOk
<1>4. \A r \in 0 .. Len(made) : r = 0
  BY <1>1
<1>5. Lines(made)
  BY <1>2, <1>3, <1>4 DEF Lines
<1> QED BY <1>1, <1>5 DEF SeqInv

\* After a save every other running process is behind.
LEMMA FinishSeq ==
  ASSUME NEW p \in Procs, NEW s, Finish(p, s), StateOK, Idle,
         Lines(made'), Sound(made', s)
  PROVE  SeqInv'
<1>1. /\ disk' = s /\ read' = [read EXCEPT ![p] = "nothing"] /\ job' = [job EXCEPT ![p] = "off"]
      /\ behind' = {q \in Procs \ {p} : job[q] # "off"}
  BY DEF Finish, Saved
<1>2. \A q \in Procs \ behind' : read'[q] = "nothing"
  BY <1>1 DEF Idle, StateOK
<1>3. \A q \in Procs \ behind' : OneReader(q)'
  BY <1>2 DEF OneReader
<1>4. Idle'
  BY <1>1 DEF Idle, StateOK
<1>5. Lines(made)'
  BY DEF Lines, LineOk, LineIn, SlotOf
<1>6. Sound(made, disk)'
  BY <1>1 DEF Sound, LineIn, SlotOf
<1> QED BY <1>3, <1>4, <1>5, <1>6 DEF SeqInv

\* A step of p that leaves the file and the others alone.
LEMMA ReadSeq ==
  ASSUME SeqInv, made' = made, disk' = disk, Idle',
         NEW p \in Procs, behind \subseteq behind' \cup {p},
         p \notin behind' => OneReader(p)',
         \A q \in Procs \ {p} : mem'[q] = mem[q] /\ read'[q] = read[q]
  PROVE  SeqInv'
<1>1. \A q \in Procs \ behind' : OneReader(q)'
  <2> SUFFICES ASSUME NEW q \in Procs \ behind', q # p PROVE OneReader(q)'
    OBVIOUS
  <2>1. OneReader(q)
    BY DEF SeqInv
  <2> QED BY <2>1 DEF OneReader
<1>2. Lines(made)'
  BY DEF SeqInv, Lines, LineOk, LineIn, SlotOf
<1>3. Sound(made, disk)'
  BY DEF SeqInv, Sound, LineIn, SlotOf
<1> QED BY <1>1, <1>2, <1>3 DEF SeqInv

\* No process is started to do nothing.
LEMMA JobOn == \A j \in Jobs : j # "off"
BY DEF Commands

\* Who saves without counting as an overwriter had the file's content.
LEMMA NotBehind ==
  ASSUME HistoryOK, NEW p \in Procs, Saved(p), overwrites' = 0
  PROVE  p \notin behind
BY DEF HistoryOK, Saved

\* Steps that save nothing old keep lines, head, votes and checkpoints in place.
LEMMA SeqNext ==
  ASSUME Inv, HistoryOK, SeqInv, [Next]_vars, overwrites' = 0
  PROVE  SeqInv' /\ Onward(made', disk, disk')
<1>0. /\ StateOK /\ Lines(made) /\ Sound(made, disk)
      /\ Len(made) \in Nat /\ disk \in States(Len(made)) /\ EpochsInOrder(disk)
      /\ disk.finalized \in Checkpoints(Len(made))
      /\ \A p \in Procs \ behind : OneReader(p)
      /\ Idle
  BY LenProperties DEF Inv, SeqInv, StateOK, States
<1>1. ASSUME made' = made, disk' = disk PROVE Onward(made', disk, disk')
  BY <1>0, <1>1, OnwardSame
<1>2. CASE UNCHANGED vars
  <2>1. /\ made' = made /\ disk' = disk /\ mem' = mem /\ read' = read /\ job' = job
        /\ behind' = behind
    BY <1>2 DEF vars
  <2>2. (\A p \in Procs \ behind' : OneReader(p)') /\ Idle'
    BY <1>0, <2>1 DEF OneReader, Idle
  <2>3. Lines(made)' /\ Sound(made, disk)'
    BY <1>0, <2>1 DEF Lines, LineOk, LineIn, SlotOf, Sound
  <2> QED BY <1>1, <2>1, <2>2, <2>3 DEF SeqInv
<1>3. ASSUME NEW p \in Procs, NEW j \in Jobs, Start(p, j) PROVE SeqInv' /\ Onward(made', disk, disk')
  <2>1. /\ made' = made /\ disk' = disk /\ read'[p] = "meta"
        /\ mem'[p] = [disk EXCEPT !.blocks = {}, !.votes = {}]
        /\ \A q \in Procs \ {p} : mem'[q] = mem[q] /\ read'[q] = read[q]
        /\ behind' = behind
    BY <1>0, <1>3 DEF Start, StateOK, history
  <2>2. OneReader(p)'
    BY <2>1 DEF OneReader
  <2>3. Idle'
    BY <1>0, <1>3, JobOn DEF Start, StateOK, Idle
  <2> QED BY <1>1, <2>1, <2>2, <2>3, ReadSeq
<1>4. ASSUME NEW p \in Procs, ReadBlocks(p) PROVE SeqInv' /\ Onward(made', disk, disk')
  <2>1. /\ made' = made /\ disk' = disk /\ read'[p] = "blocks"
        /\ mem'[p] = [mem[p] EXCEPT !.blocks = disk.blocks]
        /\ \A q \in Procs \ {p} : mem'[q] = mem[q] /\ read'[q] = read[q]
        /\ behind' = behind
    BY <1>0, <1>4 DEF ReadBlocks, StateOK, history
  <2>2. p \notin behind => mem[p] = [disk EXCEPT !.blocks = {}, !.votes = {}]
    BY <1>0, <1>4 DEF ReadBlocks, OneReader
  <2>3. p \notin behind => mem'[p] = [disk EXCEPT !.votes = {}]
    BY <1>0, <2>1, <2>2 DEF States
  <2>4. p \notin behind' => OneReader(p)'
    BY <2>1, <2>3 DEF OneReader
  <2>5. Idle'
    BY <1>0, <1>4 DEF ReadBlocks, StateOK, Idle
  <2> QED BY <1>1, <2>1, <2>4, <2>5, ReadSeq
<1>5. ASSUME NEW p \in Procs, ReadVotes(p) PROVE SeqInv' /\ Onward(made', disk, disk')
  <2>1. /\ made' = made /\ disk' = disk /\ read'[p] = "all"
        /\ mem'[p] = [mem[p] EXCEPT !.votes = {v \in disk.votes : v.head \in mem[p].blocks}]
        /\ \A q \in Procs \ {p} : mem'[q] = mem[q] /\ read'[q] = read[q]
        /\ behind' = behind
    BY <1>0, <1>5 DEF ReadVotes, StateOK, history
  <2>2. p \notin behind => mem[p] = [disk EXCEPT !.votes = {}]
    BY <1>0, <1>5 DEF ReadVotes, OneReader
  <2>3. p \notin behind => mem[p].blocks = disk.blocks
    BY <1>0, <2>2 DEF States
  <2>4. p \notin behind => {v \in disk.votes : v.head \in mem[p].blocks} = disk.votes
    BY <1>0, <2>3 DEF Sound
  <2>5. p \notin behind => mem'[p] = disk
    BY <1>0, <2>1, <2>2, <2>4 DEF States
  <2>6. p \notin behind' => OneReader(p)'
    BY <2>1, <2>5 DEF OneReader
  <2>7. Idle'
    BY <1>0, <1>5 DEF ReadVotes, StateOK, Idle
  <2> QED BY <1>1, <2>1, <2>6, <2>7, ReadSeq
<1>6. ASSUME NEW p \in Procs, ProduceBlock(p) PROVE SeqInv' /\ Onward(made', disk, disk')
  <2>0. p \notin behind
    BY <1>6, NotBehind DEF ProduceBlock, Finish
  <2>1. mem[p] = disk
    BY <1>0, <2>0, <1>6 DEF ProduceBlock, OneReader
  <2>2. made' = Append(made, NewBlock(disk)) /\ Finish(p, WithBlock(disk))
    BY <1>6, <2>1 DEF ProduceBlock
  <2>3. Lines(made') /\ Len(made') = Len(made) + 1
    BY <1>0, <2>2, LinesGrow
  <2>4. Sound(made', WithBlock(disk))
    BY <1>0, <2>2, WithBlockSound
  <2>5. disk' = WithBlock(disk) /\ WithBlock(disk).finalized = disk.finalized
    BY <1>0, <2>2 DEF Finish, WithBlock, States
  <2>6. disk \in States(Len(made'))
    BY <1>0, <2>3, StatesGrow
  <2>7. disk.finalized \in Checkpoints(Len(made'))
    BY <2>6 DEF States
  <2>8. Onward(made', disk, disk')
    BY <1>0, <2>3, <2>4, <2>5, <2>7, OnwardSame
  <2> QED BY <1>0, <2>2, <2>3, <2>4, <2>8, FinishSeq
<1>7. ASSUME NEW p \in Procs, Attest(p) PROVE SeqInv' /\ Onward(made', disk, disk')
  <2>0. p \notin behind
    BY <1>7, NotBehind DEF Attest, Finish
  <2>1. mem[p] = disk /\ made' = made
    BY <1>0, <2>0, <1>7 DEF Attest, OneReader
  <2>2. Finish(p, Attested(disk)) /\ disk' = Attested(disk)
    BY <1>7, <2>1 DEF Attest, Finish
  <2>3. Onward(made', disk, disk')
    BY <1>0, <2>1, <2>2, CountedOnward
  <2> QED BY <1>0, <2>1, <2>2, <2>3, FinishSeq DEF Onward
<1>8. ASSUME NEW p \in Procs, FinalizeNow(p) PROVE SeqInv' /\ Onward(made', disk, disk')
  <2>0. p \notin behind
    BY <1>8, NotBehind DEF FinalizeNow, Finish
  <2>1. mem[p] = disk /\ made' = made
    BY <1>0, <2>0, <1>8 DEF FinalizeNow, OneReader
  <2>2. Finish(p, Finalized(Attested(disk))) /\ disk' = Finalized(Attested(disk))
    BY <1>8, <2>1 DEF FinalizeNow, Finish
  <2>3. Onward(made', disk, disk')
    BY <1>0, <2>1, <2>2, CountedOnward
  <2> QED BY <1>0, <2>1, <2>2, <2>3, FinishSeq DEF Onward
<1>9. ASSUME NEW p \in Procs, ForkChoice(p) PROVE SeqInv' /\ Onward(made', disk, disk')
  <2>0. p \notin behind
    BY <1>9, NotBehind DEF ForkChoice, Finish
  <2>1. mem[p] = disk /\ made' = made
    BY <1>0, <2>0, <1>9 DEF ForkChoice, OneReader
  <2>2. PICK s \in Chosen(disk, made) : Finish(p, s)
    BY <1>9, <2>1 DEF ForkChoice
  <2>3. Sound(made, s) /\ s.finalized = disk.finalized /\ disk' = s
    BY <1>0, <2>2, ChosenSound DEF Finish
  <2>4. Onward(made', disk, disk')
    BY <1>0, <2>1, <2>3, OnwardSame
  <2> QED BY <1>0, <2>1, <2>2, <2>3, <2>4, FinishSeq
<1>10. ASSUME NEW p \in Procs, LoopSlot(p) PROVE SeqInv' /\ Onward(made', disk, disk')
  <2> DEFINE new == WithBlock(disk)
             voted == Attested(new)
             counted == IF voted.slot % SlotsPerEpoch = 0 THEN Finalized(voted) ELSE voted
  <2>0. p \notin behind
    BY <1>10, NotBehind DEF LoopSlot
  <2>1. mem[p] = disk
    BY <1>0, <2>0, <1>10 DEF LoopSlot, OneReader
  <2>2. PICK s \in Chosen(counted, made') : disk' = s /\ mem' = [mem EXCEPT ![p] = s]
    BY <1>10, <2>1 DEF LoopSlot
  <2>3. made' = Append(made, NewBlock(disk)) /\ read' = read
    BY <1>10, <2>1 DEF LoopSlot
  <2>4. Lines(made') /\ Len(made') = Len(made) + 1 /\ Len(made') \in Nat
    BY <1>0, <2>3, LinesGrow
  <2>5. new \in States(Len(made')) /\ EpochsInOrder(new)
    BY <1>0, <2>4, WithBlockTyped DEF StateOK
  <2>6. Sound(made', new)
    BY <1>0, <2>3, WithBlockSound
  <2>7. new.finalized = disk.finalized
    BY <1>0 DEF WithBlock, States
  <2> HIDE DEF new
  <2>8. Onward(made', new, voted) /\ Onward(made', new, Finalized(voted))
    BY <2>4, <2>5, <2>6, CountedOnward
  <2>9. voted \in States(Len(made')) /\ EpochsInOrder(voted)
    BY <2>4, <2>5, AttestedTyped
  <2>10. Finalized(voted) \in States(Len(made'))
    BY <2>4, <2>9, FinalizedTyped
  <2>11. Onward(made', new, counted) /\ counted \in States(Len(made'))
    BY <2>8, <2>9, <2>10
  <2> HIDE DEF counted
  <2>12. Sound(made', s) /\ s.finalized = counted.finalized
    BY <2>2, <2>4, <2>11, ChosenSound DEF Onward
  <2>13. Onward(made', disk, disk')
    BY <2>2, <2>7, <2>11, <2>12 DEF Onward
  <2>14. behind' = {q \in Procs \ {p} : job[q] # "off"} /\ job' = job
    BY <1>10 DEF LoopSlot, Saved
  <2>15. \A q \in Procs \ behind' : q # p => read'[q] = "nothing"
    BY <1>0, <2>3, <2>14 DEF Idle
  <2>16. mem'[p] = disk' /\ read'[p] = "all"
    BY <1>0, <1>10, <2>2, <2>3 DEF StateOK, LoopSlot
  <2>17. \A q \in Procs \ behind' : OneReader(q)'
    BY <2>15, <2>16 DEF OneReader
  <2>18. Idle'
    BY <1>0, <2>3, <2>14 DEF Idle
  <2>19. Lines(made)'
    BY <2>4 DEF Lines, LineOk, LineIn, SlotOf
  <2>20. Sound(made, disk)'
    BY <2>2, <2>12 DEF Sound, LineIn, SlotOf
  <2> QED BY <2>13, <2>17, <2>18, <2>19, <2>20 DEF SeqInv
<1>11. ASSUME NEW p \in Procs, Stop(p) PROVE SeqInv' /\ Onward(made', disk, disk')
  <2>1. /\ made' = made /\ disk' = disk /\ read'[p] = "nothing"
        /\ \A q \in Procs \ {p} : mem'[q] = mem[q] /\ read'[q] = read[q]
        /\ behind' = behind \ {p}
    BY <1>0, <1>11 DEF Stop, StateOK
  <2>2. OneReader(p)'
    BY <2>1 DEF OneReader
  <2>3. Idle'
    BY <1>0, <1>11 DEF Stop, StateOK, Idle
  <2> QED BY <1>1, <2>1, <2>2, <2>3, ReadSeq
<1> QED BY <1>2, <1>3, <1>4, <1>5, <1>6, <1>7, <1>8, <1>9, <1>10, <1>11 DEF Next

\* The count of such saves only grows.
LEMMA CountGrows ==
  ASSUME HistoryOK, [Next]_vars, overwrites' = 0
  PROVE  overwrites = 0
<1>1. ASSUME NEW p \in Procs, Saved(p) PROVE overwrites = 0
  BY <1>1 DEF HistoryOK, Saved
<1>2. ASSUME NEW p \in Procs, NEW s, Finish(p, s) PROVE overwrites = 0
  BY <1>1, <1>2 DEF Finish
<1>3. ASSUME NEW p \in Procs,
             ProduceBlock(p) \/ Attest(p) \/ FinalizeNow(p) \/ ForkChoice(p)
      PROVE  overwrites = 0
  <2>1. \E s : Finish(p, s)
    BY <1>3 DEF ProduceBlock, Attest, FinalizeNow, ForkChoice
  <2> QED BY <1>2, <2>1
<1>4. ASSUME NEW p \in Procs, LoopSlot(p) PROVE overwrites = 0
  <2>1. Saved(p)
    BY <1>4 DEF LoopSlot
  <2> QED BY <1>1, <2>1
<1>5. ASSUME NEW p \in Procs,
             (\E j \in Jobs : Start(p, j)) \/ ReadBlocks(p) \/ ReadVotes(p) \/ Stop(p)
      PROVE  overwrites = 0
  BY <1>5 DEF Start, ReadBlocks, ReadVotes, Stop, history
<1>6. CASE UNCHANGED vars
  BY <1>6 DEF vars
<1> QED BY <1>3, <1>4, <1>5, <1>6 DEF Next

\* What holds until a copy older than the file is saved over it.
UntilOverwritten == overwrites = 0 => SeqInv

LEMMA SeqHolds == Spec => [](Inv /\ HistoryOK /\ UntilOverwritten)
<1>1. Init => UntilOverwritten
  BY SeqInit DEF UntilOverwritten
<1>2. Inv /\ HistoryOK /\ UntilOverwritten /\ [Next]_vars => UntilOverwritten'
  <2> SUFFICES ASSUME Inv, HistoryOK, UntilOverwritten, [Next]_vars, overwrites' = 0
               PROVE  SeqInv'
    BY DEF UntilOverwritten
  <2>1. SeqInv
    BY CountGrows DEF UntilOverwritten
  <2> QED BY <2>1, SeqNext
<1> QED BY InitInv, NextInv, HistoryTyped, <1>1, <1>2, PTL DEF Spec

\* However many processes run and wherever they are killed: until one saves
\* over what it has not read, no slot has two blocks in the file.
THEOREM NoSlotTwice == Spec => []NoDoubleProposal
<1>1. Inv /\ UntilOverwritten => NoDoubleProposal
  <2> SUFFICES ASSUME Inv, SeqInv, NEW b \in disk.blocks, NEW c \in disk.blocks,
                      made[b].slot = made[c].slot
               PROVE  b = c
    BY DEF NoDoubleProposal, UntilOverwritten
  <2>1. b # 0 /\ c # 0
    BY DEF Inv, StateOK, States
  <2> QED BY <2>1 DEF SeqInv, Sound, SlotOf
<1> QED BY SeqHolds, <1>1, PTL

\* In the same way, the blocks voted for are on one line.
THEOREM VotesStayOnOneLine == Spec => []VotesOnOneLine
<1>1. Inv /\ UntilOverwritten => VotesOnOneLine
  <2> SUFFICES ASSUME Inv, SeqInv, NEW v \in disk.votes, NEW w \in disk.votes
               PROVE  v.head \in Line(w.head) \/ w.head \in Line(v.head)
    BY DEF VotesOnOneLine, UntilOverwritten
  <2>1. disk.head \in 0 .. Len(made)
    BY DEF Inv, StateOK, States
  <2>2. LineOk(made, disk.head)
    BY <2>1 DEF SeqInv, Lines
  <2> QED BY <2>2 DEF SeqInv, Sound, LineOk, Line
<1> QED BY SeqHolds, <1>1, PTL

\* In the same way, final is on the line of justified and justified on the
\* line of the head.
THEOREM FinalIsOnHead == Spec => []FinalOnHead
<1>1. Inv /\ UntilOverwritten => FinalOnHead
  <2> SUFFICES ASSUME Inv, SeqInv
               PROVE  /\ disk.finalized.root \in Line(disk.justified.root)
                      /\ disk.justified.root \in Line(disk.head)
    BY DEF FinalOnHead, UntilOverwritten
  <2>1. disk.head \in 0 .. Len(made)
    BY DEF Inv, StateOK, States
  <2>2. LineOk(made, disk.head)
    BY <2>1 DEF SeqInv, Lines
  <2>3. disk.justified.root \in LineIn(made, disk.head)
    BY <2>2 DEF SeqInv, Sound, LineOk
  <2> QED BY <2>3 DEF SeqInv, Sound, Line
<1> QED BY SeqHolds, <1>1, PTL

\* In the same way, a final checkpoint is never taken back.
THEOREM FinalNeverTakenBack == Spec => FinalStays
<1> DEFINE Stays == overwrites' = 0 => /\ disk.finalized.epoch <= disk'.finalized.epoch
                                       /\ disk.finalized.root \in FinalLine'
<1>1. Inv /\ HistoryOK /\ UntilOverwritten /\ [Next]_vars => [Stays]_vars
  <2> SUFFICES ASSUME Inv, HistoryOK, UntilOverwritten, [Next]_vars, overwrites' = 0
               PROVE  /\ disk.finalized.epoch <= disk'.finalized.epoch
                      /\ disk.finalized.root \in FinalLine'
    OBVIOUS
  <2>1. SeqInv
    BY CountGrows DEF UntilOverwritten
  <2>2. Onward(made', disk, disk')
    BY <2>1, SeqNext
  <2> QED BY <2>2 DEF Onward, FinalLine, Line, LineIn
<1> QED BY SeqHolds, <1>1, PTL DEF Spec, FinalStays
=============================================================================
