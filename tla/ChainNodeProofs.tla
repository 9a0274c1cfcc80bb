--------------------------- MODULE ChainNodeProofs ---------------------------
(***************************************************************************)
(* The guarantees of one node's chain hold for every tree of blocks, every *)
(* assignment of stakes and every finality depth, with a crash possible    *)
(* after every commit.  Inv is inductive; the heart of it is that the fork *)
(* choice, run over everything the file holds, can only pick a child of    *)
(* the head.  For a node whose peers send blocks again, the rows may have  *)
(* holes after a crash, and AgainInv is inductive instead.                 *)
(***************************************************************************)
EXTENDS MCChainNode, TLAPS

(* block_score never puts a block above a higher one: a stake is at most   *)
(* the total, which is what one height is worth.                           *)
LEMMA HigherWins ==
  ASSUME NEW b \in Blocks, NEW c \in Blocks, Height[b] < Height[c]
  PROVE  ~Better(b, c)
<1> DEFINE hb == Height[b]
           hc == Height[c]
           T == TotalStake
<1>1. hb \in Nat /\ hc \in Nat /\ T \in Nat /\ Stake[b] \in 0 .. T /\ Stake[c] \in 0 .. T
  BY TreeAssumption, ScoreAssumption
<1>2. PICK d \in Nat : hc = hb + 1 + d
  <2>1. hc - hb - 1 \in Nat /\ hc = hb + 1 + (hc - hb - 1)
    BY <1>1
  <2> QED
    BY <2>1
<1>3. hc * T >= hb * T + T
  <2> HIDE DEF hb, hc, T
  <2>1. hc * T = hb * T + T + d * T
    BY <1>1, <1>2
  <2>2. d * T \in Nat /\ hb * T \in Nat
    BY <1>1, <1>2
  <2> QED
    BY <2>1, <2>2, <1>1
<1>4. hb * T \in Int /\ hc * T \in Int
  BY <1>1
<1>5. Score(b) <= Score(c) /\ Score(b) \in Int /\ Score(c) \in Int
  <2> DEFINE x == hb * T
             y == hc * T
  <2>1. Score(b) = x + Stake[b] /\ Score(c) = y + Stake[c]
    BY DEF Score
  <2> HIDE DEF x, y
  <2>2. x \in Int /\ y \in Int /\ y >= x + T
    BY <1>3, <1>4 DEF x, y
  <2> QED
    BY <2>1, <2>2, <1>1
<1> QED
  BY <1>1, <1>5 DEF Better

(* The file is empty at first. *)
LEMMA InitInv == Init => Inv
<1> SUFFICES ASSUME Init PROVE Inv
  OBVIOUS
<1> USE TreeAssumption DEF Init
<1>1. TypeOK
  <2>1. kv \in [Keys -> SUBSET Blocks]
    OBVIOUS
  <2>2. wrote \in 0 .. 2 /\ importing \in Blocks
    OBVIOUS
  <2> QED
    BY <2>1, <2>2 DEF TypeOK
<1>2. StoredInv
  BY DEF StoredInv
<1>3. FlagsInv
  BY DEF FlagsInv
<1>4. StepInv
  BY DEF StepInv
<1>5. StateInv
  BY DEF StateInv
<1> QED
  BY <1>1, <1>2, <1>3, <1>4, <1>5 DEF Inv

(* A node has one head: the block whose chain is canonical. *)
LEMMA HeadUnique ==
  ASSUME Inv, NEW h \in canonical, canonical = Chain[h], NEW p, IsHead(p)
  PROVE  p = h
<1>1. p \in canonical /\ Height[h] <= Height[p]
  BY DEF IsHead
<1>2. p \in stored /\ h \in stored /\ p \in Blocks /\ h \in Blocks
  BY <1>1 DEF Inv, StoredInv, TypeOK
<1>3. p = h \/ Height[p] < Height[h]
  BY <1>1, <1>2 DEF Inv, StoredInv
<1>4. Height[p] \in Nat /\ Height[h] \in Nat
  BY <1>2, TreeAssumption
<1> QED
  BY <1>1, <1>3, <1>4

(* The converse: it is the highest canonical block. *)
LEMMA HeadExists ==
  ASSUME Inv, NEW h \in canonical, canonical = Chain[h]
  PROVE  IsHead(h)
<1>1. h \in stored /\ \A c \in canonical : c \in Blocks /\ (c = h \/ Height[c] < Height[h])
  BY DEF Inv, StoredInv, TypeOK
<1>2. \A c \in Blocks : Height[c] \in Nat
  BY TreeAssumption
<1>3. h \in Blocks
  BY DEF Inv, TypeOK
<1> QED
  BY <1>1, <1>2, <1>3 DEF IsHead

(* Every chain starts at genesis, so genesis is canonical once anything is. *)
LEMMA GenesisCanonical ==
  ASSUME Inv, canonical # {}
  PROVE  Genesis \in canonical
<1>1. PICK h \in canonical : canonical = Chain[h]
  BY DEF Inv, FlagsInv
<1> QED
  BY <1>1 DEF Inv, StoredInv

(* Fork choice over all stored blocks picks a child of the head, so the    *)
(* canonical chain grows by exactly that block.                            *)
LEMMA ForkChoiceExtends ==
  ASSUME Inv, at = "choose", NEW best \in CandidateHeads,
         \A c \in CandidateHeads : Better(best, c),
         NEW h \in canonical, canonical = Chain[h]
  PROVE  /\ best \in stored \ {Genesis}
         /\ Parent[best] = h
         /\ Chain[best] = canonical \cup {best}
         /\ best \notin canonical
         /\ Height[best] = Height[h] + 1
<1> USE DEF Inv
<1>1. /\ importing \in stored /\ importing # Genesis /\ importing \notin canonical
      /\ IsHead(Parent[importing])
  BY DEF StepInv
<1>2. Parent[importing] = h
  BY <1>1, HeadUnique
<1>3. \A b \in stored : b \in Blocks /\ Height[b] \in Nat
  BY TreeAssumption DEF TypeOK
<1>4. Height[importing] = Height[h] + 1
  BY <1>1, <1>2, <1>3, TreeAssumption
<1>5. importing \in CandidateHeads
  BY <1>1 DEF CandidateHeads, StoredInv
<1>6. best \in stored /\ best \in Blocks /\ importing \in Blocks
  BY <1>1, <1>3 DEF CandidateHeads
<1>7. ~(Height[best] < Height[importing])
  BY <1>5, <1>6, HigherWins
<1>8. h \in stored /\ h \in Blocks /\ Height[h] \in Nat
  BY <1>3 DEF StoredInv
<1>9. best # Genesis
  BY <1>4, <1>7, <1>8, TreeAssumption
<1>10. Parent[best] \in canonical /\ Height[best] = Height[Parent[best]] + 1
  BY <1>6, <1>9, TreeAssumption DEF StoredInv
<1>11. Parent[best] = h
  <2>1. Parent[best] \in stored /\ (Parent[best] = h \/ Height[Parent[best]] < Height[h])
    BY <1>8, <1>10 DEF StoredInv
  <2>2. Height[Parent[best]] \in Nat
    BY <2>1, <1>3
  <2> QED
    BY <2>1, <2>2, <1>4, <1>7, <1>8, <1>10
<1>12. Chain[best] = canonical \cup {best}
  BY <1>6, <1>9, <1>11, TreeAssumption
<1>13. best \notin canonical
  <2>1. \A c \in canonical : c = h \/ Height[c] < Height[h]
    BY <1>8 DEF StoredInv
  <2>2. Height[best] = Height[h] + 1
    BY <1>10, <1>11
  <2> QED
    BY <2>1, <2>2, <1>8
<1> QED
  BY <1>6, <1>9, <1>10, <1>11, <1>12, <1>13

(* The canonical flags and state of a running import are untouched by the  *)
(* steps that only start one. *)
LEMMA AcceptInv ==
  ASSUME Inv, NEW b \in Blocks, Receive(b) \/ Produce(b)
  PROVE  Inv'
<1>1. /\ at = "idle" /\ b \in Blocks \ {Genesis} /\ b \notin stored
      /\ IsHead(Parent[b])
      /\ at' = "put" /\ importing' = b
      /\ UNCHANGED <<stored, canonical, finalized, kv, wrote, settled>>
  BY NodeAssumption DEF Receive, Produce
<1>2. b \notin canonical
  BY <1>1 DEF Inv, StoredInv
<1>3. TypeOK'
  BY <1>1 DEF Inv, TypeOK
<1>4. StoredInv' /\ FlagsInv'
  BY <1>1 DEF Inv, StoredInv, FlagsInv
<1>5. StepInv'
  BY <1>1, <1>2 DEF Inv, StepInv, IsHead
<1>6. StateInv'
  BY <1>1 DEF Inv, StateInv
<1> QED
  BY <1>3, <1>4, <1>5, <1>6 DEF Inv

(* put_block of a child of the head clears no flag. *)
LEMMA PutBlockInv ==
  ASSUME Inv, PutBlock
  PROVE  /\ canonical' = canonical /\ finalized' = finalized
         /\ Inv'
<1> USE DEF PutBlock
<1>1. /\ importing \in Blocks \ {Genesis} /\ importing \notin canonical
      /\ IsHead(Parent[importing]) /\ canonical # {}
  BY DEF Inv, StepInv, TypeOK
<1>2. PICK h \in canonical :
        /\ canonical = Chain[h]
        /\ finalized = IF h = Genesis THEN {Genesis}
                       ELSE {b \in canonical : Height[b] <= Height[h] - FinalityDepth}
  BY <1>1 DEF Inv, FlagsInv
<1>3. canonical' = canonical
  BY <1>1
<1>4. Genesis \in canonical
  BY <1>1, <1>2, GenesisCanonical
<1>5. finalized' = finalized
  <2>1. importing \notin finalized
    BY <1>1, <1>2, <1>4
  <2> QED
    BY <2>1
<1>6. Parent[importing] = h
  BY <1>1, <1>2, HeadUnique
<1>7. stored' = stored \cup {importing}
  OBVIOUS
<1>8. TypeOK'
  BY <1>1, <1>3, <1>5 DEF Inv, TypeOK
<1>9. StoredInv'
  <2>1. h \in stored /\ Chain[importing] = Chain[h] \cup {importing}
        /\ Height[importing] = Height[h] + 1 /\ Height[h] \in Nat
    BY <1>1, <1>6, TreeAssumption DEF Inv, StoredInv, TypeOK
  <2>2. \A x \in Chain[importing] : x = importing \/ Height[x] < Height[importing]
    <3> TAKE x \in Chain[importing]
    <3>1. CASE x = importing
      BY <3>1
    <3>2. CASE x \in Chain[h]
      <4>1. x \in stored /\ Height[x] \in Nat
        BY <3>2, <2>1, TreeAssumption DEF Inv, StoredInv, TypeOK
      <4>2. x = h \/ Height[x] < Height[h]
        BY <3>2, <2>1 DEF Inv, StoredInv
      <4> QED
        BY <4>1, <4>2, <2>1
    <3> QED
      BY <3>1, <3>2, <2>1
  <2>3. /\ Chain[importing] \subseteq stored' /\ importing \in Chain[importing]
        /\ Genesis \in Chain[importing]
    BY <2>1, <1>7 DEF Inv, StoredInv
  <2>4. \A b \in stored' :
           /\ Chain[b] \subseteq stored' /\ b \in Chain[b] /\ Genesis \in Chain[b]
           /\ \A x \in Chain[b] : x = b \/ Height[x] < Height[b]
    BY <2>2, <2>3, <1>7 DEF Inv, StoredInv
  <2>5. \A b \in stored' \ {Genesis} : Parent[b] \in canonical'
    BY <1>1, <1>3, <1>6, <1>7, <1>2 DEF Inv, StoredInv
  <2> QED
    BY <2>4, <2>5, <1>1, <1>3, <1>7 DEF Inv, StoredInv
<1>10. FlagsInv'
  BY <1>3, <1>5 DEF Inv, FlagsInv
<1>11. StepInv'
  BY <1>1, <1>3, <1>7 DEF StepInv, IsHead
<1>12. StateInv'
  BY <1>3 DEF Inv, StateInv
<1> QED
  BY <1>3, <1>5, <1>8, <1>9, <1>10, <1>11, <1>12 DEF Inv

(* set_canonical_chain extends the path by the chosen block and moves the  *)
(* finality cut-off up by one.                                             *)
LEMMA ForkChoiceInv ==
  ASSUME Inv, ForkChoice
  PROVE  /\ \E best \in Blocks \ {Genesis} :
              canonical = Chain[Parent[best]] /\ canonical' = canonical \cup {best}
         /\ finalized \ {Genesis} \subseteq finalized'
         /\ Inv'
<1>1. PICK best \in CandidateHeads :
        /\ \A c \in CandidateHeads : Better(best, c)
        /\ canonical' = Chain[best]
        /\ finalized' = (finalized \ Chain[best])
                          \cup {b \in Chain[best] : Height[b] <= Height[best] - FinalityDepth}
  BY DEF ForkChoice
<1>2. /\ at = "choose" /\ at' = "state" /\ wrote' = 0
      /\ UNCHANGED <<stored, kv, importing, settled>>
  BY DEF ForkChoice
<1>3. PICK h \in canonical :
        /\ canonical = Chain[h]
        /\ finalized = IF h = Genesis THEN {Genesis}
                       ELSE {b \in canonical : Height[b] <= Height[h] - FinalityDepth}
  BY <1>2 DEF Inv, FlagsInv, StepInv
<1>4. /\ best \in stored \ {Genesis} /\ Parent[best] = h
      /\ Chain[best] = canonical \cup {best} /\ best \notin canonical
      /\ Height[best] = Height[h] + 1
  BY <1>1, <1>2, <1>3, ForkChoiceExtends
<1>5. \A b \in stored : b \in Blocks /\ Height[b] \in Nat
  BY TreeAssumption DEF Inv, TypeOK
<1>6. canonical \subseteq stored
  BY DEF Inv, StoredInv
<1>7. finalized \subseteq canonical
  BY <1>3, <1>2, GenesisCanonical
<1>8. finalized' = {b \in canonical' : Height[b] <= Height[best] - FinalityDepth}
  BY <1>1, <1>4, <1>7
<1>9. finalized \ {Genesis} \subseteq finalized'
  <2> SUFFICES ASSUME NEW b \in finalized \ {Genesis}
               PROVE  b \in finalized'
    OBVIOUS
  <2>1. b \in canonical /\ Height[b] <= Height[h] - FinalityDepth
    BY <1>3
  <2>2. Height[b] \in Nat /\ Height[h] \in Nat /\ FinalityDepth \in Nat
    BY <2>1, <1>5, <1>6, NodeAssumption
  <2>3. Height[b] <= Height[best] - FinalityDepth
    BY <2>1, <2>2, <1>4
  <2> QED
    BY <2>1, <2>3, <1>1, <1>4, <1>8
<1>10. TypeOK'
  <2>1. canonical' \subseteq Blocks /\ finalized' \subseteq Blocks
    BY <1>1, <1>4, <1>5, <1>6, <1>8
  <2> QED
    BY <2>1, <1>2 DEF Inv, TypeOK
<1>11. StoredInv'
  BY <1>1, <1>2, <1>4, <1>6 DEF Inv, StoredInv
<1>12. FlagsInv'
  <2>1. best \in canonical' /\ canonical' = Chain[best] /\ best # Genesis
    BY <1>1, <1>4
  <2> QED
    BY <2>1, <1>8 DEF FlagsInv
<1>13. StepInv'
  BY <1>1, <1>2, <1>4 DEF StepInv
<1>14. StateInv'
  <2>1. at' = "state" /\ wrote' = 0 /\ 1 .. 0 = {}
    BY <1>2
  <2> QED
    BY <2>1 DEF StateInv
<1>15. best \in Blocks \ {Genesis} /\ canonical = Chain[Parent[best]]
       /\ canonical' = canonical \cup {best}
  BY <1>1, <1>3, <1>4, <1>5
<1> QED
  BY <1>9, <1>10, <1>11, <1>12, <1>13, <1>14, <1>15 DEF Inv

(* Creating genesis starts the path and its flags. *)
LEMMA GenesisInv ==
  ASSUME Inv, PutGenesis
  PROVE  canonical = {} /\ canonical' = {Genesis} /\ finalized = {} /\ Inv'
<1> USE DEF PutGenesis
<1>1. canonical = {} /\ finalized = {} /\ stored = {}
  BY DEF Inv, StepInv, FlagsInv, StoredInv
<1>2. /\ canonical' = {Genesis} /\ finalized' = {Genesis} /\ stored' = {Genesis}
      /\ at' = "state" /\ wrote' = 0
      /\ UNCHANGED <<kv, importing, settled>>
  BY <1>1
<1>3. TypeOK'
  BY <1>2, TreeAssumption DEF Inv, TypeOK
<1>4. StoredInv'
  BY <1>2, TreeAssumption DEF StoredInv
<1>5. FlagsInv'
  BY <1>2, TreeAssumption DEF FlagsInv
<1>6. StepInv'
  BY <1>2 DEF StepInv
<1>7. StateInv'
  <2>1. at' = "state" /\ wrote' = 0 /\ 1 .. 0 = {}
    BY <1>2
  <2> QED
    BY <2>1 DEF StateInv
<1> QED
  BY <1>1, <1>2, <1>3, <1>4, <1>5, <1>6, <1>7 DEF Inv

(* put_state: after the third key the whole table is the state of the head.*)
LEMMA PutStateInv ==
  ASSUME Inv, PutState
  PROVE  Inv'
<1> DEFINE k == KeyAt[wrote + 1]
           R == Replayed(canonical)
<1>1. /\ at = "state" /\ UNCHANGED <<stored, canonical, finalized>>
      /\ kv' = [kv EXCEPT ![k] = R[k]]
  BY DEF PutState
<1>2. wrote \in 0 .. 2 /\ kv \in [Keys -> SUBSET Blocks] /\ canonical \subseteq Blocks
  BY DEF Inv, TypeOK
<1>3. k \in Keys /\ R \in [Keys -> SUBSET Blocks]
  BY <1>2 DEF KeyAt, Keys, Replayed
<1>4. kv' \in [Keys -> SUBSET Blocks]
  BY <1>1, <1>2, <1>3
<1>5. \A i \in 1 .. wrote + 1 : kv'[KeyAt[i]] = R[KeyAt[i]]
  <2> TAKE i \in 1 .. wrote + 1
  <2>1. KeyAt[i] \in Keys
    BY <1>2 DEF KeyAt, Keys
  <2>2. CASE KeyAt[i] = k
    BY <2>2, <1>1, <1>2, <1>3
  <2>3. CASE KeyAt[i] # k
    <3>1. i \in 1 .. wrote
      BY <2>3, <1>2
    <3>2. kv[KeyAt[i]] = R[KeyAt[i]]
      BY <3>1, <1>1 DEF Inv, StateInv
    <3> QED
      BY <3>2, <2>1, <2>3, <1>1, <1>2
  <2> QED
    BY <2>2, <2>3
<1>6. CASE wrote < 2
  <2>1. wrote' = wrote + 1 /\ UNCHANGED <<at, importing, settled>>
    BY <1>6 DEF PutState
  <2>2. TypeOK'
    BY <2>1, <1>1, <1>2, <1>4, <1>6 DEF Inv, TypeOK
  <2>3. StoredInv' /\ FlagsInv' /\ StepInv'
    BY <2>1, <1>1 DEF Inv, StoredInv, FlagsInv, StepInv
  <2>4. StateInv'
    BY <2>1, <1>1, <1>5 DEF StateInv, Replayed
  <2> QED
    BY <2>2, <2>3, <2>4 DEF Inv
<1>7. CASE ~(wrote < 2)
  <2>1. wrote' = 0 /\ at' = "idle" /\ importing' = Genesis /\ settled' = TRUE
    BY <1>7 DEF PutState
  <2>2. wrote = 2
    BY <1>2, <1>7
  <2>3. kv' = Replayed(canonical)
    <3>1. \A key \in Keys : \E i \in 1 .. 3 : key = KeyAt[i]
      BY DEF Keys, KeyAt
    <3>2. \A key \in Keys : kv'[key] = R[key]
      BY <3>1, <2>2, <1>5
    <3> QED
      BY <3>2, <1>3, <1>4
  <2>4. TypeOK'
    BY <2>1, <1>1, <1>4, TreeAssumption DEF Inv, TypeOK
  <2>5. StoredInv' /\ FlagsInv' /\ StepInv'
    BY <2>1, <1>1 DEF Inv, StoredInv, FlagsInv, StepInv
  <2>6. StateInv'
    BY <2>1, <2>3, <1>1 DEF StateInv, Replayed
  <2> QED
    BY <2>4, <2>5, <2>6 DEF Inv
<1> QED
  BY <1>6, <1>7

(* Starting and dying keep what the file holds. *)
LEMMA StartCrashInv ==
  ASSUME Inv, Start \/ Crash
  PROVE  canonical' = canonical /\ finalized' = finalized /\ Inv'
<1>1. CASE Start
  BY <1>1 DEF Start, Inv, TypeOK, StoredInv, FlagsInv, StepInv, StateInv
<1>2. CASE Crash
  <2>1. /\ at' = "down" /\ importing' = Genesis /\ wrote' = 0 /\ settled' = FALSE
        /\ UNCHANGED <<stored, canonical, finalized, kv>>
    BY <1>2 DEF Crash, disk
  <2>2. TypeOK'
    <3>0. settled' \in BOOLEAN
      BY <2>1, Zenon
    <3>1. importing' \in Blocks /\ wrote' \in 0 .. 2
      BY <2>1, TreeAssumption
    <3>2. at' \in {"down", "genesis", "idle", "put", "choose", "state"}
      BY <2>1
    <3> QED
      BY <2>1, <3>0, <3>1, <3>2 DEF Inv, TypeOK
  <2> QED
    BY <2>1, <2>2 DEF Inv, StoredInv, FlagsInv, StepInv, StateInv
<1> QED
  BY <1>1, <1>2

(* Every step preserves the invariant, and the canonical chain stays, is   *)
(* created or gets one child of its tip; final blocks stay final.          *)
LEMMA NextInv ==
  ASSUME Inv, [Next]_vars
  PROVE  /\ Inv'
         /\ [Log!LogNext]_canonical
         /\ finalized \ {Genesis} \subseteq finalized'
<1>1. CASE Start \/ Crash
  BY <1>1, StartCrashInv
<1>2. CASE PutGenesis
  BY <1>2, GenesisInv DEF Log!LogNext, Log!Create
<1>3. CASE PutBlock
  BY <1>3, PutBlockInv
<1>4. CASE ForkChoice
  <2>1. \E b \in Blocks \ {Genesis} : Log!Append(b)
    BY <1>4, ForkChoiceInv DEF Log!Append
  <2> QED
    BY <2>1, <1>4, ForkChoiceInv DEF Log!LogNext
<1>5. CASE PutState
  BY <1>5, PutStateInv DEF PutState
<1>6. ASSUME NEW b \in Blocks, Receive(b) \/ Produce(b)
      PROVE  Inv' /\ canonical' = canonical /\ finalized' = finalized
  BY <1>6, AcceptInv DEF Receive, Produce
<1>7. CASE UNCHANGED vars
  BY <1>7 DEF vars, Inv, TypeOK, StoredInv, FlagsInv, StepInv, StateInv, IsHead
<1> QED
  BY <1>1, <1>2, <1>3, <1>4, <1>5, <1>6, <1>7 DEF Next, Commit

(* The inductive invariant holds in every reachable state. *)
THEOREM ChainInvariant == Spec => []Inv
BY InitInv, NextInv, PTL DEF Spec

(* The canonical rows are one unbroken path from genesis after every       *)
(* commit and every crash.                                                 *)
THEOREM CanonicalAlwaysPath == Spec => []RowsConsistent
<1>1. Inv => RowsConsistent
  <2> SUFFICES ASSUME Inv PROVE CanonicalIsPath
    BY DEF Inv, RowsConsistent
  <2>1. \A b \in stored : Chain[b] \subseteq stored
    BY DEF Inv, StoredInv
  <2>2. ASSUME canonical # {}
        PROVE  \E h \in canonical : IsHead(h) /\ canonical = Chain[h]
    BY <2>2, HeadExists DEF Inv, FlagsInv
  <2> QED
    BY <2>1, <2>2 DEF CanonicalIsPath
<1> QED
  BY <1>1, ChainInvariant, PTL

(* A node at rest after a completed import serves the state of its head,   *)
(* and finality is measured from that head.                                *)
THEOREM AlwaysAtRest == Spec => []AtRest
<1>1. Inv => AtRest
  <2> SUFFICES ASSUME Inv, settled, at = "idle"
               PROVE  \E h \in canonical :
                        /\ IsHead(h) /\ canonical = Chain[h]
                        /\ kv = Replayed(Chain[h])
                        /\ finalized = IF h = Genesis THEN {Genesis}
                             ELSE {b \in canonical : Height[b] <= Height[h] - FinalityDepth}
    BY DEF AtRest
  <2>1. canonical # {} /\ kv = Replayed(canonical)
    BY DEF Inv, StepInv, StateInv
  <2>2. PICK h \in canonical :
          /\ canonical = Chain[h]
          /\ finalized = IF h = Genesis THEN {Genesis}
                         ELSE {b \in canonical : Height[b] <= Height[h] - FinalityDepth}
    BY <2>1 DEF Inv, FlagsInv
  <2>3. IsHead(h)
    BY <2>2, HeadExists
  <2> QED
    BY <2>1, <2>2, <2>3
<1> QED
  BY <1>1, ChainInvariant, PTL

(* The canonical chain is never rewritten, crashes included. *)
THEOREM CanonicalOnlyGrows == Spec => ChainGrows
<1>1. Inv /\ [Next]_vars => [canonical \subseteq canonical']_vars
  <2> SUFFICES ASSUME Inv, [Next]_vars PROVE canonical \subseteq canonical'
    OBVIOUS
  <2>1. [Log!LogNext]_canonical
    BY NextInv
  <2> QED
    BY <2>1 DEF Log!LogNext, Log!Create, Log!Append
<1> QED
  BY <1>1, ChainInvariant, PTL DEF Spec, ChainGrows

(* A final block (genesis apart) never loses its finality. *)
THEOREM FinalityIsPermanent == Spec => FinalStaysFinal
<1>1. Inv /\ [Next]_vars => [finalized \ {Genesis} \subseteq finalized']_vars
  BY NextInv
<1> QED
  BY <1>1, ChainInvariant, PTL DEF Spec, FinalStaysFinal

(* Neither the canonical chain nor finality is ever taken back.            *)
THEOREM NothingEverTakenBack == Spec => NothingTakenBack
BY CanonicalOnlyGrows, FinalityIsPermanent DEF NothingTakenBack

(* The node's canonical chain implements the append-only log. *)
THEOREM ChainImplementsLog == Spec => ImplementsLog
<1>1. Init => Log!LogInit
  BY DEF Init, Log!LogInit
<1>2. Inv /\ [Next]_vars => [Log!LogNext]_canonical
  BY NextInv
<1> QED
  BY <1>1, <1>2, ChainInvariant, PTL DEF Spec, ImplementsLog, Log!LogSpec

(* Fork choice makes the block being imported the head: only a stored      *)
(* sibling of it could have won instead.                                   *)
LEMMA ImportWins ==
  ASSUME Inv, ForkChoice,
         \A c \in stored \ {Genesis, importing} : Parent[c] # Parent[importing]
  PROVE  IsHead(importing)'
<1>1. at = "choose" /\ importing' = importing
  BY DEF ForkChoice
<1>2. PICK best \in CandidateHeads :
        (\A c \in CandidateHeads : Better(best, c)) /\ canonical' = Chain[best]
  BY DEF ForkChoice
<1>3. PICK h \in canonical : canonical = Chain[h]
  BY <1>1 DEF Inv, FlagsInv, StepInv
<1>4. IsHead(Parent[importing])
  BY <1>1 DEF Inv, StepInv
<1>5. Parent[importing] = h
  BY <1>3, <1>4, HeadUnique
<1>6. best \in stored \ {Genesis} /\ Parent[best] = h
      /\ Chain[best] = canonical \cup {best}
  BY <1>1, <1>2, <1>3, ForkChoiceExtends
<1>7. best = importing
  BY <1>5, <1>6
<1>8. canonical' = Chain[importing] /\ importing \in canonical'
  BY <1>2, <1>6, <1>7
<1>9. Inv'
  BY ForkChoiceInv
<1>10. /\ importing \in stored'
       /\ \A x \in Chain[importing] : x = importing \/ Height[x] < Height[importing]
       /\ \A x \in canonical' : Height[x] \in Nat
  BY <1>1, <1>8, <1>9, TreeAssumption DEF Inv, StoredInv, TypeOK
<1>11. \A x \in canonical' : Height[x] <= Height[importing]
  BY <1>8, <1>10
<1> QED
  BY <1>1, <1>8, <1>11 DEF IsHead

(* The block import_block reports as imported is the new head, unless a    *)
(* crash has left a stored sibling of it.                                  *)
THEOREM ImportedIsHead == Spec => ImportMakesHead
<1>1. Inv /\ [Next]_vars =>
        [ForkChoice /\ (\A c \in stored \ {Genesis, importing} : Parent[c] # Parent[importing])
           => IsHead(importing)']_vars
  BY ImportWins
<1> QED
  BY <1>1, ChainInvariant, PTL DEF Spec, ImportMakesHead

(* The rest is about the second node, whose peers may send it a block      *)
(* again.  Its canonical rows may have holes, so the invariant is another  *)
(* one, AgainInv; the fork choice is where it is won.                      *)

(* Height before hash, at the second node too.                             *)
LEMMA AgainHigherWins ==
  ASSUME NEW b \in Blocks, NEW c \in Blocks, Height[b] < Height[c]
  PROVE  ~Again!Better(b, c)
BY HigherWins DEF Better, Score, Again!Better, Again!Score

(* Two blocks no worse than one another are the same block.                *)
LEMMA BestIsOne ==
  ASSUME NEW b \in Blocks, NEW c \in Blocks, Again!Better(b, c), Again!Better(c, b)
  PROVE  b = c
<1> DEFINE x == Again!Score(b)
           y == Again!Score(c)
<1>1. /\ Height[b] \in Nat /\ Height[c] \in Nat /\ TotalStake \in Nat
      /\ Stake[b] \in Nat /\ Stake[c] \in Nat
      /\ HashOrder[b] \in Nat /\ HashOrder[c] \in Nat
  BY TreeAssumption, ScoreAssumption
<1>2. x \in Int /\ y \in Int
  BY <1>1 DEF Again!Score
<1>3. /\ x > y \/ (x = y /\ Height[b] > Height[c])
           \/ (x = y /\ Height[b] = Height[c] /\ HashOrder[b] >= HashOrder[c])
      /\ y > x \/ (y = x /\ Height[c] > Height[b])
           \/ (y = x /\ Height[c] = Height[b] /\ HashOrder[c] >= HashOrder[b])
  BY DEF Again!Better
<1> HIDE DEF x, y
<1>4. HashOrder[b] = HashOrder[c]
  BY <1>1, <1>2, <1>3
<1> QED
  BY <1>4, ScoreAssumption

(* The blocks the file holds have known heights. *)
LEMMA StoredHeights ==
  ASSUME Again!TypeOK
  PROVE  \A b \in stored2 : b \in Blocks /\ Height[b] \in Nat
BY TreeAssumption DEF Again!TypeOK

(* Whatever holes the canonical rows have, the fork choice takes t itself, *)
(* a child of t, or, when t's row is not canonical, a sibling of t: the    *)
(* canonical rows lie on the chain it takes.                               *)
LEMMA NextTaken ==
  ASSUME Again!AgainInv, at2 = "choose", NEW t \in stored2, Again!TakenLast(t),
         NEW best \in Again!CandidateHeads,
         \A c \in Again!CandidateHeads : Again!Better(best, c)
  PROVE  /\ best \in stored2 \ {Genesis}
         /\ canonical2 \subseteq Chain[best]
         /\ \A b \in stored2 \ {Genesis} : Parent[b] \in Chain[best]
<1>1. importing2 \in stored2 \ {Genesis} /\ best \in stored2
  BY DEF Again!AgainInv, Again!AgainStepInv, Again!CandidateHeads
<1>2. \A b \in stored2 : b \in Blocks /\ Height[b] \in Nat
  BY StoredHeights DEF Again!AgainInv
<1>3. \A b \in stored2 \ {Genesis} :
        /\ Parent[b] \in Chain[t] /\ Parent[b] \in stored2
        /\ Height[b] = Height[Parent[b]] + 1 /\ Chain[b] = Chain[Parent[b]] \cup {b}
  BY <1>2, TreeAssumption DEF Again!TakenLast, Again!AgainInv, Again!LineageInv
<1>4. \A x \in Chain[t] : x \in stored2 /\ (x = t \/ Height[x] < Height[t])
  BY DEF Again!AgainInv, Again!LineageInv
<1>5. \A b \in stored2 \ {Genesis} :
        Height[b] <= Height[t] \/ (Parent[b] = t /\ Height[b] = Height[t] + 1)
  BY <1>2, <1>3, <1>4
<1>6. ASSUME NEW c \in stored2 \ {Genesis}, Parent[c] = t
      PROVE  c \in Again!CandidateHeads
  <2>1. Height[c] = Height[t] + 1
    BY <1>3, <1>6
  <2>2. c \notin Chain[t]
    BY <2>1, <1>2, <1>4
  <2> QED
    BY <2>2, <1>3 DEF Again!CandidateHeads
<1>7. ASSUME NEW c \in stored2 \ {Genesis}, Parent[c] = t
      PROVE  Height[best] >= Height[t] + 1
  <2>1. ~(Height[best] < Height[c])
    BY <1>1, <1>2, <1>6, <1>7, AgainHigherWins
  <2> QED
    BY <2>1, <1>1, <1>2, <1>3, <1>7
<1>8. Height[best] >= Height[t]
  <2>1. CASE t \in Again!CandidateHeads
    <3>1. ~(Height[best] < Height[t])
      BY <2>1, <1>1, <1>2, AgainHigherWins
    <3> QED
      BY <3>1, <1>1, <1>2
  <2>2. CASE t \notin Again!CandidateHeads
    <3>1. PICK c \in stored2 \ {Genesis} : Parent[c] = t
      BY <2>2 DEF Again!CandidateHeads
    <3> QED
      BY <3>1, <1>1, <1>2, <1>7
  <2> QED
    BY <2>1, <2>2
<1>9. best # Genesis
  <2> SUFFICES ASSUME best = Genesis PROVE FALSE
    OBVIOUS
  <2>1. Height[t] = 0
    BY <1>2, <1>8, TreeAssumption
  <2>2. t = Genesis
    BY <2>1, <1>2, <1>3
  <2>3. Parent[importing2] = t
    BY <2>1, <1>1, <1>2, <1>3, <1>4
  <2> QED
    BY <2>2, <2>3, <1>1 DEF Again!CandidateHeads
<1>10. CASE best = t
  BY <1>1, <1>9, <1>10 DEF Again!TakenLast
<1>11. CASE Parent[best] = t
  <2>1. Chain[best] = Chain[t] \cup {best}
    BY <1>1, <1>3, <1>9, <1>11
  <2> QED
    BY <2>1, <1>1, <1>9 DEF Again!TakenLast
<1>12. CASE best # t /\ Parent[best] # t
  <2>1. Height[best] = Height[t]
    BY <1>1, <1>2, <1>5, <1>8, <1>9, <1>12
  <2>2. \A c \in stored2 \ {Genesis} : Parent[c] # t
    BY <2>1, <1>1, <1>2, <1>7
  <2>3. t \in Again!CandidateHeads
    BY <2>2 DEF Again!CandidateHeads
  <2>4. t \notin canonical2
    <3>1. ASSUME t \in canonical2 PROVE Again!Better(t, best)
      BY <3>1, <1>12 DEF Again!TakenLast
    <3> QED
      BY <3>1, <2>3, <1>1, <1>2, <1>12, BestIsOne
  <2>5. t # Genesis
    BY <2>1, <1>1, <1>2, <1>3, <1>9, TreeAssumption
  <2>6. /\ Parent[t] \in stored2 /\ Chain[t] = Chain[Parent[t]] \cup {t}
        /\ Height[t] = Height[Parent[t]] + 1
    BY <2>5, <1>3
  <2>7. \A x \in Chain[Parent[t]] : x = Parent[t] \/ Height[x] < Height[Parent[t]]
    BY <2>6 DEF Again!AgainInv, Again!LineageInv
  <2>8. Parent[best] \in Chain[Parent[t]]
    BY <2>6, <1>1, <1>3, <1>9, <1>12
  <2>9. Parent[best] = Parent[t]
    <3>1. Height[Parent[best]] = Height[Parent[t]]
      BY <2>1, <2>6, <1>1, <1>2, <1>3, <1>9
    <3> QED
      BY <3>1, <2>7, <2>8, <2>6, <1>2
  <2>10. Chain[best] = Chain[Parent[t]] \cup {best}
    BY <2>9, <1>1, <1>3, <1>9
  <2>11. canonical2 \subseteq Chain[Parent[t]]
    BY <2>4, <2>6 DEF Again!TakenLast
  <2>12. \A b \in stored2 \ {Genesis} : Parent[b] \in Chain[Parent[t]]
    BY <2>2, <2>6, <1>3
  <2> QED
    BY <2>10, <2>11, <2>12, <1>1, <1>9
<1> QED
  BY <1>10, <1>11, <1>12

(* The second node's file is empty at first. *)
LEMMA AgainInitInv == Again!Init => Again!AgainInv
<1> SUFFICES ASSUME Again!Init PROVE Again!AgainInv
  OBVIOUS
<1> USE TreeAssumption DEF Again!Init
<1>1. Again!TypeOK
  <2>1. kv2 \in [Again!Keys -> SUBSET Blocks]
    OBVIOUS
  <2>2. wrote2 \in 0 .. 2 /\ importing2 \in Blocks
    OBVIOUS
  <2> QED
    BY <2>1, <2>2 DEF Again!TypeOK
<1>2. Again!LineageInv /\ Again!AgainStepInv /\ Again!StateInv
  BY DEF Again!LineageInv, Again!AgainStepInv, Again!StateInv
<1> QED
  BY <1>1, <1>2 DEF Again!AgainInv

(* A block accepted, for the first time or again, is only noted.           *)
LEMMA AgainAcceptInv ==
  ASSUME Again!AgainInv, NEW b \in Blocks,
         Again!Receive(b) \/ Again!Produce(b) \/ Again!Redeliver(b)
  PROVE  Again!AgainInv'
<1>1. /\ at2 = "idle" /\ b # Genesis /\ (b \in stored2 \/ Again!IsHead(Parent[b]))
      /\ at2' = "put" /\ importing2' = b
      /\ UNCHANGED <<stored2, canonical2, finalized2, kv2, wrote2, settled2>>
  BY NodeAssumption DEF Again!Receive, Again!Produce, Again!Redeliver
<1>2. Again!TypeOK' /\ Again!LineageInv' /\ Again!StateInv'
  BY <1>1 DEF Again!AgainInv, Again!TypeOK, Again!LineageInv, Again!StateInv
<1>3. Again!AgainStepInv'
  BY <1>1 DEF Again!AgainInv, Again!AgainStepInv, Again!IsHead
<1>4. ASSUME NEW t \in stored2, Again!TakenLast(t)
      PROVE  Again!TakenLast(t)'
  <2>1. ASSUME t \in canonical2, b \notin stored2
        PROVE  Parent[b] = t
    <3>1. /\ Parent[b] \in canonical2 /\ Height[t] <= Height[Parent[b]]
      BY <1>1, <2>1 DEF Again!IsHead
    <3>2. Parent[b] \in stored2 /\ (Parent[b] = t \/ Height[Parent[b]] < Height[t])
      BY <3>1, <1>4 DEF Again!TakenLast, Again!AgainInv, Again!LineageInv
    <3>3. Height[t] \in Nat /\ Height[Parent[b]] \in Nat
      BY <3>2, StoredHeights DEF Again!AgainInv
    <3> QED
      BY <3>1, <3>2, <3>3
  <2>2. Again!CandidateHeads' = Again!CandidateHeads
    BY <1>1 DEF Again!CandidateHeads
  <2> QED
    BY <2>1, <2>2, <1>1, <1>4 DEF Again!TakenLast
<1> QED
  BY <1>1, <1>2, <1>3, <1>4 DEF Again!AgainInv

(* put_block of a known block clears its flags and adds nothing; that of a *)
(* new one adds a child of a canonical block, of t when t is canonical.    *)
LEMMA AgainPutBlockInv ==
  ASSUME Again!AgainInv, Again!PutBlock
  PROVE  Again!AgainInv'
<1>1. /\ at2 = "put" /\ at2' = "choose"
      /\ stored2' = stored2 \cup {importing2}
      /\ canonical2' = canonical2 \ {importing2}
      /\ finalized2' = finalized2 \ {importing2}
      /\ UNCHANGED <<kv2, importing2, wrote2, settled2>>
  BY DEF Again!PutBlock
<1>2. /\ importing2 \in Blocks \ {Genesis} /\ stored2 # {}
      /\ importing2 \notin stored2 => Parent[importing2] \in canonical2
  BY <1>1 DEF Again!AgainInv, Again!AgainStepInv, Again!TypeOK
<1>3. \A b \in stored2 : b \in Blocks /\ Height[b] \in Nat
  BY StoredHeights DEF Again!AgainInv
<1>4. Again!TypeOK'
  BY <1>1, <1>2 DEF Again!AgainInv, Again!TypeOK
<1>5. Again!LineageInv'
  <2>1. /\ canonical2' \subseteq stored2' /\ finalized2' \subseteq canonical2'
        /\ Genesis \in canonical2'
    BY <1>1, <1>2 DEF Again!AgainInv, Again!LineageInv
  <2>2. ASSUME importing2 \notin stored2
        PROVE  /\ Chain[importing2] \subseteq stored2'
               /\ importing2 \in Chain[importing2] /\ Genesis \in Chain[importing2]
               /\ \A x \in Chain[importing2] :
                    x = importing2 \/ Height[x] < Height[importing2]
    <3> DEFINE p == Parent[importing2]
    <3>1. p \in stored2
      BY <1>2, <2>2 DEF Again!AgainInv, Again!LineageInv
    <3>2. /\ Chain[importing2] = Chain[p] \cup {importing2}
          /\ Height[importing2] = Height[p] + 1 /\ Height[p] \in Nat
      BY <1>2, <1>3, <3>1, TreeAssumption
    <3>3. /\ Chain[p] \subseteq stored2 /\ Genesis \in Chain[p]
          /\ \A x \in Chain[p] : Height[x] \in Nat /\ (x = p \/ Height[x] < Height[p])
      BY <1>3, <3>1 DEF Again!AgainInv, Again!LineageInv
    <3> HIDE DEF p
    <3>4. \A x \in Chain[p] : Height[x] < Height[importing2]
      BY <3>2, <3>3
    <3> QED
      BY <3>2, <3>3, <3>4, <1>1
  <2>3. \A b \in stored2' :
          /\ Chain[b] \subseteq stored2' /\ b \in Chain[b] /\ Genesis \in Chain[b]
          /\ \A x \in Chain[b] : x = b \/ Height[x] < Height[b]
    BY <2>2, <1>1 DEF Again!AgainInv, Again!LineageInv
  <2> QED
    BY <2>1, <2>3 DEF Again!LineageInv
<1>6. Again!AgainStepInv' /\ Again!StateInv'
  BY <1>1, <1>2 DEF Again!AgainInv, Again!AgainStepInv, Again!StateInv
<1>7. ASSUME NEW t \in stored2, Again!TakenLast(t)
      PROVE  Again!TakenLast(t)'
  <2>1. canonical2' \subseteq Chain[t]
    BY <1>1, <1>7 DEF Again!TakenLast
  <2>2. \A b \in stored2' \ {Genesis} : Parent[b] \in Chain[t]
    BY <1>1, <1>2, <1>7 DEF Again!TakenLast
  <2>3. Again!CandidateHeads' \subseteq Again!CandidateHeads \cup {importing2}
    BY <1>1 DEF Again!CandidateHeads
  <2>4. ASSUME t \in canonical2', NEW c \in Again!CandidateHeads'
        PROVE  Again!Better(t, c) \/ Parent[c] = t
    <3>1. t \in canonical2
      BY <2>4, <1>1
    <3>2. CASE c \in Again!CandidateHeads
      BY <3>1, <3>2, <1>7 DEF Again!TakenLast
    <3>3. CASE c = importing2 /\ c \in stored2
      <4>1. c \in Again!CandidateHeads
        BY <2>4, <3>3, <1>1 DEF Again!CandidateHeads
      <4> QED
        BY <4>1, <3>2
    <3>4. CASE c = importing2 /\ c \notin stored2
      BY <3>1, <3>4, <1>1, <1>7 DEF Again!TakenLast
    <3> QED
      BY <2>3, <2>4, <3>2, <3>3, <3>4
  <2> QED
    BY <2>1, <2>2, <2>4, <1>1 DEF Again!TakenLast, Again!Better, Again!Score
<1> QED
  BY <1>1, <1>2, <1>4, <1>5, <1>6, <1>7 DEF Again!AgainInv

(* The fork choice fills every hole: afterwards the flags are those of the *)
(* chain it took.                                                          *)
LEMMA AgainForkChoiceInv ==
  ASSUME Again!AgainInv, Again!ForkChoice
  PROVE  Again!AgainInv'
<1>1. PICK best \in Again!CandidateHeads :
        /\ \A c \in Again!CandidateHeads : Again!Better(best, c)
        /\ canonical2' = Chain[best]
        /\ finalized2' = (finalized2 \ Chain[best])
                           \cup {b \in Chain[best] : Height[b] <= Height[best] - FinalityDepth}
  BY DEF Again!ForkChoice
<1>2. /\ at2 = "choose" /\ at2' = "state" /\ wrote2' = 0
      /\ UNCHANGED <<stored2, kv2, importing2, settled2>>
  BY DEF Again!ForkChoice
<1>3. PICK t \in stored2 : Again!TakenLast(t)
  BY <1>2 DEF Again!AgainInv, Again!AgainStepInv
<1>4. /\ best \in stored2 \ {Genesis}
      /\ canonical2 \subseteq Chain[best]
      /\ \A b \in stored2 \ {Genesis} : Parent[b] \in Chain[best]
  BY <1>1, <1>2, <1>3, NextTaken
<1>5. Chain[best] \subseteq stored2 /\ Genesis \in Chain[best] /\ best \in Chain[best]
  BY <1>4 DEF Again!AgainInv, Again!LineageInv
<1>6. finalized2' = {b \in canonical2' : Height[b] <= Height[best] - FinalityDepth}
  BY <1>1, <1>4 DEF Again!AgainInv, Again!LineageInv
<1>7. Again!TypeOK'
  <2>1. canonical2' \subseteq Blocks /\ finalized2' \subseteq Blocks
    BY <1>1, <1>5, <1>6 DEF Again!AgainInv, Again!TypeOK
  <2> QED
    BY <2>1, <1>2 DEF Again!AgainInv, Again!TypeOK
<1>8. Again!LineageInv'
  BY <1>1, <1>2, <1>5, <1>6 DEF Again!AgainInv, Again!LineageInv
<1>9. Again!AgainStepInv'
  BY <1>2, <1>4 DEF Again!AgainStepInv
<1>10. Again!StateInv'
  <2>1. at2' = "state" /\ wrote2' = 0 /\ 1 .. 0 = {}
    BY <1>2
  <2> QED
    BY <2>1 DEF Again!StateInv
<1>11. Again!TakenLast(best)'
  <2>1. Again!CandidateHeads' = Again!CandidateHeads
    BY <1>2 DEF Again!CandidateHeads
  <2>2. \A c \in Again!CandidateHeads' : Again!Better(best, c)
    BY <2>1, <1>1
  <2> QED
    BY <2>2, <1>1, <1>2, <1>4, <1>6 DEF Again!TakenLast, Again!Better, Again!Score
<1> QED
  BY <1>2, <1>4, <1>7, <1>8, <1>9, <1>10, <1>11 DEF Again!AgainInv

(* Creating genesis, as at the first node.                                 *)
LEMMA AgainGenesisInv ==
  ASSUME Again!AgainInv, Again!PutGenesis
  PROVE  Again!AgainInv'
<1>1. stored2 = {} /\ canonical2 = {} /\ finalized2 = {}
  BY DEF Again!PutGenesis, Again!AgainInv, Again!AgainStepInv, Again!LineageInv
<1>2. /\ canonical2' = {Genesis} /\ finalized2' = {Genesis} /\ stored2' = {Genesis}
      /\ at2' = "state" /\ wrote2' = 0
      /\ UNCHANGED <<kv2, importing2, settled2>>
  BY <1>1 DEF Again!PutGenesis
<1>3. Again!TypeOK'
  BY <1>2, TreeAssumption DEF Again!AgainInv, Again!TypeOK
<1>4. Again!LineageInv' /\ Again!AgainStepInv'
  BY <1>2, TreeAssumption DEF Again!LineageInv, Again!AgainStepInv
<1>5. Again!StateInv'
  <2>1. at2' = "state" /\ wrote2' = 0 /\ 1 .. 0 = {}
    BY <1>2
  <2> QED
    BY <2>1 DEF Again!StateInv
<1>6. Again!TakenLast(Genesis)'
  <2>1. Again!CandidateHeads' \subseteq {Genesis}
    BY <1>2 DEF Again!CandidateHeads
  <2>2. Again!Better(Genesis, Genesis)
    <3>1. HashOrder[Genesis] \in Nat
      BY TreeAssumption, ScoreAssumption
    <3> QED
      BY <3>1 DEF Again!Better
  <2> QED
    BY <2>1, <2>2, <1>2, TreeAssumption DEF Again!TakenLast, Again!Better, Again!Score
<1> QED
  BY <1>2, <1>3, <1>4, <1>5, <1>6 DEF Again!AgainInv

(* The three state keys, as at the first node: after the last of them the  *)
(* whole table is the state of the chain just taken.                       *)
LEMMA AgainPutStateInv ==
  ASSUME Again!AgainInv, Again!PutState
  PROVE  Again!AgainInv'
<1> DEFINE k == Again!KeyAt[wrote2 + 1]
           R == Again!Replayed(canonical2)
<1>1. /\ at2 = "state" /\ UNCHANGED <<stored2, canonical2, finalized2>>
      /\ kv2' = [kv2 EXCEPT ![k] = R[k]]
  BY DEF Again!PutState
<1>2. wrote2 \in 0 .. 2 /\ kv2 \in [Again!Keys -> SUBSET Blocks] /\ canonical2 \subseteq Blocks
  BY DEF Again!AgainInv, Again!TypeOK
<1>3. k \in Again!Keys /\ R \in [Again!Keys -> SUBSET Blocks]
  BY <1>2 DEF Again!KeyAt, Again!Keys, Again!Replayed
<1>4. kv2' \in [Again!Keys -> SUBSET Blocks]
  BY <1>1, <1>2, <1>3
<1>5. \A i \in 1 .. wrote2 + 1 : kv2'[Again!KeyAt[i]] = R[Again!KeyAt[i]]
  <2> TAKE i \in 1 .. wrote2 + 1
  <2>1. Again!KeyAt[i] \in Again!Keys
    BY <1>2 DEF Again!KeyAt, Again!Keys
  <2>2. CASE Again!KeyAt[i] = k
    BY <2>2, <1>1, <1>2, <1>3
  <2>3. CASE Again!KeyAt[i] # k
    <3>1. i \in 1 .. wrote2
      BY <2>3, <1>2
    <3>2. kv2[Again!KeyAt[i]] = R[Again!KeyAt[i]]
      BY <3>1, <1>1 DEF Again!AgainInv, Again!StateInv
    <3> QED
      BY <3>2, <2>1, <2>3, <1>1, <1>2
  <2> QED
    BY <2>2, <2>3
<1>6. \A t : Again!TakenLast(t) /\ (at2' = "state" \/ at2' = "idle") => Again!TakenLast(t)'
  BY <1>1 DEF Again!TakenLast, Again!CandidateHeads, Again!Better, Again!Score
<1>7. CASE wrote2 < 2
  <2>1. wrote2' = wrote2 + 1 /\ UNCHANGED <<at2, importing2, settled2>>
    BY <1>7 DEF Again!PutState
  <2>2. Again!TypeOK'
    BY <2>1, <1>1, <1>2, <1>4, <1>7 DEF Again!AgainInv, Again!TypeOK
  <2>3. Again!LineageInv' /\ Again!AgainStepInv'
    BY <2>1, <1>1 DEF Again!AgainInv, Again!LineageInv, Again!AgainStepInv
  <2>4. Again!StateInv'
    BY <2>1, <1>1, <1>5 DEF Again!StateInv, Again!Replayed
  <2> QED
    BY <2>1, <2>2, <2>3, <2>4, <1>1, <1>6 DEF Again!AgainInv
<1>8. CASE ~(wrote2 < 2)
  <2>1. wrote2' = 0 /\ at2' = "idle" /\ importing2' = Genesis /\ settled2' = TRUE
    BY <1>8 DEF Again!PutState
  <2>2. wrote2 = 2
    BY <1>2, <1>8
  <2>3. kv2' = Again!Replayed(canonical2)
    <3>1. \A key \in Again!Keys : \E i \in 1 .. 3 : key = Again!KeyAt[i]
      BY DEF Again!Keys, Again!KeyAt
    <3>2. \A key \in Again!Keys : kv2'[key] = R[key]
      BY <3>1, <2>2, <1>5
    <3> QED
      BY <3>2, <1>3, <1>4
  <2>4. Again!TypeOK'
    BY <2>1, <1>1, <1>4, TreeAssumption DEF Again!AgainInv, Again!TypeOK
  <2>5. Again!LineageInv' /\ Again!AgainStepInv'
    BY <2>1, <1>1 DEF Again!AgainInv, Again!LineageInv, Again!AgainStepInv
  <2>6. Again!StateInv'
    BY <2>1, <2>3, <1>1 DEF Again!StateInv, Again!Replayed
  <2> QED
    BY <2>1, <2>4, <2>5, <2>6, <1>1, <1>6 DEF Again!AgainInv
<1> QED
  BY <1>7, <1>8

(* Starting and dying keep what the file holds; a dying import forgets     *)
(* what it was importing, holes and all. *)
LEMMA AgainStartCrashInv ==
  ASSUME Again!AgainInv, Again!Start \/ Again!Crash
  PROVE  Again!AgainInv'
<1>1. UNCHANGED <<stored2, canonical2, finalized2, kv2>>
  BY DEF Again!Start, Again!Crash, Again!disk
<1>2. Again!TypeOK'
  <2>1. CASE Again!Start
    BY <2>1 DEF Again!Start, Again!AgainInv, Again!TypeOK
  <2>2. CASE Again!Crash
    <3>1. settled2' \in BOOLEAN
      BY <2>2, Zenon DEF Again!Crash
    <3>2. importing2' \in Blocks /\ wrote2' \in 0 .. 2
      BY <2>2, TreeAssumption DEF Again!Crash
    <3>3. at2' \in {"down", "genesis", "idle", "put", "choose", "state"}
      BY <2>2 DEF Again!Crash
    <3> QED
      BY <1>1, <3>1, <3>2, <3>3 DEF Again!AgainInv, Again!TypeOK
  <2> QED
    BY <2>1, <2>2
<1>3. Again!LineageInv'
  BY <1>1 DEF Again!AgainInv, Again!LineageInv
<1>4. at2' \in {"down", "genesis", "idle"} /\ ~(at2' = "idle" /\ settled2')
  BY DEF Again!Start, Again!Crash, Again!AgainInv, Again!StateInv
<1>5. Again!AgainStepInv'
  <2>1. CASE Again!Start
    BY <2>1 DEF Again!Start, Again!AgainInv, Again!AgainStepInv, Again!LineageInv
  <2>2. CASE Again!Crash
    BY <2>2 DEF Again!Crash, Again!AgainStepInv
  <2> QED
    BY <2>1, <2>2
<1>6. Again!StateInv'
  BY <1>4 DEF Again!Start, Again!Crash, Again!AgainInv, Again!StateInv
<1>7. \A t : Again!TakenLast(t) => Again!TakenLast(t)'
  BY <1>1, <1>4 DEF Again!TakenLast, Again!CandidateHeads, Again!Better, Again!Score
<1> QED
  BY <1>1, <1>2, <1>3, <1>5, <1>6, <1>7 DEF Again!AgainInv

(* No step of the second node, second imports and crashes included, breaks *)
(* its invariant. *)
LEMMA AgainNextInv ==
  ASSUME Again!AgainInv, [Again!DupNext]_vars2
  PROVE  Again!AgainInv'
<1>1. CASE Again!Start \/ Again!Crash
  BY <1>1, AgainStartCrashInv
<1>2. CASE Again!Commit
  BY <1>2, AgainGenesisInv, AgainPutBlockInv, AgainForkChoiceInv, AgainPutStateInv
  DEF Again!Commit
<1>3. ASSUME NEW b \in Blocks, Again!Receive(b) \/ Again!Produce(b) \/ Again!Redeliver(b)
      PROVE  Again!AgainInv'
  BY <1>3, AgainAcceptInv
<1>4. CASE UNCHANGED vars2
  <2>1. /\ Again!TypeOK' /\ Again!LineageInv' /\ Again!AgainStepInv' /\ Again!StateInv'
    BY <1>4 DEF vars2, Again!AgainInv, Again!TypeOK, Again!LineageInv,
                Again!AgainStepInv, Again!StateInv
  <2>2. \A t : Again!TakenLast(t) => Again!TakenLast(t)'
    BY <1>4 DEF vars2, Again!TakenLast, Again!CandidateHeads, Again!Better, Again!Score
  <2> QED
    BY <2>1, <2>2, <1>4 DEF vars2, Again!AgainInv
<1> QED
  BY <1>1, <1>2, <1>3, <1>4 DEF Again!DupNext, Again!Next

(* At rest after a completed import the second node, too, serves the state *)
(* of the head of one unbroken chain, whatever was delivered to it again   *)
(* and wherever it crashed meanwhile.                                      *)
THEOREM RedeliveryLeavesRest == MCSpec => []AtRestAgain
<1>1. MCInit => Again!AgainInv
  BY AgainInitInv DEF MCInit
<1>2. Again!AgainInv /\ [MCNext]_<<again, vars, vars2>> => Again!AgainInv'
  <2> SUFFICES ASSUME Again!AgainInv, [MCNext]_<<again, vars, vars2>>
               PROVE  [Again!DupNext]_vars2
    BY AgainNextInv
  <2> QED
    BY DEF MCNext
<1>3. Again!AgainInv => AtRestAgain
  <2> SUFFICES ASSUME Again!AgainInv, settled2, at2 = "idle"
               PROVE  \E h \in canonical2 :
                        /\ Again!IsHead(h) /\ canonical2 = Chain[h]
                        /\ kv2 = Again!Replayed(Chain[h])
                        /\ finalized2 = IF h = Genesis THEN {Genesis}
                             ELSE {b \in canonical2 : Height[b] <= Height[h] - FinalityDepth}
    BY DEF AtRestAgain, Again!AtRest
  <2>1. PICK t \in stored2 : Again!TakenLast(t)
    BY DEF Again!AgainInv, Again!AgainStepInv
  <2>2. canonical2 = Chain[t] /\ kv2 = Again!Replayed(canonical2)
    BY <2>1 DEF Again!TakenLast, Again!AgainInv, Again!StateInv
  <2>3. t \in canonical2 /\ \A x \in canonical2 : x = t \/ Height[x] < Height[t]
    BY <2>1, <2>2 DEF Again!AgainInv, Again!LineageInv
  <2>4. \A x \in canonical2 : Height[x] \in Nat
    BY StoredHeights DEF Again!AgainInv, Again!LineageInv
  <2>5. Again!IsHead(t)
    BY <2>3, <2>4 DEF Again!IsHead
  <2> QED
    BY <2>1, <2>2, <2>3, <2>5 DEF Again!TakenLast
<1> QED
  BY <1>1, <1>2, <1>3, PTL DEF MCSpec
=============================================================================
