---------------------------- MODULE MempoolProofs ----------------------------
(***************************************************************************)
(* The invariants of the transaction pool hold for every set of accounts,  *)
(* transactions and limits.  Inv is inductive: one lemma per action group  *)
(* proves that a step preserves it.                                        *)
(***************************************************************************)
EXTENDS Mempool, FiniteSetTheorems, TLAPS

(* The nonces a block can leave behind are natural numbers. *)
LEMMA NonceValuesNat == NonceValues \subseteq Nat
BY TxAssumption DEF NonceValues

(* The pool starts empty and the invariant holds. *)
LEMMA InitInv == Init => Inv
<1> SUFFICES ASSUME Init PROVE Inv
  OBVIOUS
<1> USE DEF Init, EmptySelection, Zero
<1>1. TypeOK
  <2>1. DOMAIN byNonce = {} /\ byNonce \in [DOMAIN byNonce -> Txs]
    OBVIOUS
  <2>2. sel.list \in Seq(Txs) /\ sel.next \in [Accounts -> Nat]
    OBVIOUS
  <2>3. sel \in [list : Seq(Txs), taken : SUBSET Txs, gas : Nat, next : [Accounts -> Nat]]
    BY <2>2
  <2> QED
    BY <2>1, <2>3 DEF TypeOK
<1>2. IsFiniteSet(txs) /\ Cardinality(txs) = 0
  BY FS_EmptySet
<1>3. WithinCapacity
  BY <1>2, ConfigAssumption DEF WithinCapacity
<1>4. IndexExact
  BY DEF IndexExact
<1> QED
  BY <1>1, <1>3, <1>4 DEF Inv, PoolsPartition, HeadOfLineReady, NoReplay, SelectionInv

(* Adding a transaction keeps the index exact: its key was free. *)
LEMMA AddIndex ==
  ASSUME Inv, NEW t \in Txs, Add(t)
  PROVE  IndexExact'
<1> USE TxAssumption DEF Inv, TypeOK, Add, PoolAccepts, IndexExact, Key
<1>1. DOMAIN byNonce' = DOMAIN byNonce \cup {Key(t)}
  OBVIOUS
<1>2. \A u \in txs : Key(u) # Key(t)
  OBVIOUS
<1>3. \A u \in txs' : byNonce'[Key(u)] = u
  BY <1>1, <1>2
<1> QED
  BY <1>1, <1>3

(* submit_tx preserves the invariant. *)
LEMMA SubmitInv ==
  ASSUME Inv, NEW t \in Txs, Submit(t)
  PROVE  Inv'
<1> USE TxAssumption, ConfigAssumption DEF Inv, Submit
<1>0. Add(t) /\ t \in WellFormed /\ t \notin txs /\ Cardinality(txs) < MaxTxs
  BY DEF Add, PoolAccepts
<1>1. txs' = txs \cup {t}
  BY <1>0 DEF Add
<1>2. IndexExact'
  BY <1>0, AddIndex
<1>3. TypeOK'
  <2>1. byNonce' \in [DOMAIN byNonce' -> Txs] /\ DOMAIN byNonce' \subseteq Accounts \X Nat
    BY <1>0 DEF TypeOK, Add, Key
  <2> QED
    BY <2>1, <1>0 DEF TypeOK, Add
<1>4. PoolsPartition'
  BY <1>0 DEF PoolsPartition, Add
<1>5. WithinCapacity'
  <2>1. IsFiniteSet(txs') /\ Cardinality(txs') = Cardinality(txs) + 1
    BY <1>0, <1>1, FS_AddElement DEF WithinCapacity
  <2>2. Cardinality(txs) \in Nat
    BY FS_CardinalityType DEF WithinCapacity
  <2> QED
    BY <2>1, <2>2, <1>0 DEF WithinCapacity
<1>6. HeadOfLineReady'
  BY <1>0 DEF HeadOfLineReady, Add
<1>7. NoReplay'
  BY <1>0 DEF NoReplay, Add, TypeOK
<1>8. SelectionInv'
  BY DEF SelectionInv
<1> QED
  BY <1>0, <1>1, <1>2, <1>3, <1>4, <1>5, <1>6, <1>7, <1>8

(* Importing a block preserves everything but the selection: what leaves   *)
(* the pool leaves the index, the promoted are exactly those whose turn it *)
(* is, and what was executed lies below the new nonces.                    *)
LEMMA ImportInv ==
  ASSUME Inv, NEW block \in SUBSET Txs, Import(block),
         producing' = FALSE, sel' \in [list : Seq(Txs), taken : SUBSET Txs,
                                       gas : Nat, next : [Accounts -> Nat]]
  PROVE  Inv'
<1>1. PICK ok \in SUBSET block, conf \in [Accounts -> NonceValues] :
         /\ NonceUpdate(ok, conf)
         /\ confirmed' = conf
         /\ executed' = executed \cup ok
         /\ RemoveAndPromote(block, conf)
  BY DEF Import
<1> DEFINE kept == queued \ block
           up   == Promotable(kept, conf)
<1>2. conf \in [Accounts -> Nat]
  BY NonceValuesNat
<1>3. /\ txs' = txs \ block
      /\ ready' = (ready \ block) \cup up
      /\ queued' = kept \ up
  BY <1>1 DEF RemoveAndPromote
<1>4. up \subseteq kept
  BY DEF Promotable
<1>5. DOMAIN byNonce' = DOMAIN byNonce \ {Key(t) : t \in block \cap txs}
  BY <1>1 DEF RemoveAndPromote
<1>6. \A k \in DOMAIN byNonce' : byNonce'[k] = byNonce[k]
  BY <1>1 DEF RemoveAndPromote
<1>7. TypeOK'
  <2>1. byNonce' \in [DOMAIN byNonce' -> Txs]
    BY <1>1, <1>5, <1>6 DEF RemoveAndPromote, Inv, TypeOK
  <2> QED
    BY <1>1, <1>2, <1>3, <1>4, <1>5, <2>1 DEF Inv, TypeOK
<1>8. (txs \subseteq WellFormed)'
  BY <1>3 DEF Inv
<1>9. PoolsPartition'
  BY <1>3, <1>4 DEF Inv, PoolsPartition
<1>10. IndexExact'
  <2>1. \A t, u \in txs : Key(t) = Key(u) => t = u
    BY DEF Inv, IndexExact
  <2>2. DOMAIN byNonce' = {Key(t) : t \in txs'}
    BY <2>1, <1>3, <1>5 DEF Inv, IndexExact
  <2>3. \A t \in txs' : byNonce'[Key(t)] = t
    BY <2>2, <1>3, <1>6 DEF Inv, IndexExact
  <2> QED
    BY <2>2, <2>3 DEF IndexExact
<1>11. WithinCapacity'
  <2>1. IsFiniteSet(txs') /\ Cardinality(txs') <= Cardinality(txs)
    BY <1>3, FS_Subset DEF Inv, WithinCapacity
  <2>2. Cardinality(txs) \in Nat /\ Cardinality(txs') \in Nat
    BY <2>1, FS_CardinalityType DEF Inv, WithinCapacity
  <2> QED
    BY <2>1, <2>2, ConfigAssumption DEF Inv, WithinCapacity
<1>12. HeadOfLineReady'
  <2> SUFFICES ASSUME NEW t \in txs', Nonce[t] = conf[From[t]]
               PROVE  t \in ready'
    BY <1>1 DEF HeadOfLineReady
  <2>1. CASE t \in ready
    BY <2>1, <1>3
  <2>2. CASE t \in queued
    <3>1. t \in kept /\ t \in Txs /\ Nonce[t] \in Nat /\ conf[From[t]] \in Nat
      BY <2>2, <1>2, <1>3, TxAssumption DEF Inv, TypeOK
    <3>2. \A n \in conf[From[t]] .. Nonce[t] : n = Nonce[t]
      BY <3>1
    <3>3. t \in up
      BY <3>1, <3>2 DEF Promotable
    <3> QED
      BY <3>3, <1>3
  <2> QED
    BY <2>1, <2>2, <1>3 DEF Inv, PoolsPartition
<1>13. NoReplay'
  <2>1. executed' \cap txs' = {}
    BY <1>1, <1>3 DEF Inv, NoReplay
  <2>2. ASSUME NEW t \in executed'
        PROVE  Nonce[t] < conf[From[t]]
    <3>1. t \in Txs /\ From[t] \in Accounts /\ Nonce[t] \in Nat
      BY <1>1, TxAssumption DEF Inv, TypeOK
    <3>2. CASE t \in ok
      BY <3>1, <3>2, <1>1 DEF NonceUpdate
    <3>3. CASE t \in executed
      <4>1. Nonce[t] < confirmed[From[t]] /\ conf[From[t]] >= confirmed[From[t]]
        BY <3>1, <3>3, <1>1 DEF Inv, NoReplay, NonceUpdate
      <4> QED
        BY <4>1, <3>1, <1>2 DEF Inv, TypeOK
    <3> QED
      BY <3>2, <3>3, <1>1
  <2> QED
    BY <2>1, <2>2, <1>1 DEF NoReplay
<1>14. SelectionInv'
  BY DEF SelectionInv
<1> QED
  BY <1>7, <1>8, <1>9, <1>10, <1>11, <1>12, <1>13, <1>14 DEF Inv

(* Append keeps the elements it finds and adds one after them. *)
LEMMA AppendElements ==
  ASSUME NEW S, NEW L \in Seq(S), NEW e \in S
  PROVE  LET M == Append(L, e) IN
           /\ \A i \in DOMAIN M : \/ i \in DOMAIN L /\ M[i] = L[i]
                                  \/ i = Len(L) + 1 /\ M[i] = e
           /\ \A i, j \in DOMAIN M : i < j => i \in DOMAIN L /\ M[i] = L[i]
<1>1. /\ Len(L) \in Nat /\ DOMAIN L = 1 .. Len(L)
      /\ DOMAIN Append(L, e) = 1 .. Len(L) + 1
  OBVIOUS
<1>2. \A i \in 1 .. Len(L) : Append(L, e)[i] = L[i]
  OBVIOUS
<1>3. Append(L, e)[Len(L) + 1] = e
  OBVIOUS
<1>4. ASSUME NEW i \in DOMAIN Append(L, e)
      PROVE  i \in DOMAIN L \/ i = Len(L) + 1
  BY <1>1
<1>5. ASSUME NEW i \in DOMAIN Append(L, e), NEW j \in DOMAIN Append(L, e), i < j
      PROVE  i \in DOMAIN L
  BY <1>1, <1>5
<1>6. \A i \in DOMAIN L : Append(L, e)[i] = L[i]
  BY <1>1, <1>2
<1> DEFINE M == Append(L, e)
<1> HIDE DEF M
<1> QED
  BY <1>3, <1>4, <1>5, <1>6 DEF M

(* A round of the selection keeps SelectionInv: the transaction taken has  *)
(* its sender's next nonce, so the sender's run grows by one at its end.   *)
LEMMA SelectInv ==
  ASSUME Inv, NEW t \in Txs, SelectNext(t)
  PROVE  Inv'
<1> DEFINE next2 == [sel.next EXCEPT ![From[t]] = Nonce[t] + 1]
<1> USE TxAssumption, ConfigAssumption
<1>1. /\ t \in txs \ sel.taken
      /\ Nonce[t] = sel.next[From[t]]
      /\ sel.gas + GasLimit[t] <= BlockGasLimit
  BY DEF SelectNext, Eligible
<1>2. /\ sel'.list = Append(sel.list, t)
      /\ sel'.taken = sel.taken \cup {t}
      /\ sel'.gas = sel.gas + GasLimit[t]
      /\ sel'.next = next2
      /\ sel' = [list |-> Append(sel.list, t), taken |-> sel.taken \cup {t},
                 gas |-> sel.gas + GasLimit[t], next |-> next2]
  BY DEF SelectNext
<1>3. UNCHANGED <<txs, ready, queued, byNonce, confirmed, executed, producing>>
      /\ producing
  BY DEF SelectNext
<1>4. /\ sel.list \in Seq(Txs) /\ sel.taken \subseteq Txs /\ sel.gas \in Nat
      /\ sel.next \in [Accounts -> Nat] /\ confirmed \in [Accounts -> Nat]
  BY DEF Inv, TypeOK
<1>5. TypeOK'
  <2>1. next2 \in [Accounts -> Nat] /\ sel.gas + GasLimit[t] \in Nat
        /\ Append(sel.list, t) \in Seq(Txs) /\ sel.taken \cup {t} \in SUBSET Txs
    BY <1>4
  <2>2. sel' \in [list : Seq(Txs), taken : SUBSET Txs, gas : Nat, next : [Accounts -> Nat]]
    BY <2>1, <1>2
  <2> QED
    BY <2>2, <1>3 DEF Inv, TypeOK
<1>6. /\ (txs \subseteq WellFormed)' /\ PoolsPartition' /\ IndexExact'
      /\ WithinCapacity' /\ HeadOfLineReady' /\ NoReplay'
  BY <1>3 DEF Inv, PoolsPartition, IndexExact, WithinCapacity, HeadOfLineReady, NoReplay
<1>7. SelectionInv'
  <2>0. SelectionInv /\ producing
    BY <1>3 DEF Inv
  <2>1. sel'.taken \subseteq txs' /\ sel'.gas <= BlockGasLimit
    BY <2>0, <1>1, <1>2, <1>3 DEF SelectionInv
  <2>2. \A a \in Accounts : next2[a] = IF a = From[t] THEN Nonce[t] + 1 ELSE sel.next[a]
    BY <1>4
  <2>3. \A a \in Accounts : next2[a] >= confirmed[a] /\ next2[a] >= sel.next[a]
    BY <2>0, <2>2, <1>1, <1>4 DEF SelectionInv
  <2>4. \A u \in sel'.taken : Nonce[u] >= confirmed[From[u]] /\ Nonce[u] < next2[From[u]]
    <3> SUFFICES ASSUME NEW u \in sel.taken \cup {t}
                 PROVE  Nonce[u] >= confirmed[From[u]] /\ Nonce[u] < next2[From[u]]
      BY <1>2
    <3>1. u \in Txs /\ From[u] \in Accounts /\ Nonce[u] \in Nat
      BY <1>4
    <3>2. CASE u = t
      BY <3>1, <3>2, <2>0, <2>2, <1>1, <1>4 DEF SelectionInv
    <3>3. CASE u \in sel.taken
      BY <3>1, <3>3, <2>0, <2>3, <1>4 DEF SelectionInv
    <3> QED
      BY <3>2, <3>3
  <2>5. ASSUME NEW a \in Accounts, NEW n \in confirmed[a] .. (next2[a] - 1)
        PROVE  \E u \in sel'.taken : From[u] = a /\ Nonce[u] = n
    <3>1. CASE a = From[t] /\ n = Nonce[t]
      BY <3>1, <1>2
    <3>2. CASE ~(a = From[t] /\ n = Nonce[t])
      <4>1. n \in confirmed[a] .. (sel.next[a] - 1)
        BY <3>2, <2>2, <1>1, <1>4
      <4> QED
        BY <4>1, <2>0, <1>2 DEF SelectionInv
    <3> QED
      BY <3>1, <3>2
  <2> DEFINE L == sel.list
             M == sel'.list
  <2>a. L \in Seq(Txs) /\ M = Append(L, t)
    BY <1>2, <1>4
  <2>c. \A i \in DOMAIN M : \/ i \in DOMAIN L /\ M[i] = L[i]
                            \/ i = Len(L) + 1 /\ M[i] = t
    <3>1. \A i \in DOMAIN Append(L, t) : \/ i \in DOMAIN L /\ Append(L, t)[i] = L[i]
                                         \/ i = Len(L) + 1 /\ Append(L, t)[i] = t
      BY <2>a, AppendElements
    <3> QED
      BY <3>1, <2>a
  <2>e. \A i, j \in DOMAIN M : i < j => i \in DOMAIN L
    BY <2>a, AppendElements
  <2>d. \A i \in DOMAIN L : L[i] \in sel.taken
    BY <2>0 DEF SelectionInv
  <2>6. \A i \in DOMAIN M : M[i] \in sel'.taken
    <3>1. \A u : u \in sel.taken \/ u = t => u \in sel'.taken
      BY <1>2
    <3> HIDE DEF L, M
    <3> QED
      BY <3>1, <2>c, <2>d
  <2>7. ASSUME NEW i \in DOMAIN M, NEW j \in DOMAIN M, i < j, From[M[i]] = From[M[j]]
        PROVE  Nonce[M[i]] < Nonce[M[j]]
    <3>1. i \in DOMAIN L /\ M[i] = L[i]
      BY <2>c, <2>e, <2>7, <2>a, AppendElements
    <3>2. CASE j \in DOMAIN L /\ M[j] = L[j]
      BY <3>1, <3>2, <2>0, <2>7 DEF SelectionInv
    <3>3. CASE M[j] = t
      <4>1. L[i] \in sel.taken /\ From[L[i]] = From[t]
        BY <3>1, <3>3, <2>7, <2>d
      <4>2. Nonce[L[i]] < sel.next[From[L[i]]]
        BY <4>1, <2>0 DEF SelectionInv
      <4> QED
        BY <4>1, <4>2, <3>1, <3>3, <1>1
    <3> QED
      BY <3>2, <3>3, <2>c, <2>7
  <2> QED
    BY <2>1, <2>3, <2>4, <2>5, <2>6, <2>7, <1>2, <1>3 DEF SelectionInv
<1> QED
  BY <1>3, <1>5, <1>6, <1>7 DEF Inv

(* Every step preserves the invariant. *)
LEMMA NextInv == Inv /\ [Next]_vars => Inv'
<1> SUFFICES ASSUME Inv, [Next]_vars PROVE Inv'
  OBVIOUS
<1>1. ASSUME NEW t \in Txs, Submit(t) PROVE Inv'
  BY <1>1, SubmitInv
<1>2. ASSUME NEW t \in Txs, SelectNext(t) PROVE Inv'
  BY <1>2, SelectInv
<1>3. CASE StartBlock
  <2> USE TxAssumption, ConfigAssumption DEF StartBlock, EmptySelection
  <2>1. /\ sel' = [list |-> <<>>, taken |-> {}, gas |-> 0, next |-> confirmed]
        /\ sel'.next = confirmed /\ sel'.taken = {} /\ sel'.list = <<>> /\ sel'.gas = 0
        /\ UNCHANGED <<txs, ready, queued, byNonce, confirmed, executed>>
    BY <1>3
  <2>2. confirmed \in [Accounts -> Nat]
    BY DEF Inv, TypeOK
  <2>3. TypeOK'
    <3>1. sel' \in [list : Seq(Txs), taken : SUBSET Txs, gas : Nat, next : [Accounts -> Nat]]
      BY <2>1, <2>2
    <3> QED
      BY <3>1, <2>1, <1>3 DEF Inv, TypeOK
  <2>4. SelectionInv'
    BY <2>1, <2>2 DEF SelectionInv
  <2> QED
    BY <2>1, <2>3, <2>4
       DEF Inv, PoolsPartition, IndexExact, WithinCapacity, HeadOfLineReady, NoReplay
<1>4. CASE EndBlock
  <2>1. /\ producing' = FALSE
        /\ sel' = [list |-> <<>>, taken |-> {}, gas |-> 0, next |-> Zero]
    BY <1>4 DEF EndBlock, EmptySelection
  <2>2. Zero \in [Accounts -> Nat] /\ sel.taken \in SUBSET Txs
    BY DEF Zero, Inv, TypeOK
  <2>3. sel' \in [list : Seq(Txs), taken : SUBSET Txs, gas : Nat, next : [Accounts -> Nat]]
    BY <2>1, <2>2
  <2>4. CASE UNCHANGED <<txs, ready, queued, byNonce, confirmed, executed>>
    BY <2>1, <2>3, <2>4 DEF Inv, TypeOK, PoolsPartition, IndexExact, WithinCapacity,
                            HeadOfLineReady, NoReplay, SelectionInv
  <2>5. CASE Import(sel.taken)
    BY <2>1, <2>2, <2>3, <2>5, ImportInv
  <2> QED
    BY <1>4, <2>4, <2>5 DEF EndBlock
<1>5. ASSUME NEW block \in SUBSET WellFormed, ImportFromPeer(block) PROVE Inv'
  <2>1. block \in SUBSET Txs /\ Import(block) /\ producing' = FALSE /\ sel' = sel
    BY <1>5, TxAssumption DEF ImportFromPeer, Inv, TypeOK
  <2>2. sel' \in [list : Seq(Txs), taken : SUBSET Txs, gas : Nat, next : [Accounts -> Nat]]
    BY <2>1 DEF Inv, TypeOK
  <2> QED
    BY <2>1, <2>2, ImportInv
<1>6. CASE UNCHANGED vars
  <2> USE <1>6 DEF vars, Inv
  <2>1. TypeOK' /\ PoolsPartition' /\ IndexExact' /\ WithinCapacity'
    BY DEF TypeOK, PoolsPartition, IndexExact, WithinCapacity
  <2>2. HeadOfLineReady' /\ NoReplay' /\ SelectionInv'
    BY DEF HeadOfLineReady, NoReplay, SelectionInv
  <2> QED
    BY <2>1, <2>2
<1> QED
  BY <1>1, <1>2, <1>3, <1>4, <1>5, <1>6 DEF Next

(* The inductive invariant holds in every reachable state. *)
THEOREM PoolInvariant == Spec => []Inv
BY InitInv, NextInv, PTL DEF Spec

(* The pool's sets, index and size are consistent in every state: _txs is  *)
(* split between ready_pool and queued_pool, _by_sender_nonce is its index *)
(* and mempool_max_txs is respected.                                       *)
THEOREM PoolAlwaysConsistent == Spec => []PoolConsistent
<1>1. Inv => PoolConsistent
  BY DEF Inv, PoolConsistent
<1> QED
  BY <1>1, PoolInvariant, PTL

(* The next executable transaction of an account is never left queued. *)
THEOREM HeadOfLine == Spec => []HeadOfLineReady
<1>1. Inv => HeadOfLineReady
  BY DEF Inv
<1> QED
  BY <1>1, PoolInvariant, PTL

(* No transaction executes twice. *)
THEOREM NoReplayEver == Spec => []NoReplay
<1>1. Inv => NoReplay
  BY DEF Inv
<1> QED
  BY <1>1, PoolInvariant, PTL

(* A block under construction always extends the confirmed nonces, in      *)
(* nonce order and within the gas limit.                                   *)
THEOREM SelectionAlwaysExecutable == Spec => []SelectionExecutable
<1>1. ASSUME Inv, producing PROVE BlockOnHead(sel.taken)
  <2>1. sel.taken \subseteq txs /\ txs \subseteq WellFormed
    BY <1>1 DEF Inv, SelectionInv
  <2>2. \A t, u \in sel.taken : Key(t) = Key(u) => t = u
    BY <1>1, <2>1 DEF Inv, IndexExact
  <2>3. ASSUME NEW t \in sel.taken
        PROVE  /\ Nonce[t] >= confirmed[From[t]]
               /\ \A n \in confirmed[From[t]] .. Nonce[t] :
                     \E u \in sel.taken : From[u] = From[t] /\ Nonce[u] = n
    <3>1. /\ From[t] \in Accounts /\ Nonce[t] \in Nat /\ confirmed[From[t]] \in Nat
          /\ sel.next[From[t]] \in Nat
      BY <1>1, TxAssumption DEF Inv, TypeOK
    <3>2. Nonce[t] >= confirmed[From[t]] /\ Nonce[t] < sel.next[From[t]]
      BY <1>1 DEF Inv, SelectionInv
    <3>3. confirmed[From[t]] .. Nonce[t] \subseteq confirmed[From[t]] .. (sel.next[From[t]] - 1)
      BY <3>1, <3>2
    <3> QED
      BY <1>1, <3>1, <3>2, <3>3 DEF Inv, SelectionInv
  <2> QED
    BY <2>1, <2>2, <2>3 DEF BlockOnHead
<1>2. Inv => SelectionExecutable
  BY <1>1 DEF SelectionExecutable, Inv, SelectionInv
<1> QED
  BY <1>2, PoolInvariant, PTL
=============================================================================
