------------------------ MODULE ChainNetworkProofs ------------------------
(***************************************************************************)
(* What module ChainNetwork keeps true for any set of nodes, connected in  *)
(* any way, any transactions and any height.                               *)
(***************************************************************************)
EXTENDS MCChainNetwork, SequenceTheorems, TLAPS

\* A network of nodes: the invariant is the types and ProducerKeepsIt, which
\* is inductive because a producer is always among its own takers.
Inv == TypeOK /\ ProducerKeepsIt

-----------------------------------------------------------------------------
(***************************************************************************)
(* A block appended to some of the chains                                  *)
(***************************************************************************)

\* Production by n extends the chain of every taker by one payload of n and
\* leaves the other chains alone.
LEMMA ProducedExtends ==
  ASSUME TypeOK, NEW n \in Nodes, NEW txs \in SUBSET pool[n], Produced(n, txs)
  PROVE  \E b \in Payloads :
           /\ b.by = n
           /\ \A k \in Takers(n) : chain[k] = chain[n] /\ chain'[k] = Append(chain[n], b)
           /\ \A k \in Nodes \ Takers(n) : chain'[k] = chain[k]
           /\ n \in Takers(n) /\ Takers(n) \subseteq Nodes
           /\ chain' \in [Nodes -> Seq(Payloads)]
<1> DEFINE b == [by |-> n, txs |-> txs]
<1>1. b \in Payloads /\ b.by = n
  BY DEF TypeOK, Payloads
<1>2. Takers(n) \subseteq Nodes /\ n \in Takers(n) /\ \A k \in Takers(n) : chain[k] = chain[n]
  BY DEF Takers, TypeOK
<1>3. chain' = [k \in Nodes |-> IF k \in Takers(n) THEN Append(chain[n], b) ELSE chain[k]]
  BY DEF Produced
<1>4. \A k \in Nodes : chain'[k] = IF k \in Takers(n) THEN Append(chain[n], b) ELSE chain[k]
  BY <1>3
<1>5. chain[n] \in Seq(Payloads) /\ \A k \in Nodes : chain[k] \in Seq(Payloads)
  BY DEF TypeOK
<1>6. Append(chain[n], b) \in Seq(Payloads)
  BY <1>1, <1>5
<1>7. chain' \in [Nodes -> Seq(Payloads)]
  BY <1>3, <1>5, <1>6
<1> HIDE DEF b
<1> QED BY <1>1, <1>2, <1>4, <1>7

\* No step changes or drops a block that is on a chain.
LEMMA ChainsKept ==
  ASSUME TypeOK, NEW n \in Nodes, NEW txs \in SUBSET pool[n], Produced(n, txs),
         NEW k \in Nodes
  PROVE  /\ Len(chain[k]) \in Nat /\ Len(chain'[k]) \in Nat
         /\ Len(chain[k]) <= Len(chain'[k])
         /\ \A j \in 1 .. Len(chain[k]) : chain'[k][j] = chain[k][j]
<1>1. PICK b \in Payloads :
        /\ \A m \in Takers(n) : chain[m] = chain[n] /\ chain'[m] = Append(chain[n], b)
        /\ \A m \in Nodes \ Takers(n) : chain'[m] = chain[m]
  BY ProducedExtends
<1>2. chain[k] \in Seq(Payloads)
  BY DEF TypeOK
<1>3. CASE k \in Takers(n)
  BY <1>1, <1>2, <1>3
<1>4. CASE k \notin Takers(n)
  BY <1>1, <1>2, <1>4
<1> QED BY <1>3, <1>4

\* The types of the pools: every action stores transactions only.
LEMMA PoolTyped ==
  ASSUME TypeOK, Next
  PROVE  pool' \in [Nodes -> SUBSET Txs]
<1>1. pool \in [Nodes -> SUBSET Txs]
  BY DEF TypeOK
<1>2. ASSUME NEW n \in Nodes, NEW m \in Nodes, Connect(n, m) PROVE pool' \in [Nodes -> SUBSET Txs]
  BY <1>1, <1>2 DEF Connect
<1>3. ASSUME NEW n \in Nodes, NEW m \in Nodes, SyncFrom(n, m) PROVE pool' \in [Nodes -> SUBSET Txs]
  <2>1. \A k \in Nodes : {t \in pool[m] : k \in Reached(n, t)} \subseteq Txs
    BY <1>1
  <2> QED BY <1>1, <1>3, <2>1 DEF SyncFrom
<1>4. ASSUME NEW n \in Nodes, NEW t \in Txs, Submit(n, t) PROVE pool' \in [Nodes -> SUBSET Txs]
  BY <1>1, <1>4 DEF Submit
<1>5. ASSUME NEW n \in Nodes, NEW txs \in SUBSET pool[n], Produce(n, txs)
      PROVE  pool' \in [Nodes -> SUBSET Txs]
  BY <1>1, <1>5 DEF Produce
<1> QED BY <1>2, <1>3, <1>4, <1>5 DEF Next

\* connect_peer keeps the peer lists symmetric and without self-peers.
LEMMA PeersTyped ==
  ASSUME TypeOK, Next
  PROVE  /\ peers' \in [Nodes -> SUBSET Nodes]
         /\ \A k, m \in Nodes : m \in peers'[k] => k \in peers'[m] /\ k # m
<1>1. CASE UNCHANGED peers
  BY <1>1 DEF TypeOK
<1>2. ASSUME NEW n \in Nodes, NEW m \in Nodes, Connect(n, m)
      PROVE  /\ peers' \in [Nodes -> SUBSET Nodes]
             /\ \A k, l \in Nodes : l \in peers'[k] => k \in peers'[l] /\ k # l
  <2>1. /\ n # m /\ peers \in [Nodes -> SUBSET Nodes]
        /\ peers' = [peers EXCEPT ![n] = @ \cup {m}, ![m] = @ \cup {n}]
    BY <1>2 DEF Connect, TypeOK
  <2>2. \A k \in Nodes : peers'[k] = CASE k = n -> peers[n] \cup {m}
                                       [] k = m -> peers[m] \cup {n}
                                       [] OTHER -> peers[k]
    BY <2>1
  <2>3. \A k, l \in Nodes : l \in peers[k] => k \in peers[l] /\ k # l
    BY DEF TypeOK
  <2> QED BY <2>1, <2>2, <2>3
<1> QED BY <1>1, <1>2 DEF Next, Produce, Submit, SyncFrom

-----------------------------------------------------------------------------
\* All chains and pools are empty at first.
LEMMA InitInv == Init => Inv
  BY DEF Init, Inv, TypeOK, ProducerKeepsIt

\* Who produces a block has it, and whoever else has it took it over with the whole chain.
LEMMA ProduceKeepsIt ==
  ASSUME Inv, NEW n \in Nodes, NEW txs \in SUBSET pool[n], Produced(n, txs)
  PROVE  ProducerKeepsIt'
<1> USE DEF Inv
<1>1. PICK b \in Payloads :
        /\ b.by = n
        /\ \A k \in Takers(n) : chain[k] = chain[n] /\ chain'[k] = Append(chain[n], b)
        /\ \A k \in Nodes \ Takers(n) : chain'[k] = chain[k]
        /\ n \in Takers(n)
  BY ProducedExtends
<1> SUFFICES ASSUME NEW m \in Nodes, NEW i \in 1 .. Len(chain'[m])
             PROVE  LET p == chain'[m][i].by IN
                      /\ i <= Len(chain'[p])
                      /\ \A j \in 1 .. i : chain'[p][j] = chain'[m][j]
  BY DEF ProducerKeepsIt
<1> DEFINE p == chain'[m][i].by
<1>2. \A k \in Nodes : chain[k] \in Seq(Payloads)
  BY DEF TypeOK
<1>3. CASE i <= Len(chain[m])
  <2>1. i \in 1 .. Len(chain[m])
    BY <1>2, <1>3
  <2>2. \A j \in 1 .. i : chain'[m][j] = chain[m][j]
    BY <2>1, ChainsKept
  <2>3. p = chain[m][i].by /\ p \in Nodes
    <3>1. chain[m] \in Seq(Payloads)
      BY <1>2
    <3>2. chain[m][i] \in Payloads
      BY <2>1, <3>1
    <3>3. chain'[m][i] = chain[m][i]
      BY <2>1, <2>2
    <3> QED BY <3>2, <3>3 DEF Payloads
  <2>4. i <= Len(chain[p]) /\ \A j \in 1 .. i : chain[p][j] = chain[m][j]
    BY <2>1, <2>3 DEF ProducerKeepsIt
  <2>5. /\ Len(chain[p]) \in Nat /\ Len(chain'[p]) \in Nat
        /\ Len(chain[p]) <= Len(chain'[p])
        /\ \A j \in 1 .. Len(chain[p]) : chain'[p][j] = chain[p][j]
    BY <2>3, ChainsKept
  <2>6. i <= Len(chain'[p])
    BY <2>4, <2>5
  <2>7. \A j \in 1 .. i : chain'[p][j] = chain'[m][j]
    BY <2>2, <2>4, <2>5
  <2> QED BY <2>6, <2>7
<1>4. CASE ~(i <= Len(chain[m]))
  <2>1. m \in Takers(n) /\ chain[m] = chain[n] /\ chain'[m] = Append(chain[n], b)
    BY <1>1, <1>2, <1>4
  <2>2. i = Len(chain[n]) + 1
    BY <1>2, <1>4, <2>1
  <2>3. chain'[m][i] = b
    BY <1>2, <2>1, <2>2
  <2>4. p = n /\ chain'[n] = chain'[m]
    BY <1>1, <2>1, <2>3
  <2>5. i <= Len(chain'[m])
    OBVIOUS
  <2> QED BY <2>4, <2>5
<1> QED BY <1>3, <1>4

\* No call breaks what producers keep.
LEMMA NextInv == Inv /\ [Next]_vars => Inv'
<1> SUFFICES ASSUME Inv, [Next]_vars PROVE Inv'
  OBVIOUS
<1>1. CASE UNCHANGED vars
  BY <1>1 DEF Inv, TypeOK, ProducerKeepsIt, vars
<1>2. CASE Next
  <2>1. /\ peers' \in [Nodes -> SUBSET Nodes]
        /\ \A k, m \in Nodes : m \in peers'[k] => k \in peers'[m] /\ k # m
    BY <1>2, PeersTyped DEF Inv
  <2>2. pool' \in [Nodes -> SUBSET Txs]
    BY <1>2, PoolTyped DEF Inv
  <2>3. CASE UNCHANGED chain
    BY <2>1, <2>2, <2>3 DEF Inv, TypeOK, ProducerKeepsIt
  <2>4. ASSUME NEW n \in Nodes, NEW txs \in SUBSET pool[n], Produce(n, txs)
        PROVE  Inv'
    <3>1. Produced(n, txs)
      BY <2>4 DEF Produce
    <3>2. chain' \in [Nodes -> Seq(Payloads)]
      BY <3>1, ProducedExtends DEF Inv
    <3>3. ProducerKeepsIt'
      BY <3>1, ProduceKeepsIt
    <3> QED BY <2>1, <2>2, <3>2, <3>3 DEF Inv, TypeOK
  <2> QED BY <1>2, <2>3, <2>4 DEF Next, Connect, Submit, SyncFrom
<1> QED BY <1>1, <1>2

\* Peers are symmetric and typed in every state.
THEOREM NetworkTyped == Spec => []TypeOK
<1>1. Inv => TypeOK
  BY DEF Inv
<1> QED BY InitInv, NextInv, <1>1, PTL DEF Spec

\* For every network, connected in whatever order, the producer of a block
\* holds it wherever another node does.
THEOREM ProducersKeepBlocks == Spec => []ProducerKeepsIt
<1>1. Inv => ProducerKeepsIt
  BY DEF Inv
<1> QED BY InitInv, NextInv, <1>1, PTL DEF Spec

-----------------------------------------------------------------------------
\* The step fact behind SplitIsFinal: were the new block to close the gap, its
\* producer would already hold it.
LEMMA SplitStep ==
  ASSUME Inv, [Next]_vars, NEW k \in Nodes, NEW m \in Nodes, chain[k] # chain[m]
  PROVE  chain'[k] # chain'[m]
<1>1. CASE UNCHANGED chain
  BY <1>1
<1>2. ASSUME NEW n \in Nodes, NEW txs \in SUBSET pool[n], Produced(n, txs)
      PROVE  chain'[k] # chain'[m]
  <2>1. PICK b \in Payloads :
          /\ b.by = n
          /\ \A l \in Takers(n) : chain[l] = chain[n] /\ chain'[l] = Append(chain[n], b)
          /\ \A l \in Nodes \ Takers(n) : chain'[l] = chain[l]
    BY <1>2, ProducedExtends DEF Inv
  <2>2. \A l \in Nodes : chain[l] \in Seq(Payloads)
    BY DEF Inv, TypeOK
  <2>3. \A l \in Nodes : chain[l] # Append(chain[n], b)
    <3> SUFFICES ASSUME NEW l \in Nodes, chain[l] = Append(chain[n], b) PROVE FALSE
      OBVIOUS
    <3> DEFINE i == Len(chain[n]) + 1
    <3>1. i \in 1 .. Len(chain[l]) /\ chain[l][i] = b /\ Len(chain[n]) \in Nat
      BY <2>2
    <3>2. i <= Len(chain[n])
      BY <3>1, <2>1 DEF Inv, ProducerKeepsIt
    <3> QED BY <3>1, <3>2
  <2> QED BY <2>1, <2>3
<1> QED BY <1>1, <1>2 DEF Next, Connect, Submit, SyncFrom, Produce, vars

\* For every network: chains that differ once differ for ever.
THEOREM SplitsAreFinal == Spec => SplitIsFinal
<1>1. Inv /\ [Next]_vars =>
        [\A n, m \in Nodes : chain[n] # chain[m] => chain'[n] # chain'[m]]_vars
  BY SplitStep
<1> QED BY InitInv, NextInv, <1>1, PTL DEF Spec, SplitIsFinal

-----------------------------------------------------------------------------
(***************************************************************************)
(* What a node holds: its pool against its chain, and the chain's nonces   *)
(***************************************************************************)

\* NoncesInOrder and PoolFresh, of one chain c and one pool p.
InOrder(c) ==
  \A i \in DOMAIN c : \A t \in c[i].txs :
    /\ \A k \in 0 .. Nonce[t] : \E j \in 1 .. i : \E u \in c[j].txs :
           From[u] = From[t] /\ Nonce[u] = k
    /\ \A j \in DOMAIN c : \A u \in c[j].txs :
           From[u] = From[t] /\ Nonce[u] = Nonce[t] => j = i /\ u = t

Fresh(c, p) ==
  /\ p \cap Mined(c) = {}
  /\ \A t, u \in p : From[t] = From[u] /\ Nonce[t] = Nonce[u] => t = u

HoldInv == TypeOK /\ \A n \in Nodes : Fresh(chain[n], pool[n]) /\ InOrder(chain[n])

\* Node by node, the invariant is what the runs check.
LEMMA HoldIsHoldings == HoldInv => HoldingsConsistent
  BY DEF HoldInv, Fresh, InOrder, HoldingsConsistent, PoolFresh, NoncesInOrder

\* A longer chain has mined what the shorter one had and the transactions of the block.
LEMMA MinedAppend ==
  ASSUME NEW c \in Seq(Payloads), NEW b \in Payloads
  PROVE  Mined(Append(c, b)) = Mined(c) \cup b.txs
<1>1. /\ DOMAIN Append(c, b) = DOMAIN c \cup {Len(c) + 1}
      /\ \A i \in DOMAIN c : Append(c, b)[i] = c[i]
      /\ Append(c, b)[Len(c) + 1] = b
  OBVIOUS
<1> QED BY <1>1 DEF Mined

\* A block selected for chain c from a fresh pool continues its nonces.
LEMMA BlockInOrder ==
  ASSUME NEW c \in Seq(Payloads), NEW p \in SUBSET Txs, NEW b \in Payloads,
         InOrder(c), Fresh(c, p), b.txs \in Selectable(c, p)
  PROVE  InOrder(Append(c, b))
<1> DEFINE d == Append(c, b)
           last == Len(c) + 1
<1>1. /\ DOMAIN d = 1 .. last /\ DOMAIN c = 1 .. Len(c) /\ last \in Nat /\ Len(c) \in Nat
      /\ \A i \in 1 .. Len(c) : d[i] = c[i] /\ i \in DOMAIN d
      /\ d[last] = b
  OBVIOUS
<1>2. /\ b.txs \subseteq p
      /\ \A t \in b.txs : /\ ~NoncePassed(t, c)
                          /\ \A i \in 0 .. Nonce[t] :
                               \E u \in b.txs \cup Mined(c) : From[u] = From[t] /\ Nonce[u] = i
  BY DEF Selectable
<1>3. \A i \in 1 .. Len(c) : c[i].txs \subseteq Mined(c) /\ c[i].txs \subseteq Txs
  <2>1. \A i \in 1 .. Len(c) : c[i] \in Payloads
    OBVIOUS
  <2> QED BY <2>1, <1>1 DEF Mined, Payloads
<1>4. \A u \in Mined(c) : \E j \in 1 .. Len(c) : u \in c[j].txs
  BY <1>1 DEF Mined
<1>5. \A t \in b.txs, u \in Mined(c) : ~(From[u] = From[t] /\ Nonce[u] = Nonce[t])
  <2> SUFFICES ASSUME NEW t \in b.txs, NEW u \in Mined(c), From[u] = From[t], Nonce[u] = Nonce[t]
               PROVE  FALSE
    OBVIOUS
  <2>1. Nonce[t] \in Nat
    BY <1>2, NetworkAssumption
  <2>2. NoncePassed(t, c)
    BY <2>1 DEF NoncePassed
  <2> QED BY <1>2, <2>2
<1> HIDE DEF d, last
<1> SUFFICES ASSUME NEW i \in DOMAIN d, NEW t \in d[i].txs
             PROVE  /\ \A k \in 0 .. Nonce[t] : \E j \in 1 .. i : \E u \in d[j].txs :
                          From[u] = From[t] /\ Nonce[u] = k
                    /\ \A j \in DOMAIN d : \A u \in d[j].txs :
                          From[u] = From[t] /\ Nonce[u] = Nonce[t] => j = i /\ u = t
  BY DEF InOrder, d
<1>6. CASE i \in 1 .. Len(c)
  <2>1. t \in c[i].txs /\ t \in Mined(c)
    BY <1>1, <1>3, <1>6
  <2>2. \A k \in 0 .. Nonce[t] : \E j \in 1 .. i : \E u \in c[j].txs : From[u] = From[t] /\ Nonce[u] = k
    BY <1>1, <1>6, <2>1 DEF InOrder
  <2>3. \A j \in 1 .. i : d[j] = c[j]
    BY <1>1, <1>6
  <2>4. ASSUME NEW j \in DOMAIN d, NEW u \in d[j].txs, From[u] = From[t], Nonce[u] = Nonce[t]
        PROVE  j = i /\ u = t
    <3>1. j # last
      BY <1>1, <1>5, <2>1, <2>4
    <3>2. j \in DOMAIN c /\ u \in c[j].txs
      BY <1>1, <3>1, <2>4 DEF last
    <3> QED BY <1>1, <1>6, <2>1, <2>4, <3>2 DEF InOrder
  <2> QED BY <2>2, <2>3, <2>4
<1>7. CASE i = last
  <2>1. t \in b.txs
    BY <1>1, <1>7
  <2>2. ASSUME NEW k \in 0 .. Nonce[t]
        PROVE  \E j \in 1 .. i : \E u \in d[j].txs : From[u] = From[t] /\ Nonce[u] = k
    <3>1. PICK u \in b.txs \cup Mined(c) : From[u] = From[t] /\ Nonce[u] = k
      BY <1>2, <2>1, <2>2
    <3>2. \E j \in 1 .. i : u \in d[j].txs
      <4>1. CASE u \in b.txs
        BY <1>1, <1>7, <4>1 DEF last
      <4>2. CASE u \in Mined(c)
        BY <1>1, <1>4, <1>7, <4>2 DEF last
      <4> QED BY <3>1, <4>1, <4>2
    <3> QED BY <3>1, <3>2
  <2>3. ASSUME NEW j \in DOMAIN d, NEW u \in d[j].txs, From[u] = From[t], Nonce[u] = Nonce[t]
        PROVE  j = i /\ u = t
    <3>1. ~(j \in 1 .. Len(c))
      BY <1>1, <1>3, <1>5, <2>1, <2>3
    <3>2. j = last /\ u \in b.txs
      BY <1>1, <2>3, <3>1 DEF last
    <3> QED BY <1>2, <1>7, <2>1, <2>3, <3>2 DEF Fresh
  <2> QED BY <2>2, <2>3
<1> QED BY <1>1, <1>6, <1>7 DEF last

\* What a node that accepts a transaction knows of it.
LEMMA AcceptedIsNew ==
  ASSUME NEW c, NEW p, NEW t \in Txs, Accepts(t, c, p)
  PROVE  /\ t \notin Mined(c)
         /\ \A u \in p : ~(From[u] = From[t] /\ Nonce[u] = Nonce[t])
<1>1. Nonce[t] \in Nat
  BY NetworkAssumption
<1> QED BY <1>1 DEF Accepts, NoncePassed

\* A transaction is pooled only where it is accepted.
LEMMA ReachedAccept ==
  ASSUME NEW n \in Nodes, NEW t, NEW k \in Reached(n, t)
  PROVE  k \in Nodes /\ Accepts(t, chain[k], pool[k])
<1> DEFINE takers == {l \in Nodes : Accepts(t, chain[l], pool[l])}
<1>1. Reached(n, t) \subseteq takers
  BY DEF Reached
<1> QED BY <1>1

\* A block taken from fresh pools continues the nonces of every chain it reaches.
LEMMA ProduceHolds ==
  ASSUME HoldInv, NEW n \in Nodes, NEW txs \in SUBSET pool[n], Produce(n, txs), NEW k \in Nodes
  PROVE  Fresh(chain'[k], pool'[k]) /\ InOrder(chain'[k])
<1>0. Produced(n, txs) /\ TypeOK
  BY DEF Produce, HoldInv
<1> DEFINE b == [by |-> n, txs |-> txs]
<1>1. /\ b \in Payloads /\ b.txs = txs
      /\ chain[n] \in Seq(Payloads) /\ pool[n] \in SUBSET Txs
  BY <1>0 DEF TypeOK, Payloads
<1>2. /\ chain'[k] = IF k \in Takers(n) THEN Append(chain[n], b) ELSE chain[k]
      /\ pool'[k] = IF k \in Takers(n) THEN pool[k] \ txs ELSE pool[k]
      /\ txs \in Selectable(chain[n], pool[n])
  BY DEF Produce, Produced
<1>3. Fresh(chain[k], pool[k]) /\ InOrder(chain[k]) /\ Fresh(chain[n], pool[n]) /\ InOrder(chain[n])
  BY DEF HoldInv
<1> HIDE DEF b
<1>4. CASE k \notin Takers(n)
  BY <1>2, <1>3, <1>4
<1>5. CASE k \in Takers(n)
  <2>1. chain[k] = chain[n]
    BY <1>5 DEF Takers
  <2>2. InOrder(Append(chain[n], b))
    BY <1>1, <1>2, <1>3, BlockInOrder
  <2>3. Mined(Append(chain[n], b)) = Mined(chain[n]) \cup txs
    BY <1>1, MinedAppend
  <2>4. Fresh(Append(chain[n], b), pool[k] \ txs)
    BY <1>3, <2>1, <2>3 DEF Fresh
  <2> QED BY <1>2, <1>5, <2>2, <2>4
<1> QED BY <1>4, <1>5

\* No call makes a pool stale or a chain repeat a nonce.
LEMMA HoldNext == HoldInv /\ Inv /\ [Next]_vars => HoldInv'
<1> SUFFICES ASSUME HoldInv, Inv, [Next]_vars PROVE HoldInv'
  OBVIOUS
<1>1. TypeOK'
  BY NextInv DEF Inv
<1>2. \A k \in Nodes : Fresh(chain[k], pool[k]) /\ InOrder(chain[k]) /\ pool[k] \in SUBSET Txs
  BY DEF HoldInv, TypeOK
<1>3. CASE UNCHANGED <<chain, pool>>
  BY <1>1, <1>2, <1>3 DEF HoldInv
<1>4. ASSUME NEW n \in Nodes, NEW m \in Nodes, SyncFrom(n, m) PROVE HoldInv'
  <2>1. chain' = chain
    BY <1>4 DEF SyncFrom
  <2>2. ASSUME NEW k \in Nodes PROVE Fresh(chain[k], pool'[k])
    <3> DEFINE more == {t \in pool[m] : k \in Reached(n, t)}
    <3>1. pool'[k] = pool[k] \cup more
      BY <1>4 DEF SyncFrom
    <3>2. \A t \in more : t \in pool[m] /\ t \in Txs /\ Accepts(t, chain[k], pool[k])
      BY <1>2, ReachedAccept
    <3> HIDE DEF more
    <3>3. \A t \in more : t \notin Mined(chain[k]) /\ \A u \in pool[k] : ~(From[u] = From[t] /\ Nonce[u] = Nonce[t])
      BY <3>2, AcceptedIsNew
    <3>4. \A t, u \in more : From[t] = From[u] /\ Nonce[t] = Nonce[u] => t = u
      BY <1>2, <3>2 DEF Fresh
    <3> QED BY <1>2, <3>1, <3>3, <3>4 DEF Fresh
  <2> QED BY <1>1, <1>2, <2>1, <2>2 DEF HoldInv
<1>5. ASSUME NEW n \in Nodes, NEW t \in Txs, Submit(n, t) PROVE HoldInv'
  <2>1. chain' = chain
    BY <1>5 DEF Submit
  <2>2. ASSUME NEW k \in Nodes PROVE Fresh(chain[k], pool'[k])
    <3>1. pool'[k] = IF k \in Reached(n, t) THEN pool[k] \cup {t} ELSE pool[k]
      BY <1>5 DEF Submit
    <3>2. CASE k \notin Reached(n, t)
      BY <1>2, <3>1, <3>2
    <3>3. CASE k \in Reached(n, t)
      <4>1. Accepts(t, chain[k], pool[k])
        BY <3>3, ReachedAccept
      <4>2. t \notin Mined(chain[k]) /\ \A u \in pool[k] : ~(From[u] = From[t] /\ Nonce[u] = Nonce[t])
        BY <4>1, AcceptedIsNew
      <4> QED BY <1>2, <3>1, <3>3, <4>2 DEF Fresh
    <3> QED BY <3>2, <3>3
  <2> QED BY <1>1, <1>2, <2>1, <2>2 DEF HoldInv
<1>6. ASSUME NEW n \in Nodes, NEW txs \in SUBSET pool[n], Produce(n, txs) PROVE HoldInv'
  <2>1. \A k \in Nodes : Fresh(chain'[k], pool'[k]) /\ InOrder(chain'[k])
    BY <1>6, ProduceHolds
  <2> QED BY <1>1, <2>1 DEF HoldInv
<1> QED BY <1>3, <1>4, <1>5, <1>6 DEF Next, Connect, vars

\* For every network, connected in whatever order: no pool holds what its
\* chain has, and every chain has each sender's nonces once and in order.
THEOREM HoldingsAlwaysConsistent == Spec => []HoldingsConsistent
<1>1. Init => HoldInv
  BY InitInv DEF Init, HoldInv, Inv, Fresh, InOrder, Mined
<1> QED BY <1>1, InitInv, NextInv, HoldNext, HoldIsHoldings, PTL DEF Spec

-----------------------------------------------------------------------------
(***************************************************************************)
(* Devnet                                                                  *)
(***************************************************************************)
DevnetInv ==
  /\ peers = [n \in Nodes |-> Nodes \ {n}]
  /\ chain \in [Nodes -> Seq(Payloads)]
  /\ pool \in [Nodes -> SUBSET Txs]
  /\ DevnetAgrees

\* A transaction submitted in a devnet reaches every node or none.
LEMMA FloodAllOrNone ==
  ASSUME DevnetInv, NEW n \in Nodes, NEW t
  PROVE  Reached(n, t) = {} \/ Reached(n, t) = Nodes
<1> DEFINE takers == {k \in Nodes : Accepts(t, chain[k], pool[k])}
<1>1. CASE n \notin takers
  BY <1>1 DEF Reached
<1>2. CASE n \in takers
  <2>1. takers = Nodes
    BY <1>2 DEF DevnetInv, DevnetAgrees
  <2>2. \A S \in SUBSET takers :
          (n \in S /\ \A m \in S : peers[m] \cap takers \subseteq S) => S = Nodes
    <3> SUFFICES ASSUME NEW S \in SUBSET takers, n \in S, peers[n] \cap takers \subseteq S
                 PROVE  S = Nodes
      OBVIOUS
    <3>1. peers[n] = Nodes \ {n}
      BY DEF DevnetInv
    <3> HIDE DEF takers
    <3> QED BY <2>1, <3>1
  <2>3. Reached(n, t) = {k \in takers : \A S \in SUBSET takers :
          (n \in S /\ \A m \in S : peers[m] \cap takers \subseteq S) => k \in S}
    BY <1>2 DEF Reached
  <2> HIDE DEF takers
  <2> QED BY <2>1, <2>2, <2>3
<1> QED BY <1>1, <1>2

\* A devnet begins with empty chains and pools, all connected.
LEMMA DevnetInitInv == DevnetInit => DevnetInv
  BY DEF DevnetInit, DevnetInv, DevnetAgrees

\* A step of a devnet appends one block to all chains.
LEMMA DevnetStepInv ==
  ASSUME DevnetInv, NEW n \in Nodes, NEW txs \in SUBSET pool[n], DevnetStep(n, txs)
  PROVE  DevnetInv'
<1>1. Takers(n) = Nodes
  BY DEF Takers, DevnetInv, DevnetAgrees
<1> DEFINE b == [by |-> n, txs |-> txs]
<1>2. b \in Payloads
  BY DEF DevnetInv, Payloads
<1>3. chain' = [k \in Nodes |-> Append(chain[n], b)]
  BY <1>1 DEF DevnetStep, Produced
<1>4. chain' \in [Nodes -> Seq(Payloads)]
  BY <1>2, <1>3 DEF DevnetInv
<1>5. \A k \in Nodes : pool[k] = pool[n]
  BY DEF DevnetInv, DevnetAgrees
<1> DEFINE left == pool[n] \ txs
           kept == [k \in Nodes |-> IF k \in Takers(n) THEN pool[k] \ txs ELSE pool[k]]
           more(k) == IF k = n THEN {} ELSE {t \in left : Accepts(t, chain'[k], kept[k])}
<1>6. pool' = [k \in Nodes |-> kept[k] \cup more(k)]
  BY DEF DevnetStep
<1>7. \A k \in Nodes : kept[k] = left
  BY <1>1, <1>5
<1>8. \A k \in Nodes : more(k) \subseteq left
  OBVIOUS
<1>9. left \in SUBSET Txs
  BY DEF DevnetInv
<1> HIDE DEF left, kept, more
<1>10. pool' = [k \in Nodes |-> left]
  BY <1>6, <1>7, <1>8
<1>11. peers' = peers
  BY DEF DevnetStep
<1> QED BY <1>3, <1>4, <1>9, <1>10, <1>11 DEF DevnetInv, DevnetAgrees

\* No call parts the nodes of a devnet.
LEMMA DevnetNextInv == DevnetInv /\ [DevnetNext]_vars => DevnetInv'
<1> SUFFICES ASSUME DevnetInv, [DevnetNext]_vars PROVE DevnetInv'
  OBVIOUS
<1>0. /\ peers = [n \in Nodes |-> Nodes \ {n}]
      /\ chain \in [Nodes -> Seq(Payloads)]
      /\ pool \in [Nodes -> SUBSET Txs]
      /\ \A n, m \in Nodes : chain[n] = chain[m] /\ pool[n] = pool[m]
  BY DEF DevnetInv, DevnetAgrees
<1>1. CASE UNCHANGED vars
  BY <1>1 DEF DevnetInv, DevnetAgrees, vars
<1>2. ASSUME NEW n \in Nodes, NEW m \in Nodes, SyncFrom(n, m) PROVE DevnetInv'
  <2>1. pool' = [k \in Nodes |-> pool[k] \cup {t \in pool[m] : k \in Reached(n, t)}]
    BY <1>2 DEF SyncFrom
  <2>2. \A k, l \in Nodes : {t \in pool[m] : k \in Reached(n, t)} = {t \in pool[m] : l \in Reached(n, t)}
    BY FloodAllOrNone
  <2>3. \A k, l \in Nodes : pool'[k] = pool'[l]
    BY <1>0, <2>1, <2>2
  <2>4. pool' \in [Nodes -> SUBSET Txs]
    <3>1. \A k \in Nodes : {t \in pool[m] : k \in Reached(n, t)} \subseteq Txs
      BY <1>0
    <3> QED BY <1>0, <2>1, <3>1
  <2> QED BY <1>0, <1>2, <2>3, <2>4 DEF SyncFrom, DevnetInv, DevnetAgrees
<1>3. ASSUME NEW n \in Nodes, NEW t \in Txs, Submit(n, t) PROVE DevnetInv'
  <2>1. Reached(n, t) = Nodes
    BY <1>3, FloodAllOrNone DEF Submit
  <2>2. pool' = [k \in Nodes |-> pool[k] \cup {t}]
    BY <1>3, <2>1 DEF Submit
  <2>3. pool' \in [Nodes -> SUBSET Txs] /\ \A k, l \in Nodes : pool'[k] = pool'[l]
    BY <1>0, <2>2
  <2>4. peers' = peers /\ chain' = chain
    BY <1>3 DEF Submit
  <2> QED BY <1>0, <2>3, <2>4 DEF DevnetInv, DevnetAgrees
<1>4. ASSUME NEW n \in Nodes, NEW txs \in SUBSET pool[n], DevnetStep(n, txs) PROVE DevnetInv'
  BY <1>4, DevnetStepInv
<1> QED BY <1>1, <1>2, <1>3, <1>4 DEF DevnetNext

\* For every set of nodes connected before the first block, and every
\* sequence of submissions, steps and syncs, all chains and pools are equal.
THEOREM DevnetsAgree == DevnetSpec => []DevnetAgrees
<1>1. DevnetInv => DevnetAgrees
  BY DEF DevnetInv
<1> QED BY DevnetInitInv, DevnetNextInv, <1>1, PTL DEF DevnetSpec

\* Where nodes that are connected from the start and nodes that connect one by
\* one are explored together, the former agree.
THEOREM DevnetsAlwaysAgree == MCSpec => []DevnetAgreement
<1>1. MCInit => (devnet => DevnetInv)
  BY DevnetInitInv DEF MCInit
<1>2. (devnet => DevnetInv) /\ [MCNext]_<<vars, devnet>> => (devnet => DevnetInv)'
  <2> SUFFICES ASSUME devnet => DevnetInv, [MCNext]_<<vars, devnet>>, devnet'
               PROVE  DevnetInv'
    OBVIOUS
  <2>1. devnet /\ [DevnetNext]_vars
    BY DEF MCNext
  <2> QED BY <2>1, DevnetNextInv
<1>3. (devnet => DevnetInv) => DevnetAgreement
  BY DEF DevnetInv, DevnetAgreement
<1> QED BY <1>1, <1>2, <1>3, PTL DEF MCSpec
=============================================================================
