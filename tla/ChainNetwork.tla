---------------------------- MODULE ChainNetwork ----------------------------
(***************************************************************************)
(* BlockchainNodes connected as peers in one process, the way Devnet and   *)
(* blockchain apps use them.  Every call is synchronous and, since a node  *)
(* can only be called on the thread that opened its database, every        *)
(* operation runs to its end, gossip included, before the next begins.     *)
(*                                                                         *)
(* A block hash covers everything down to genesis, so a block is the       *)
(* sequence of payloads that leads to it.  Module ChainNode shows that the *)
(* canonical chain only grows at its tip: one sequence per node is enough. *)
(* Pools have room and transactions succeed here; module Mempool is about  *)
(* full pools and failing ones.                                            *)
(***************************************************************************)
EXTENDS Integers, FiniteSets, Sequences

CONSTANTS
  Nodes,
  Txs,
  From,        \* From[t]: sender
  Nonce,       \* Nonce[t]
  Gap,         \* max_account_queue_gap
  MaxHeight    \* bound: no node builds a block above this height

ASSUME NetworkAssumption ==
  /\ Nonce \in [Txs -> Nat]
  /\ Gap \in Nat /\ MaxHeight \in Nat

VARIABLES
  peers,   \* peers[n]: the nodes in n.peers
  chain,   \* chain[n]: canonical blocks above genesis
  pool     \* pool[n]: _txs of n.mempool

vars == <<peers, chain, pool>>

Payloads == [by : Nodes, txs : SUBSET Txs]

\* Separate nodes, before any connect_peer
Init ==
  /\ peers = [n \in Nodes |-> {}]
  /\ chain = [n \in Nodes |-> <<>>]
  /\ pool = [n \in Nodes |-> {}]

\* Devnet.__init__ connects every pair
DevnetInit ==
  /\ peers = [n \in Nodes |-> Nodes \ {n}]
  /\ chain = [n \in Nodes |-> <<>>]
  /\ pool = [n \in Nodes |-> {}]
-----------------------------------------------------------------------------
Mined(c) == UNION {c[i].txs : i \in DOMAIN c}

\* state["nonces"] after chain c is past every nonce executed on it
NoncePassed(t, c) == \E u \in Mined(c) : From[u] = From[t] /\ Nonce[u] >= Nonce[t]

\* Mutant of Accepts: the pool alone is asked, not the state nonces.
AcceptsPassed(t, c, p) == \A u \in p : <<From[u], Nonce[u]>> # <<From[t], Nonce[t]>>

(***************************************************************************)
(* submit_tx at a node with chain c and pool p: validate_tx_against_state  *)
(* and Mempool.add refuse a nonce that is passed or too far ahead, and a   *)
(* (sender, nonce) pair the pool holds, be it in the same transaction.     *)
(***************************************************************************)
Accepts(t, c, p) ==
  /\ ~NoncePassed(t, c)
  /\ \/ Nonce[t] <= Gap
     \/ \E u \in Mined(c) : From[u] = From[t] /\ Nonce[t] <= Nonce[u] + 1 + Gap
  /\ \A u \in p : <<From[u], Nonce[u]>> # <<From[t], Nonce[t]>>

(***************************************************************************)
(* A node that accepts a transaction calls receive_gossip on every peer    *)
(* before submit_tx returns, and so do they: the call at n ends when every *)
(* node reached from n through accepting nodes has it.                     *)
(***************************************************************************)
Reached(n, t) ==
  LET takers == {k \in Nodes : Accepts(t, chain[k], pool[k])} IN
  IF n \notin takers THEN {}
  ELSE {k \in takers : \A S \in SUBSET takers :
          (n \in S /\ \A m \in S : peers[m] \cap takers \subseteq S) => k \in S}

\* select_for_block: per sender the nonces follow the chain's, each one once
Selectable(c, p) ==
  {txs \in SUBSET p :
     \A t \in txs :
       /\ ~NoncePassed(t, c)
       /\ \A i \in 0 .. Nonce[t] :
            \E u \in txs \cup Mined(c) : From[u] = From[t] /\ Nonce[u] = i}
-----------------------------------------------------------------------------
\* connect_peer
Connect(n, m) ==
  /\ n # m
  /\ m \notin peers[n] \/ n \notin peers[m]
  /\ peers' = [peers EXCEPT ![n] = @ \cup {m}, ![m] = @ \cup {n}]
  /\ UNCHANGED <<chain, pool>>

Submit(n, t) ==
  /\ n \in Reached(n, t)
  /\ pool' = [k \in Nodes |-> IF k \in Reached(n, t) THEN pool[k] \cup {t} ELSE pool[k]]
  /\ UNCHANGED <<peers, chain>>

\* Mutants of Takers: every peer follows, whatever its head; the producer
\* sends a block out that it does not import; only one peer is told.
TakersAllPeers(n) == {n} \cup peers[n]
TakersPeersOnly(n) == {k \in peers[n] : chain[k] = chain[n]}
TakersOnePeer(n) ==
  {n, CHOOSE k \in Nodes : peers[n] # {} => k \in peers[n] /\ chain[k] = chain[n]}


(***************************************************************************)
(* Who imports the next block of n: n itself, and of its peers those whose *)
(* head is its parent.  The others answer stale_parent_hash, and nobody    *)
(* passes the block on: receive_gossip only imports it.                    *)
(***************************************************************************)
Takers(n) == {n} \cup {k \in peers[n] : chain[k] = chain[n]}

\* A taker drops the block's transactions from its pool.
Produced(n, txs) ==
  /\ Len(chain[n]) < MaxHeight
  /\ txs \in Selectable(chain[n], pool[n])
  /\ chain' = [k \in Nodes |-> IF k \in Takers(n)
                               THEN Append(chain[n], [by |-> n, txs |-> txs])
                               ELSE chain[k]]

\* produce_and_import_block
Produce(n, txs) ==
  /\ Produced(n, txs)
  /\ pool' = [k \in Nodes |-> IF k \in Takers(n) THEN pool[k] \ txs ELSE pool[k]]
  /\ UNCHANGED peers

(***************************************************************************)
(* Devnet.step: after the block every other node submits to itself what    *)
(* the producer's pool still holds (the rest of sync_from).                *)
(***************************************************************************)
DevnetStep(n, txs) ==
  /\ Produced(n, txs)
  /\ LET left == pool[n] \ txs
         kept == [k \in Nodes |-> IF k \in Takers(n) THEN pool[k] \ txs ELSE pool[k]] IN
     pool' = [k \in Nodes |-> kept[k] \cup IF k = n THEN {}
                 ELSE {t \in left : Accepts(t, chain'[k], kept[k])}]
  /\ UNCHANGED peers

(***************************************************************************)
(* n.sync_from(m).  canonical_chain() adds the keys "canonical" and        *)
(* "finalized" to each block, so the hash of a block n does not store      *)
(* never checks (invalid_block_hash) and none is imported; the pooled      *)
(* transactions of m are submitted at n and flood from there.              *)
(***************************************************************************)
SyncFrom(n, m) ==
  /\ n # m
  /\ pool' = [k \in Nodes |-> pool[k] \cup {t \in pool[m] : k \in Reached(n, t)}]
  /\ UNCHANGED <<peers, chain>>
-----------------------------------------------------------------------------
Next ==
  \E n \in Nodes :
    \/ \E m \in Nodes : Connect(n, m) \/ SyncFrom(n, m)
    \/ \E t \in Txs : Submit(n, t)
    \/ \E txs \in SUBSET pool[n] : Produce(n, txs)

Spec == Init /\ [][Next]_vars

DevnetNext ==
  \E n \in Nodes :
    \/ \E m \in Nodes : SyncFrom(n, m)
    \/ \E t \in Txs : Submit(n, t)
    \/ \E txs \in SUBSET pool[n] : DevnetStep(n, txs)

DevnetSpec == DevnetInit /\ [][DevnetNext]_vars
-----------------------------------------------------------------------------
(***************************************************************************)
(* What the peers of module ChainNetwork hold in common, and what they do  *)
(* not.                                                                    *)
(***************************************************************************)

\* Types: peers are other nodes and each other's peers (connect_peer), chains
\* are sequences of payloads, pools hold transactions.
TypeOK ==
  /\ peers \in [Nodes -> SUBSET Nodes]
  /\ \A n, m \in Nodes : m \in peers[n] => n \in peers[m] /\ n # m
  /\ chain \in [Nodes -> Seq(Payloads)]
  /\ pool \in [Nodes -> SUBSET Txs]

\* Whoever holds a block, its producer still holds it, on the same parent: no
\* node ever abandons a block it has signed and sent out.
ProducerKeepsIt ==
  \A m \in Nodes : \A i \in 1 .. Len(chain[m]) :
    LET p == chain[m][i].by IN
      /\ i <= Len(chain[p])
      /\ \A j \in 1 .. i : chain[p][j] = chain[m][j]

\* A transaction mined on a node's own chain is not in its pool and no
\* submission, flood or sync brings it back; a pool holds one transaction per
\* sender and nonce.
PoolFresh ==
  \A n \in Nodes :
    /\ pool[n] \cap Mined(chain[n]) = {}
    /\ \A t, u \in pool[n] : From[t] = From[u] /\ Nonce[t] = Nonce[u] => t = u

\* On every chain the transactions of a sender have the nonces 0, 1, 2, ...,
\* each once and in the order of the blocks.
NoncesInOrder ==
  \A n \in Nodes :
    \A i \in DOMAIN chain[n] : \A t \in chain[n][i].txs :
      /\ \A k \in 0 .. Nonce[t] : \E j \in 1 .. i : \E u \in chain[n][j].txs :
             From[u] = From[t] /\ Nonce[u] = k
      /\ \A j \in DOMAIN chain[n] : \A u \in chain[n][j].txs :
             From[u] = From[t] /\ Nonce[u] = Nonce[t] => j = i /\ u = t

\* What a node holds agrees with itself: its pool with its chain, and the
\* transactions of its chain with their nonces.
HoldingsConsistent == TypeOK /\ PoolFresh /\ NoncesInOrder

\* Nodes whose chains differ differ for ever: nothing a node receives can
\* bring it onto the chain of another.
SplitIsFinal ==
  [][\A n, m \in Nodes : chain[n] # chain[m] => chain'[n] # chain'[m]]_vars

\* In a devnet, whose nodes are all connected before the first block, every
\* node has the same chain and the same pool after every call.
DevnetAgrees == \A n, m \in Nodes : chain[n] = chain[m] /\ pool[n] = pool[m]
=============================================================================
