------------------------------ MODULE Mempool ------------------------------
(***************************************************************************)
(* The nonce-aware transaction pool of one BlockchainNode, as it behaves   *)
(* once agilang/__init__.py has installed blockchain_nonce_mempool_patch:  *)
(* the pool's own four operations (add, remove_many, promote_queued,       *)
(* select_for_block) and the two node operations that call them            *)
(* (submit_tx, import_block).  Both run on the thread that owns the node's *)
(* SQLite connection, so nothing interleaves with them; the loop that      *)
(* selects the transactions of a block is unrolled into steps.             *)
(*                                                                         *)
(* A transaction is identified with its hash, which is a digest of its     *)
(* content: From, Nonce, GasPrice and GasLimit are functions of it.        *)
(***************************************************************************)
EXTENDS Integers, FiniteSets, Sequences

CONSTANTS
  Accounts,       \* account names that occur in "from"
  Txs,            \* transactions (by hash)
  From,           \* From[t]: sender
  Nonce,          \* Nonce[t]: account nonce
  GasPrice,       \* GasPrice[t]
  GasLimit,       \* GasLimit[t]
  HashOrder,      \* HashOrder[t]: place of t in the (from, nonce, hash) order
  WellFormed,     \* transactions that pass the static field checks
  Fallible,       \* transactions whose execution may fail (calls, transfers
                  \* the sender cannot cover)
  MaxTxs,         \* mempool_max_txs
  PoolGap,        \* Mempool.max_account_queue_gap
  ConfigGap,      \* BlockchainConfig.max_account_queue_gap
  Strict,         \* strict_accounting and enforce_nonce_order
  MaxBlockTxs,    \* max_block_txs
  BlockGasLimit,  \* block_gas_limit
  AllowEmpty      \* allow_empty_blocks

ASSUME TxAssumption ==
  /\ From \in [Txs -> Accounts]
  /\ Nonce \in [Txs -> Nat]
  /\ GasPrice \in [Txs -> Nat]
  /\ GasLimit \in [Txs -> Nat]
  /\ HashOrder \in [Txs -> Nat]
  /\ \A t, u \in Txs : HashOrder[t] = HashOrder[u] => t = u
  /\ WellFormed \subseteq Txs
  /\ Fallible \subseteq Txs

ASSUME ConfigAssumption ==
  /\ MaxTxs \in Nat /\ PoolGap \in Nat /\ ConfigGap \in Nat
  /\ MaxBlockTxs \in Nat /\ BlockGasLimit \in Nat
  /\ Strict \in BOOLEAN /\ AllowEmpty \in BOOLEAN

VARIABLES
  txs,        \* keys of Mempool._txs
  ready,      \* keys of Mempool.ready_pool
  queued,     \* keys of Mempool.queued_pool
  byNonce,    \* Mempool._by_sender_nonce
  confirmed,  \* state["nonces"]: next nonce of every account at the head
  executed,   \* transactions with a successful receipt on the chain
  producing,  \* produce_and_import_block is running on this node
  sel         \* its selection: list, taken (the set), gas, next nonces

pool == <<txs, ready, queued, byNonce>>
vars == <<txs, ready, queued, byNonce, confirmed, executed, producing, sel>>

Key(t) == <<From[t], Nonce[t]>>

EmptySelection(next) == [list |-> <<>>, taken |-> {}, gas |-> 0, next |-> next]
Zero == [a \in Accounts |-> 0]

Init ==
  /\ txs = {} /\ ready = {} /\ queued = {}
  /\ byNonce = [k \in {} |-> {}]
  /\ confirmed = Zero
  /\ executed = {}
  /\ producing = FALSE
  /\ sel = EmptySelection(Zero)
-----------------------------------------------------------------------------

(***************************************************************************)
(* Mempool.validate_tx: static checks, duplicate hash, duplicate (sender,  *)
(* nonce) and the size limit.                                              *)
(***************************************************************************)
PoolAccepts(t) ==
  /\ t \in WellFormed
  /\ t \notin txs
  /\ Key(t) \notin DOMAIN byNonce
  /\ Cardinality(txs) < MaxTxs

(***************************************************************************)
(* Mempool.add with the nonce the node has confirmed for the sender: it is *)
(* refused below it and beyond the gap, ready at it and queued above it.   *)
(***************************************************************************)
Add(t) ==
  LET c == confirmed[From[t]] IN
  /\ PoolAccepts(t)
  /\ Nonce[t] >= c
  /\ Nonce[t] - c <= PoolGap
  /\ txs' = txs \cup {t}
  /\ byNonce' = [k \in DOMAIN byNonce \cup {Key(t)} |->
                    IF k = Key(t) THEN t ELSE byNonce[k]]
  /\ IF Nonce[t] = c
     THEN ready' = ready \cup {t} /\ UNCHANGED queued
     ELSE queued' = queued \cup {t} /\ UNCHANGED ready

\* Mutant of Promotable: nothing is promoted when the head moves, as in the
\* pool of blockchain.py before the patch.
PromotableNone(Q, conf) == {}


(***************************************************************************)
(* Mempool.promote_queued: per sender the unbroken run of queued nonces    *)
(* that starts at the confirmed one (the loop repeats until no pass moves  *)
(* anything, and a moved transaction raises the sender's next nonce).      *)
(***************************************************************************)
Promotable(Q, conf) ==
  {t \in Q : /\ Nonce[t] >= conf[From[t]]
             /\ \A n \in conf[From[t]] .. Nonce[t] :
                   \E u \in Q : From[u] = From[t] /\ Nonce[u] = n}

\* Mutants of RemoveAndPromote: the index entry of a mined transaction
\* survives; the mined one stays in _txs.
RemoveKeepsIndex(block, conf) ==
  /\ txs' = txs \ block
  /\ byNonce' = byNonce
  /\ LET up == Promotable(queued \ block, conf) IN
       ready' = (ready \ block) \cup up /\ queued' = (queued \ block) \ up
RemoveKeepsTxs(block, conf) ==
  /\ txs' = txs /\ byNonce' = byNonce
  /\ LET up == Promotable(queued \ block, conf) IN
       ready' = (ready \ block) \cup up /\ queued' = (queued \ block) \ up


(***************************************************************************)
(* Mempool.remove_many(block) followed by promote_queued(conf), the tail   *)
(* of import_block.  Only a transaction that was in _txs has its index     *)
(* entry popped.                                                           *)
(***************************************************************************)
RemoveAndPromote(block, conf) ==
  LET kept == queued \ block
      up   == Promotable(kept, conf) IN
  /\ txs' = txs \ block
  /\ byNonce' = [k \in DOMAIN byNonce \ {Key(t) : t \in block \cap txs} |->
                    byNonce[k]]
  /\ ready' = (ready \ block) \cup up
  /\ queued' = kept \ up


(***************************************************************************)
(* Mempool.select_for_block, one round of its while loop at a time: among  *)
(* the pooled transactions at their sender's next nonce whose gas still    *)
(* fits, the dearest, and the (from, nonce, hash) order among equals.      *)
(***************************************************************************)
Before(t, u) ==
  \/ GasPrice[t] > GasPrice[u]
  \/ GasPrice[t] = GasPrice[u] /\ HashOrder[t] <= HashOrder[u]

\* Mutant of Eligible: any nonce the chain has not passed is eligible.
EligibleFuture ==
  {t \in txs \ sel.taken : /\ Nonce[t] >= sel.next[From[t]]
                           /\ sel.gas + GasLimit[t] <= BlockGasLimit}

Eligible ==
  {t \in txs \ sel.taken : /\ Nonce[t] = sel.next[From[t]]
                           /\ sel.gas + GasLimit[t] <= BlockGasLimit}

SelectNext(t) ==
  /\ producing
  /\ Cardinality(sel.taken) < MaxBlockTxs
  /\ t \in Eligible
  /\ \A u \in Eligible : Before(t, u)
  /\ sel' = [list  |-> Append(sel.list, t),
             taken |-> sel.taken \cup {t},
             gas   |-> sel.gas + GasLimit[t],
             next  |-> [sel.next EXCEPT ![From[t]] = Nonce[t] + 1]]
  /\ UNCHANGED <<txs, ready, queued, byNonce, confirmed, executed, producing>>

SelectionDone == Cardinality(sel.taken) >= MaxBlockTxs \/ Eligible = {}
-----------------------------------------------------------------------------
(***************************************************************************)
(* BlockchainNode.submit_tx: under strict accounting the node applies its  *)
(* own nonce window (with the configured gap) before the pool's.           *)
(***************************************************************************)
Submit(t) ==
  /\ ~producing
  /\ Strict => Nonce[t] - confirmed[From[t]] <= ConfigGap
  /\ Add(t)
  /\ UNCHANGED <<confirmed, executed, producing, sel>>

(***************************************************************************)
(* A block on top of the head, from any pool that follows the selection    *)
(* rule: per sender an unbroken run of nonces from the confirmed one, each *)
(* nonce once.                                                             *)
(***************************************************************************)
BlockOnHead(block) ==
  /\ block \subseteq WellFormed
  /\ \A t, u \in block : Key(t) = Key(u) => t = u
  /\ \A t \in block :
        /\ Nonce[t] >= confirmed[From[t]]
        /\ \A n \in confirmed[From[t]] .. Nonce[t] :
              \E u \in block : From[u] = From[t] /\ Nonce[u] = n

(***************************************************************************)
(* _execute_transactions: which receipts are ok.  Under strict accounting  *)
(* a failed transaction leaves the nonce where it was, so every later one  *)
(* of the sender fails with invalid_nonce.                                 *)
(***************************************************************************)
Receipts(block, ok) ==
  /\ ok \subseteq block
  /\ \A t \in block \ ok :
        \/ t \in Fallible
        \/ /\ Strict
           /\ \E u \in block \ ok : From[u] = From[t] /\ Nonce[u] < Nonce[t]
  /\ Strict => \A t \in ok, u \in block :
                  From[u] = From[t] /\ Nonce[u] < Nonce[t] => u \in ok

\* nonces[sender] = max(nonces[sender], nonce + 1) over the ok receipts
NonceUpdate(ok, conf) ==
  \A a \in Accounts :
    /\ conf[a] >= confirmed[a]
    /\ \A t \in ok : From[t] = a => Nonce[t] < conf[a]
    /\ conf[a] # confirmed[a] => \E t \in ok : From[t] = a /\ Nonce[t] + 1 = conf[a]

NonceValues == {0} \cup {Nonce[t] + 1 : t \in Txs}

(***************************************************************************)
(* BlockchainNode.import_block of a block that extends the head: the       *)
(* canonical state is rebuilt, the pool drops the block's transactions     *)
(* and promotes against the new nonces.                                    *)
(***************************************************************************)
Import(block) ==
  \E ok \in SUBSET block, conf \in [Accounts -> NonceValues] :
    /\ Receipts(block, ok)
    /\ NonceUpdate(ok, conf)
    /\ confirmed' = conf
    /\ executed' = executed \cup ok
    /\ RemoveAndPromote(block, conf)

(***************************************************************************)
(* produce_and_import_block: the selection starts from state["nonces"];    *)
(* when it is complete the block is imported, or, if it is empty and empty *)
(* blocks are disabled, production raises and nothing changes.             *)
(***************************************************************************)
StartBlock ==
  /\ ~producing
  /\ producing' = TRUE
  /\ sel' = EmptySelection(confirmed)
  /\ UNCHANGED <<txs, ready, queued, byNonce, confirmed, executed>>

EndBlock ==
  /\ producing
  /\ SelectionDone
  /\ producing' = FALSE
  /\ sel' = EmptySelection(Zero)
  /\ IF sel.taken = {} /\ ~AllowEmpty
     THEN UNCHANGED <<txs, ready, queued, byNonce, confirmed, executed>>
     ELSE Import(sel.taken)

(***************************************************************************)
(* receive_gossip of a block a peer built from its own pool.               *)
(***************************************************************************)
ImportFromPeer(block) ==
  /\ ~producing
  /\ BlockOnHead(block)
  /\ Import(block)
  /\ UNCHANGED <<producing, sel>>

Next ==
  \/ \E t \in Txs : Submit(t) \/ SelectNext(t)
  \/ StartBlock
  \/ EndBlock
  \/ \E block \in SUBSET WellFormed : ImportFromPeer(block)

Spec == Init /\ [][Next]_vars
-----------------------------------------------------------------------------
(***************************************************************************)
(* A node that mines alone, the way _mine_pending and validator_once(      *)
(* allow_empty = False) drive it: a block is started only while ready_pool *)
(* is not empty.  Its transactions do not fail.                            *)
(***************************************************************************)
MineReady == ready # {} /\ StartBlock
MineBlock == EndBlock /\ sel.taken \subseteq executed'

Mining == MineReady \/ MineBlock \/ \E t \in Txs : SelectNext(t)

MinerNext == Mining \/ \E t \in Txs : Submit(t)
-----------------------------------------------------------------------------
(***************************************************************************)
(* What the pool of module Mempool promises.                               *)
(***************************************************************************)

\* Types: three sets of transactions, an index from (sender, nonce), the
\* confirmed nonces and the transactions already executed.
TypeOK ==
  /\ txs \subseteq Txs /\ ready \subseteq Txs /\ queued \subseteq Txs
  /\ DOMAIN byNonce \subseteq Accounts \X Nat
  /\ byNonce \in [DOMAIN byNonce -> Txs]
  /\ confirmed \in [Accounts -> Nat]
  /\ executed \subseteq Txs
  /\ producing \in BOOLEAN
  /\ sel \in [list : Seq(Txs), taken : SUBSET Txs, gas : Nat, next : [Accounts -> Nat]]

\* A pooled transaction is in exactly one of ready_pool and queued_pool, and
\* neither holds a transaction _txs has lost (select_for_block reads _txs,
\* the mining loops read ready_pool).
PoolsPartition == txs = ready \cup queued /\ ready \cap queued = {}

\* _by_sender_nonce is exactly the index of _txs: a missing entry would let
\* a second transaction in at the same nonce, an entry left behind would
\* block the (sender, nonce) pair for good.
IndexExact ==
  /\ DOMAIN byNonce = {Key(t) : t \in txs}
  /\ \A t \in txs : byNonce[Key(t)] = t

\* The pool never outgrows mempool_max_txs.
WithinCapacity == IsFiniteSet(txs) /\ Cardinality(txs) <= MaxTxs

\* What the pool keeps of a transaction agrees in all the places that keep it:
\* _txs is split between the two pools, _by_sender_nonce is its exact index,
\* and mempool_max_txs bounds what is held.
PoolConsistent == TypeOK /\ PoolsPartition /\ IndexExact /\ WithinCapacity

\* A pooled transaction that is executable next is never left in queued_pool:
\* validator_once and mine_ready skip a slot when ready_pool is empty.
HeadOfLineReady == \A t \in txs : Nonce[t] = confirmed[From[t]] => t \in ready

\* A transaction that was executed can never be pooled, hence selected, again.
NoReplay ==
  /\ executed \cap txs = {}
  /\ \A t \in executed : Nonce[t] < confirmed[From[t]]

\* At every round of the selection the transactions taken so far extend the
\* head: per sender an unbroken run of nonces from the confirmed one, in that
\* order and each nonce once, so that none of them can fail the nonce rule
\* when the block is executed, and their gas is within the block's limit.
SelectionExecutable ==
  producing =>
    /\ BlockOnHead(sel.taken)
    /\ \A i, j \in DOMAIN sel.list :
          i < j /\ From[sel.list[i]] = From[sel.list[j]] =>
            Nonce[sel.list[i]] < Nonce[sel.list[j]]
    /\ sel.gas <= BlockGasLimit

\* The strengthening that makes it inductive: the selection is drawn from the
\* pool, and sel.next is exactly one past what has been taken of each sender.
SelectionInv ==
  producing =>
    /\ sel.taken \subseteq txs
    /\ \A a \in Accounts : sel.next[a] >= confirmed[a]
    /\ \A t \in sel.taken : /\ Nonce[t] >= confirmed[From[t]]
                             /\ Nonce[t] < sel.next[From[t]]
    /\ \A a \in Accounts : \A n \in confirmed[a] .. (sel.next[a] - 1) :
          \E u \in sel.taken : From[u] = a /\ Nonce[u] = n
    /\ \A i \in DOMAIN sel.list : sel.list[i] \in sel.taken
    /\ \A i, j \in DOMAIN sel.list :
          i < j /\ From[sel.list[i]] = From[sel.list[j]] =>
            Nonce[sel.list[i]] < Nonce[sel.list[j]]
    /\ sel.gas <= BlockGasLimit

\* Liveness of a node that mines alone, when execution does not fail: once a
\* pooled transaction's predecessors are all pooled it is mined, whichever of
\* them is ready or queued, although the loop only looks at ready_pool and
\* submissions of dearer transactions keep arriving.
Runnable(t) ==
  /\ t \in txs
  /\ \A n \in confirmed[From[t]] .. Nonce[t] :
        \E u \in txs : From[u] = From[t] /\ Nonce[u] = n
RunnableIsMined == \A t \in Txs : Runnable(t) ~> t \in executed

Inv ==
  /\ TypeOK
  /\ txs \subseteq WellFormed
  /\ PoolsPartition
  /\ IndexExact
  /\ WithinCapacity
  /\ HeadOfLineReady
  /\ NoReplay
  /\ SelectionInv
=============================================================================
