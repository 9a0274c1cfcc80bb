------------------------------- MODULE Ledger -------------------------------
(***************************************************************************)
(* Accounts of one node: balances, nonces and contract code, executed by   *)
(* whoever produces a block, executed again by whoever validates it, and   *)
(* replayed from the receipts into table state by every importer.          *)
(*                                                                         *)
(* Executing and validating start from the same state (module ChainNode:   *)
(* a node at rest serves the replayed state of its head) and are the same  *)
(* function, so they are one here; replay is another function, run beside  *)
(* it transaction by transaction.  _rebuild_canonical_state replays every  *)
(* block from genesis, which ends where replaying the last one on top of   *)
(* the state replayed before does.                                         *)
(***************************************************************************)
EXTENDS Integers, FiniteSets, Sequences, FiniteSetsExt

CONSTANTS
  Accounts,
  Txs,
  Kind,         \* Kind[t]: tx["type"]
  From, To,     \* To[t] is NoTo when a transfer's dict has no "to" key
  Value, Nonce,
  CallOk,       \* CallOk[t]: the code evm_simulate_call succeeds on
  Endowment,    \* balances in genesis_state
  Strict,       \* strict_accounting and enforce_nonce_order
  Gap,          \* max_account_queue_gap
  MaxBlockTxs,
  MaxHeight     \* bound: blocks in the chain

NoTo == "no to"
NoCode == "no code"
\* str(None) and the default of tx.get("to", "")
Nobody == {"None", ""}
Kinds == {"transfer", "deploy_contract", "contract_call"}

ASSUME LedgerAssumption ==
  /\ IsFiniteSet(Accounts)
  /\ Accounts \cap (Nobody \cup {NoTo}) = {} /\ NoCode \notin Txs
  /\ Kind \in [Txs -> Kinds]
  /\ From \in [Txs -> Accounts] /\ To \in [Txs -> Accounts \cup {NoTo}]
  /\ \A t \in Txs : To[t] = NoTo => Kind[t] = "transfer"
  /\ Value \in [Txs -> Nat] /\ Nonce \in [Txs -> Nat]
  /\ CallOk \in [Txs -> SUBSET (Txs \cup {NoCode})]
  /\ Endowment \in [Accounts -> Nat]
  /\ Strict \in BOOLEAN
  /\ Gap \in Nat /\ MaxBlockTxs \in Nat /\ MaxHeight \in Nat

VARIABLES
  state,    \* table state: what the node serves and executes on
  pool,     \* _txs
  phase,    \* "idle", or whose block is being executed: "own", "peer"
  work,     \* _execute_transactions: balances, contracts, nonces so far
  replay,   \* _apply_block_to_state: the same, from the receipts
  next,     \* select_for_block: next_nonce
  block,    \* transactions executed so far, with their receipts
  chain,    \* the canonical blocks above genesis
  claimed   \* state_updates of the last of them

vars == <<state, pool, phase, work, replay, next, block, chain, claimed>>

GenesisState ==
  [balances  |-> [a \in Accounts \cup Nobody |-> IF a \in Accounts THEN Endowment[a] ELSE 0],
   nonces    |-> [a \in Accounts |-> 0],
   contracts |-> [a \in Accounts |-> NoCode]]

Init ==
  /\ state = GenesisState /\ work = GenesisState /\ replay = GenesisState
  /\ claimed = GenesisState
  /\ pool = {} /\ phase = "idle"
  /\ next = GenesisState.nonces
  /\ block = <<>> /\ chain = <<>>
-----------------------------------------------------------------------------
(***************************************************************************)
(* One transaction                                                         *)
(***************************************************************************)
Larger(x, y) == IF x < y THEN y ELSE x

Moved(s, from, to, v) ==
  LET paid == [s.balances EXCEPT ![from] = @ - v]
      got  == [paid EXCEPT ![to] = @ + v]
  IN  [s EXCEPT !.balances = got]

\* A contract is known by the transaction that deployed it; it takes the place
\* of whatever had the address.
Deployed(s, t) == [s EXCEPT !.contracts[To[t]] = t]

\* The next nonce of the sender.
Counted(s, t) == [s EXCEPT !.nonces[From[t]] = Larger(@, Nonce[t] + 1)]

\* Mutant of Succeeds: the nonce is not looked at again.
SucceedsAnyNonce(s, t) ==
  /\ Kind[t] = "transfer" => (Strict => s.balances[From[t]] >= Value[t])
  /\ Kind[t] = "contract_call" => s.contracts[To[t]] \in CallOk[t]

\* receipt["ok"]: the nonce rule, then what the type asks for
Succeeds(s, t) ==
  /\ Strict => Nonce[t] = s.nonces[From[t]]
  /\ Kind[t] = "transfer" => (Strict => s.balances[From[t]] >= Value[t])
  /\ Kind[t] = "contract_call" => s.contracts[To[t]] \in CallOk[t]

\* What a transaction that succeeds does to balances and contracts; nobody is
\* the name credited when a transfer has no receiver.
Applied(s, t, nobody) ==
  CASE Kind[t] = "transfer" ->
         Moved(s, From[t], IF To[t] = NoTo THEN nobody ELSE To[t], Value[t])
    [] Kind[t] = "deploy_contract" -> Deployed(s, t)
    [] Kind[t] = "contract_call" -> s

\* Mutant of Replayed: the nonce is left alone.
ReplayedNoNonce(s, t) == Applied(s, t, "")

\* _execute_transactions and _apply_successful_tx_to_state
Executed(s, t) == Counted(Applied(s, t, "None"), t)
Replayed(s, t) == Counted(Applied(s, t, ""), t)
-----------------------------------------------------------------------------
(***************************************************************************)
(* submit_tx: the balance is compared with table state as it is now, not   *)
(* with what the sender's pooled transactions will leave of it.  One that  *)
(* comes while a block is made is as one that came just before it and was  *)
(* not taken.                                                              *)
(***************************************************************************)
Submit(t) ==
  /\ phase = "idle"
  /\ t \notin pool
  /\ Strict /\ Kind[t] = "transfer" => state.balances[From[t]] >= Value[t]
  /\ Nonce[t] >= state.nonces[From[t]]
  /\ Nonce[t] - state.nonces[From[t]] <= Gap
  /\ \A u \in pool : From[u] # From[t] \/ Nonce[u] # Nonce[t]
  /\ pool' = pool \cup {t}
  /\ UNCHANGED <<state, phase, work, replay, next, block, chain, claimed>>

\* produce_block, or import_block of a peer's block on this head
Begin(whose) ==
  /\ phase = "idle"
  /\ Len(chain) < MaxHeight
  /\ phase' = whose
  /\ work' = state /\ replay' = state /\ next' = state.nonces
  /\ block' = <<>>
  /\ UNCHANGED <<state, pool, chain, claimed>>

(***************************************************************************)
(* The next transaction of the block.  Selection counts on every one it    *)
(* takes to succeed; one that does not leaves a receipt and nothing else.  *)
(***************************************************************************)
Execute(t) ==
  /\ phase # "idle"
  /\ phase = "own" => t \in pool
  /\ Len(block) < MaxBlockTxs
  /\ \A i \in DOMAIN block : block[i].tx # t
  /\ Nonce[t] = next[From[t]]
  /\ next' = [next EXCEPT ![From[t]] = Nonce[t] + 1]
  /\ LET ok == Succeeds(work, t) IN
     /\ block' = Append(block, [tx |-> t, ok |-> ok])
     /\ work' = IF ok THEN Executed(work, t) ELSE work
     /\ replay' = IF ok THEN Replayed(replay, t) ELSE replay
  /\ UNCHANGED <<state, pool, phase, chain, claimed>>

\* The block is stored, state rebuilt from the receipts, the pool relieved.
End ==
  /\ phase # "idle"
  /\ phase' = "idle"
  /\ chain' = Append(chain, block)
  /\ claimed' = work
  /\ state' = replay
  /\ pool' = pool \ {block[i].tx : i \in DOMAIN block}
  /\ block' = <<>> /\ work' = replay
  /\ UNCHANGED <<replay, next>>
-----------------------------------------------------------------------------
Next ==
  \/ \E t \in Txs : Submit(t) \/ Execute(t)
  \/ \E whose \in {"own", "peer"} : Begin(whose)
  \/ End

Spec == Init /\ [][Next]_vars
-----------------------------------------------------------------------------
(***************************************************************************)
(* What the accounts promise.                                              *)
(***************************************************************************)

LedgerState ==
  [balances  : [Accounts \cup Nobody -> Int],
   nonces    : [Accounts -> Nat],
   contracts : [Accounts -> Txs \cup {NoCode}]]

Receipts == [tx : Txs, ok : BOOLEAN]

\* Type invariant: the three copies of the account tables keep their shape,
\* a contract is code some transaction carried, a block is a list of receipts.
TypeOK ==
  /\ state \in LedgerState /\ work \in LedgerState
  /\ replay \in LedgerState /\ claimed \in LedgerState
  /\ pool \subseteq Txs
  /\ phase \in {"idle", "own", "peer"}
  /\ next \in [Accounts -> Nat]
  /\ block \in Seq(Receipts) /\ chain \in Seq(Seq(Receipts))

\* What the accounts own between them, the two names nobody holds included.
Supply(s) == MapThenSumSet(LAMBDA a : s.balances[a], DOMAIN s.balances)

\* Execution and replay move value and never make or lose any, a transfer to
\* oneself and one without a receiver included.
SupplyConserved == \A s \in {state, work, replay, claimed} : Supply(s) = Supply(GenesisState)

\* Under strict accounting no balance is negative at any point of a block,
\* although submission compares each of a sender's pooled transfers with the
\* whole balance and selection looks at no balance at all.
NoOverdraft ==
  Strict => \A s \in {state, work, replay, claimed} : \A a \in Accounts : s.balances[a] >= 0

\* Receipt r has spent nonce n of account a.
Spends(r, a, n) == r.ok /\ From[r.tx] = a /\ Nonce[r.tx] = n

\* Under strict accounting the nonces an account has spent in the chain are
\* 0, 1, ... up to the one the node asks for next, and each was spent once: a
\* transaction that failed may come again, one that succeeded may not.
NoncesSpentOnce ==
  Strict =>
    /\ \A a \in Accounts : \A n \in 0 .. (state.nonces[a] - 1) :
         \E h \in DOMAIN chain : \E i \in DOMAIN chain[h] : Spends(chain[h][i], a, n)
    /\ \A h \in DOMAIN chain : \A i \in DOMAIN chain[h] :
         LET r == chain[h][i] IN
         r.ok =>
           /\ Nonce[r.tx] < state.nonces[From[r.tx]]
           /\ \A g \in DOMAIN chain : \A j \in DOMAIN chain[g] :
                Spends(chain[g][j], From[r.tx], Nonce[r.tx]) => g = h /\ j = i

\* The state a block claims in state_updates is, for every account, the state
\* an importer ends with, although one is executed and the other replayed.
ClaimedIsServed ==
  phase = "idle" =>
    /\ claimed.nonces = state.nonces /\ claimed.contracts = state.contracts
    /\ \A a \in Accounts : claimed.balances[a] = state.balances[a]

\* A deployment, which needs neither money nor code, fails only in the wake of
\* an earlier failure of its sender in the same block: the nonces selection
\* counts on and the ones execution asks for are the same until then.
DeploysFailInWake ==
  \A i \in DOMAIN block :
    ~ block[i].ok /\ Kind[block[i].tx] = "deploy_contract" =>
      \E j \in 1 .. (i - 1) : ~ block[j].ok /\ From[block[j].tx] = From[block[i].tx]

\* The accounts are sound: no value made or lost, nobody overdrawn, no nonce
\* spent twice or skipped.
AccountsSound == TypeOK /\ SupplyConserved /\ NoOverdraft /\ NoncesSpentOnce

\* Execution, replay and selection agree on what a block does.
ReplayAgrees == ClaimedIsServed /\ DeploysFailInWake
=============================================================================
