--------------------------- MODULE LedgerProofs ---------------------------
(***************************************************************************)
(* Proofs about module Ledger, for every set of accounts and transactions, *)
(* every endowment, and permissive as well as strict accounting; and about *)
(* module ConsensusStack, for every set of stakes, replicas and stack      *)
(* configurations and any number of starts.  Both rest on sums.            *)
(***************************************************************************)
EXTENDS Ledger, ConsensusStack, FiniteSetTheorems, SequenceTheorems, WellFoundedInduction, TLAPS

-----------------------------------------------------------------------------
(***************************************************************************)
(* What one transaction does                                               *)
(***************************************************************************)

\* What is left of a's balance, whoever stands in for a missing receiver.
Left(s, t, a) ==
  s.balances[a] - (IF a = From[t] THEN Value[t] ELSE 0)
                + (IF a = To[t] THEN Value[t] ELSE 0)

\* Moving value changes balances only, and on accounts as Left says.
LEMMA MovedParts ==
  ASSUME NEW s \in LedgerState, NEW t \in Txs, NEW nobody \in Nobody,
         Kind[t] = "transfer"
  PROVE  LET m == Moved(s, From[t], IF To[t] = NoTo THEN nobody ELSE To[t], Value[t]) IN
         /\ m \in LedgerState
         /\ m.nonces = s.nonces /\ m.contracts = s.contracts
         /\ \A a \in Accounts : m.balances[a] = Left(s, t, a)
<1> DEFINE to == IF To[t] = NoTo THEN nobody ELSE To[t]
           v == Value[t]
           from == From[t]
           paid == [s.balances EXCEPT ![from] = @ - v]
           got == [paid EXCEPT ![to] = @ + v]
<1>1. /\ from \in Accounts /\ v \in Nat /\ to \in Accounts \cup Nobody
      /\ s.balances \in [Accounts \cup Nobody -> Int]
  BY LedgerAssumption DEF LedgerState
<1>2. paid \in [Accounts \cup Nobody -> Int]
  BY <1>1
<1>3. got \in [Accounts \cup Nobody -> Int]
  BY <1>1, <1>2
<1>4. Moved(s, from, to, v) = [s EXCEPT !.balances = got]
  BY DEF Moved
<1>5. ASSUME NEW a \in Accounts PROVE got[a] = Left(s, t, a)
  <2>1. a = to <=> a = To[t]
    BY LedgerAssumption
  <2>2. paid[a] = s.balances[a] - (IF a = from THEN v ELSE 0)
    BY <1>1
  <2>3. got[a] = paid[a] + (IF a = to THEN v ELSE 0)
    BY <1>1, <1>2
  <2> QED BY <1>1, <2>1, <2>2, <2>3 DEF Left
<1> HIDE DEF got, paid
<1>6. /\ Moved(s, from, to, v) \in LedgerState
      /\ Moved(s, from, to, v).balances = got
      /\ Moved(s, from, to, v).nonces = s.nonces
      /\ Moved(s, from, to, v).contracts = s.contracts
  BY <1>3, <1>4 DEF LedgerState
<1> QED BY <1>5, <1>6

\* A transaction that succeeds counts for its sender, changes contracts when it
\* deploys and balances when it transfers: no matter who stands in for a
\* missing receiver.
LEMMA AppliedParts ==
  ASSUME NEW s \in LedgerState, NEW t \in Txs, NEW nobody \in Nobody
  PROVE  LET e == Counted(Applied(s, t, nobody), t) IN
         /\ e \in LedgerState
         /\ e.nonces = [s.nonces EXCEPT ![From[t]] = Larger(@, Nonce[t] + 1)]
         /\ e.contracts = IF Kind[t] = "deploy_contract"
                            THEN [s.contracts EXCEPT ![To[t]] = t] ELSE s.contracts
         /\ \A a \in Accounts :
              e.balances[a] = IF Kind[t] = "transfer" THEN Left(s, t, a) ELSE s.balances[a]
<1> DEFINE p == Applied(s, t, nobody)
           c == IF Kind[t] = "deploy_contract" THEN [s.contracts EXCEPT ![To[t]] = t] ELSE s.contracts
           n == [s.nonces EXCEPT ![From[t]] = Larger(@, Nonce[t] + 1)]
<1>1. /\ p \in LedgerState /\ p.nonces = s.nonces /\ p.contracts = c
      /\ \A a \in Accounts :
           p.balances[a] = IF Kind[t] = "transfer" THEN Left(s, t, a) ELSE s.balances[a]
  <2>1. CASE Kind[t] = "transfer"
    <3>1. p = Moved(s, From[t], IF To[t] = NoTo THEN nobody ELSE To[t], Value[t])
      BY <2>1 DEF Applied
    <3>2. c = s.contracts
      BY <2>1
    <3> HIDE DEF p, c
    <3> QED BY <2>1, <3>1, <3>2, MovedParts
  <2>2. CASE Kind[t] = "deploy_contract"
    <3>1. p = [s EXCEPT !.contracts = c]
      BY <2>2 DEF Applied, Deployed, LedgerState
    <3>2. c \in [Accounts -> Txs \cup {NoCode}]
      BY <2>2, LedgerAssumption DEF LedgerState
    <3> HIDE DEF p, c
    <3>3. p \in LedgerState /\ p.contracts = c /\ p.nonces = s.nonces /\ p.balances = s.balances
      BY <3>1, <3>2 DEF LedgerState
    <3> QED BY <2>2, <3>3
  <2>3. CASE Kind[t] = "contract_call"
    BY <2>3 DEF Applied
  <2> QED BY <2>1, <2>2, <2>3, LedgerAssumption DEF Kinds
<1>2. n \in [Accounts -> Nat]
  BY LedgerAssumption DEF LedgerState, Larger
<1>3. Counted(p, t) = [p EXCEPT !.nonces = n]
  BY <1>1 DEF Counted, LedgerState
<1> HIDE DEF p, c, n
<1>4. /\ Counted(p, t) \in LedgerState
      /\ Counted(p, t).nonces = n
      /\ Counted(p, t).contracts = p.contracts
      /\ Counted(p, t).balances = p.balances
  BY <1>1, <1>2, <1>3 DEF LedgerState
<1> QED BY <1>1, <1>4 DEF p, c, n
-----------------------------------------------------------------------------
(***************************************************************************)
(* Types                                                                   *)
(***************************************************************************)
LEMMA GenesisTyped == GenesisState \in LedgerState
BY LedgerAssumption DEF GenesisState, LedgerState

\* Execution begins in the genesis state.
LEMMA InitTyped == Init => TypeOK
BY GenesisTyped DEF Init, TypeOK, GenesisState, LedgerState

\* Executing, sealing and replaying keep the types.
LEMMA StepTyped == TypeOK /\ [Next]_vars => TypeOK'
<1> SUFFICES ASSUME TypeOK, [Next]_vars PROVE TypeOK'
  OBVIOUS
<1>1. ASSUME NEW t \in Txs, Submit(t) PROVE TypeOK'
  BY <1>1 DEF TypeOK, Submit
<1>2. ASSUME NEW t \in Txs, Execute(t) PROVE TypeOK'
  <2> DEFINE ok == Succeeds(work, t)
  <2>1. /\ Executed(work, t) \in LedgerState /\ Replayed(replay, t) \in LedgerState
    BY AppliedParts DEF TypeOK, Nobody, Executed, Replayed
  <2>2. ok \in BOOLEAN
    BY DEF Succeeds
  <2>3. /\ work' = IF ok THEN Executed(work, t) ELSE work
        /\ replay' = IF ok THEN Replayed(replay, t) ELSE replay
        /\ block' = Append(block, [tx |-> t, ok |-> ok])
        /\ next' = [next EXCEPT ![From[t]] = Nonce[t] + 1]
        /\ UNCHANGED <<state, pool, phase, chain, claimed>>
    BY <1>2 DEF Execute
  <2> HIDE DEF ok
  <2>4. work' \in LedgerState /\ replay' \in LedgerState
    BY <2>1, <2>3 DEF TypeOK
  <2>5. [tx |-> t, ok |-> ok] \in Receipts
    BY <2>2 DEF Receipts
  <2>6. block' \in Seq(Receipts)
    BY <2>3, <2>5 DEF TypeOK
  <2>7. next' \in [Accounts -> Nat]
    BY <2>3, LedgerAssumption DEF TypeOK
  <2> QED BY <2>3, <2>4, <2>6, <2>7 DEF TypeOK
<1>3. ASSUME NEW whose \in {"own", "peer"}, Begin(whose) PROVE TypeOK'
  BY <1>3 DEF TypeOK, Begin, LedgerState
<1>4. ASSUME End PROVE TypeOK'
  BY <1>4 DEF TypeOK, End
<1>5. ASSUME UNCHANGED vars PROVE TypeOK'
  BY <1>5 DEF TypeOK, vars
<1> QED BY <1>1, <1>2, <1>3, <1>4, <1>5 DEF Next

\* Account tables, receipts and plans of the next nonces keep their shape, for
\* any transactions in any order.
THEOREM LedgerTyped == Spec => []TypeOK
BY InitTyped, StepTyped, PTL DEF Spec
-----------------------------------------------------------------------------
(***************************************************************************)
(* Execution and replay                                                    *)
(***************************************************************************)

\* Two account tables that are one for every account.
Same(s, r) ==
  /\ s.nonces = r.nonces /\ s.contracts = r.contracts
  /\ \A a \in Accounts : s.balances[a] = r.balances[a]

Solvent(s) == \A a \in Accounts : s.balances[a] >= 0

AccountInv ==
  /\ TypeOK
  /\ Same(work, replay)
  /\ Same(claimed, state)
  /\ Strict => Solvent(state) /\ Solvent(work)

\* Executing and replaying one transaction keeps two tables one.
LEMMA SameStep ==
  ASSUME NEW s \in LedgerState, NEW r \in LedgerState, NEW t \in Txs, Same(s, r)
  PROVE  Same(Executed(s, t), Replayed(r, t))
<1> DEFINE e == Counted(Applied(s, t, "None"), t)
           f == Counted(Applied(r, t, ""), t)
<1>1. /\ e.nonces = [s.nonces EXCEPT ![From[t]] = Larger(@, Nonce[t] + 1)]
      /\ e.contracts = IF Kind[t] = "deploy_contract"
                         THEN [s.contracts EXCEPT ![To[t]] = t] ELSE s.contracts
      /\ \A a \in Accounts :
           e.balances[a] = IF Kind[t] = "transfer" THEN Left(s, t, a) ELSE s.balances[a]
  BY AppliedParts DEF Nobody
<1>2. /\ f.nonces = [r.nonces EXCEPT ![From[t]] = Larger(@, Nonce[t] + 1)]
      /\ f.contracts = IF Kind[t] = "deploy_contract"
                         THEN [r.contracts EXCEPT ![To[t]] = t] ELSE r.contracts
      /\ \A a \in Accounts :
           f.balances[a] = IF Kind[t] = "transfer" THEN Left(r, t, a) ELSE r.balances[a]
  BY AppliedParts DEF Nobody
<1>3. \A a \in Accounts : Left(s, t, a) = Left(r, t, a)
  BY DEF Same, Left
<1> HIDE DEF e, f
<1>4. e.nonces = f.nonces
  BY <1>1, <1>2 DEF Same
<1>5. e.contracts = f.contracts
  BY <1>1, <1>2 DEF Same
<1>6. \A a \in Accounts : e.balances[a] = f.balances[a]
  BY <1>1, <1>2, <1>3 DEF Same
<1>7. Same(e, f)
  BY <1>4, <1>5, <1>6 DEF Same
<1> QED BY <1>7 DEF e, f, Executed, Replayed

\* A transaction that succeeds under strict accounting leaves nobody in debt.
LEMMA SolventStep ==
  ASSUME NEW s \in LedgerState, NEW t \in Txs, Solvent(s), Succeeds(s, t), Strict
  PROVE  Solvent(Executed(s, t))
<1> DEFINE e == Counted(Applied(s, t, "None"), t)
<1>1. \A a \in Accounts :
        e.balances[a] = IF Kind[t] = "transfer" THEN Left(s, t, a) ELSE s.balances[a]
  BY AppliedParts DEF Nobody
<1> HIDE DEF e
<1>2. Kind[t] = "transfer" => s.balances[From[t]] >= Value[t]
  BY DEF Succeeds
<1>3. ASSUME NEW a \in Accounts PROVE e.balances[a] >= 0
  <2>1. s.balances[a] \in Int /\ s.balances[a] >= 0 /\ Value[t] \in Nat
    BY LedgerAssumption DEF LedgerState, Solvent
  <2>2. CASE Kind[t] = "transfer"
    <3>1. e.balances[a] = s.balances[a] - (IF a = From[t] THEN Value[t] ELSE 0)
                                        + (IF a = To[t] THEN Value[t] ELSE 0)
      BY <1>1, <2>2 DEF Left
    <3>2. a = From[t] => s.balances[a] >= Value[t]
      BY <1>2, <2>2
    <3> QED BY <2>1, <3>1, <3>2
  <2>3. CASE Kind[t] # "transfer"
    BY <1>1, <2>1, <2>3
  <2> QED BY <2>2, <2>3
<1> QED BY <1>3 DEF e, Executed, Solvent

\* Nobody owes anything at genesis.
LEMMA InitAccounts == Init => AccountInv
<1> SUFFICES ASSUME Init PROVE AccountInv
  OBVIOUS
<1>1. TypeOK
  BY InitTyped
<1>2. Same(GenesisState, GenesisState)
  BY DEF Same
<1>3. Solvent(GenesisState)
  BY LedgerAssumption DEF Solvent, GenesisState
<1> QED BY <1>1, <1>2, <1>3 DEF Init, AccountInv

\* No step overdraws an account or parts execution from replay.
LEMMA StepAccounts == AccountInv /\ [Next]_vars => AccountInv'
<1> SUFFICES ASSUME AccountInv, [Next]_vars PROVE AccountInv'
  OBVIOUS
<1> USE DEF AccountInv
<1>0. TypeOK'
  BY StepTyped
<1>1. ASSUME NEW t \in Txs, Submit(t) PROVE AccountInv'
  BY <1>0, <1>1 DEF Submit
<1>2. ASSUME NEW t \in Txs, Execute(t) PROVE AccountInv'
  <2>1. UNCHANGED <<state, claimed>>
    BY <1>2 DEF Execute
  <2>2. \/ /\ Succeeds(work, t)
           /\ work' = Executed(work, t) /\ replay' = Replayed(replay, t)
        \/ UNCHANGED <<work, replay>>
    BY <1>2 DEF Execute
  <2>3. Same(work, replay)'
    BY <2>2, SameStep DEF TypeOK
  <2>4. Strict => Solvent(work)'
    BY <2>2, SolventStep DEF TypeOK
  <2> QED BY <1>0, <2>1, <2>3, <2>4
<1>3. ASSUME NEW whose \in {"own", "peer"}, Begin(whose) PROVE AccountInv'
  BY <1>0, <1>3 DEF Begin, Same
<1>4. ASSUME End PROVE AccountInv'
  <2>1. claimed' = work /\ state' = replay /\ work' = replay /\ replay' = replay
    BY <1>4 DEF End
  <2>2. Strict => Solvent(replay)
    BY DEF Same, Solvent
  <2> QED BY <1>0, <2>1, <2>2 DEF Same
<1>5. ASSUME UNCHANGED vars PROVE AccountInv'
  BY <1>0, <1>5 DEF vars
<1> QED BY <1>1, <1>2, <1>3, <1>4, <1>5 DEF Next

\* So accounts are sound in every reachable state.
LEMMA AlwaysAccounts == Spec => []AccountInv
BY InitAccounts, StepAccounts, PTL DEF Spec

\* The state a block claims is the state its importers serve, for every account
\* and under permissive as well as strict accounting.
THEOREM ReplayEndsWhereExecutionDid == Spec => []ClaimedIsServed
<1>1. AccountInv => ClaimedIsServed
  BY DEF AccountInv, ClaimedIsServed, Same
<1> QED BY <1>1, AlwaysAccounts, PTL

\* Under strict accounting no account is ever overdrawn, in the middle of a
\* block or after it, whatever its pool and its peers' blocks promise.
THEOREM NobodyOverdrawn == Spec => []NoOverdraft
<1>1. ASSUME AccountInv PROVE NoOverdraft
  <2>1. \A a \in Accounts : claimed.balances[a] = state.balances[a] /\ work.balances[a] = replay.balances[a]
    BY <1>1 DEF AccountInv, Same
  <2>2. Strict => \A a \in Accounts : state.balances[a] >= 0 /\ work.balances[a] >= 0
    BY <1>1 DEF AccountInv, Solvent
  <2> QED BY <2>1, <2>2 DEF NoOverdraft
<1> QED BY <1>1, AlwaysAccounts, PTL
-----------------------------------------------------------------------------
(***************************************************************************)
(* Nonces                                                                  *)
(***************************************************************************)

\* Receipts are of known accounts and carry numbers.
LEMMA ReceiptNames ==
  ASSUME NEW b \in Seq(Receipts), NEW i \in DOMAIN b
  PROVE  From[b[i].tx] \in Accounts /\ Nonce[b[i].tx] \in Nat
<1>1. b[i] \in Receipts
  OBVIOUS
<1>2. b[i].tx \in Txs
  BY <1>1 DEF Receipts
<1> QED BY <1>2, LedgerAssumption

\* The block in the making has spent exactly the nonces between those of the
\* state below it and those execution has reached.
BlockSpends ==
  /\ \A a \in Accounts : state.nonces[a] <= work.nonces[a]
  /\ \A a \in Accounts : \A n \in state.nonces[a] .. (work.nonces[a] - 1) :
       \E i \in DOMAIN block : Spends(block[i], a, n)
  /\ \A i \in DOMAIN block : block[i].ok =>
       /\ state.nonces[From[block[i].tx]] <= Nonce[block[i].tx]
       /\ Nonce[block[i].tx] < work.nonces[From[block[i].tx]]
       /\ \A j \in DOMAIN block :
            Spends(block[j], From[block[i].tx], Nonce[block[i].tx]) => j = i

NonceInv == AccountInv /\ (Strict => BlockSpends) /\ NoncesSpentOnce

\* No nonce is spent at genesis.
LEMMA InitNonces == Init => NonceInv
<1> SUFFICES ASSUME Init PROVE NonceInv
  OBVIOUS
<1>1. AccountInv
  BY InitAccounts
<1>2. \A a \in Accounts : state.nonces[a] = 0 /\ work.nonces[a] = 0
  BY DEF Init, GenesisState
<1>3. block = <<>> /\ chain = <<>>
  BY DEF Init
<1> QED BY <1>1, <1>2, <1>3 DEF NonceInv, BlockSpends, NoncesSpentOnce

\* Executing one more transaction.
LEMMA ExecuteSpends ==
  ASSUME NonceInv, Strict, NEW t \in Txs, Execute(t)
  PROVE  BlockSpends'
<1> DEFINE ok == Succeeds(work, t)
           r == [tx |-> t, ok |-> ok]
           k == Len(block) + 1
<1>1. /\ block' = Append(block, r)
      /\ work' = IF ok THEN Executed(work, t) ELSE work
      /\ state' = state
  BY DEF Execute
<1>2. block \in Seq(Receipts) /\ work \in LedgerState /\ state \in LedgerState
  BY DEF NonceInv, AccountInv, TypeOK
<1>3. /\ DOMAIN block' = DOMAIN block \cup {k} /\ k \notin DOMAIN block
      /\ block'[k] = r /\ \A i \in DOMAIN block : block'[i] = block[i]
  BY <1>1, <1>2
<1>4. From[t] \in Accounts /\ Nonce[t] \in Nat
  BY LedgerAssumption
<1>5. \A i \in DOMAIN block : From[block[i].tx] \in Accounts /\ Nonce[block[i].tx] \in Nat
  BY <1>2, ReceiptNames
<1>6. \A a \in Accounts : state.nonces[a] \in Nat /\ work.nonces[a] \in Nat
  BY <1>2 DEF LedgerState
<1>7. BlockSpends
  BY DEF NonceInv
<1>8. CASE ~ ok
  <2>1. work' = work /\ ~ r.ok
    BY <1>1, <1>8
  <2> HIDE DEF ok, r, k
  <2>2. \A a, n : ~ Spends(r, a, n)
    BY <2>1 DEF Spends
  <2> QED BY <1>1, <1>3, <1>7, <2>1, <2>2 DEF BlockSpends, Spends
<1>9. CASE ok
  <2>1. Executed(work, t).nonces = [work.nonces EXCEPT ![From[t]] = Larger(@, Nonce[t] + 1)]
    BY <1>2, AppliedParts DEF Executed, Nobody
  <2>2. Nonce[t] = work.nonces[From[t]]
    BY <1>9 DEF Succeeds
  <2>3. work.nonces \in [Accounts -> Nat]
    BY <1>2 DEF LedgerState
  <2>4. \A a \in Accounts :
          work'.nonces[a] = IF a = From[t] THEN Nonce[t] + 1 ELSE work.nonces[a]
    BY <1>1, <1>4, <1>9, <2>1, <2>2, <2>3 DEF Larger
  <2>5. r.ok /\ r.tx = t
    BY <1>9
  <2> HIDE DEF ok, r, k
  <2>6. \A a \in Accounts : state'.nonces[a] <= work'.nonces[a]
    BY <1>1, <1>4, <1>6, <1>7, <2>2, <2>4 DEF BlockSpends
  <2>7. ASSUME NEW a \in Accounts, NEW n \in state'.nonces[a] .. (work'.nonces[a] - 1)
        PROVE  \E i \in DOMAIN block' : Spends(block'[i], a, n)
    <3>1. CASE a = From[t] /\ n = Nonce[t]
      BY <1>3, <2>5, <3>1 DEF Spends
    <3>2. CASE ~ (a = From[t] /\ n = Nonce[t])
      <4>1. n \in state.nonces[a] .. (work.nonces[a] - 1)
        BY <1>1, <1>4, <1>6, <2>2, <2>4, <3>2
      <4>2. PICK i \in DOMAIN block : Spends(block[i], a, n)
        BY <1>7, <4>1 DEF BlockSpends
      <4> QED BY <1>3, <4>2
    <3> QED BY <3>1, <3>2
  <2>8. \A i \in DOMAIN block : ~ Spends(block[i], From[t], Nonce[t])
    BY <1>4, <1>5, <1>6, <1>7, <2>2 DEF BlockSpends, Spends
  <2>9. ASSUME NEW i \in DOMAIN block', block'[i].ok
        PROVE  /\ state'.nonces[From[block'[i].tx]] <= Nonce[block'[i].tx]
               /\ Nonce[block'[i].tx] < work'.nonces[From[block'[i].tx]]
               /\ \A j \in DOMAIN block' :
                    Spends(block'[j], From[block'[i].tx], Nonce[block'[i].tx]) => j = i
    <3>1. CASE i = k
      <4>1. block'[i].tx = t
        BY <1>3, <2>5, <3>1
      <4>2. state.nonces[From[t]] <= Nonce[t]
        BY <1>4, <1>7, <2>2 DEF BlockSpends
      <4>3. Nonce[t] < work'.nonces[From[t]]
        BY <1>4, <2>4
      <4>4. \A j \in DOMAIN block' : Spends(block'[j], From[t], Nonce[t]) => j = k
        BY <1>3, <2>8
      <4> QED BY <1>1, <3>1, <4>1, <4>2, <4>3, <4>4
    <3>2. CASE i \in DOMAIN block
      <4>1. block'[i] = block[i] /\ block[i].ok
        BY <1>3, <2>9, <3>2
      <4>2. /\ state.nonces[From[block[i].tx]] <= Nonce[block[i].tx]
            /\ Nonce[block[i].tx] < work.nonces[From[block[i].tx]]
            /\ \A j \in DOMAIN block :
                 Spends(block[j], From[block[i].tx], Nonce[block[i].tx]) => j = i
        BY <1>7, <3>2, <4>1 DEF BlockSpends
      <4>3. Nonce[block[i].tx] < work'.nonces[From[block[i].tx]]
        BY <1>4, <1>5, <1>6, <2>2, <2>4, <3>2, <4>2
      <4>4. Spends(block[i], From[block[i].tx], Nonce[block[i].tx])
        BY <4>1 DEF Spends
      <4>5. ~ Spends(r, From[block[i].tx], Nonce[block[i].tx])
        BY <2>5, <2>8, <3>2, <4>4 DEF Spends
      <4> QED BY <1>1, <1>3, <4>1, <4>2, <4>3, <4>5
    <3> QED BY <1>3, <3>1, <3>2
  <2> QED BY <2>6, <2>7, <2>9 DEF BlockSpends
<1> QED BY <1>8, <1>9

\* The block joins the chain.
LEMMA EndSpends ==
  ASSUME NonceInv, End
  PROVE  (Strict => BlockSpends') /\ NoncesSpentOnce'
<1> DEFINE k == Len(chain) + 1
<1>1. /\ chain' = Append(chain, block) /\ block' = <<>>
      /\ work' = replay /\ state' = replay
  BY DEF End
<1>2. /\ chain \in Seq(Seq(Receipts)) /\ block \in Seq(Receipts)
      /\ work \in LedgerState /\ state \in LedgerState
  BY DEF NonceInv, AccountInv, TypeOK
<1>3. work.nonces = replay.nonces
  BY DEF NonceInv, AccountInv, Same
<1>4. \A a \in Accounts : state.nonces[a] \in Nat /\ work.nonces[a] \in Nat
  BY <1>2 DEF LedgerState
<1>5. /\ DOMAIN chain' = DOMAIN chain \cup {k} /\ k \notin DOMAIN chain
      /\ chain'[k] = block /\ \A h \in DOMAIN chain : chain'[h] = chain[h]
  BY <1>1, <1>2
<1>6. BlockSpends'
  BY <1>1, <1>3, <1>4 DEF BlockSpends
<1>7. ASSUME Strict PROVE NoncesSpentOnce'
  <2>1. BlockSpends /\ NoncesSpentOnce
    BY <1>7 DEF NonceInv
  <2>2. \A h \in DOMAIN chain : chain[h] \in Seq(Receipts)
    BY <1>2
  <2>3. \A h \in DOMAIN chain : \A i \in DOMAIN chain[h] :
          From[chain[h][i].tx] \in Accounts /\ Nonce[chain[h][i].tx] \in Nat
    BY <2>2, ReceiptNames
  <2>4. \A i \in DOMAIN block : From[block[i].tx] \in Accounts /\ Nonce[block[i].tx] \in Nat
    BY <1>2, ReceiptNames
  <2>5. \A a \in Accounts : state'.nonces[a] = work.nonces[a] /\ state.nonces[a] <= work.nonces[a]
    BY <1>1, <1>3, <2>1 DEF BlockSpends
  <2> HIDE DEF k
  <2>6. ASSUME NEW a \in Accounts, NEW n \in 0 .. (state'.nonces[a] - 1)
        PROVE  \E h \in DOMAIN chain' : \E i \in DOMAIN chain'[h] : Spends(chain'[h][i], a, n)
    <3>1. CASE n < state.nonces[a]
      <4>1. PICK h \in DOMAIN chain : \E i \in DOMAIN chain[h] : Spends(chain[h][i], a, n)
        BY <1>4, <1>7, <2>1, <3>1 DEF NoncesSpentOnce
      <4> QED BY <1>5, <4>1
    <3>2. CASE ~ (n < state.nonces[a])
      <4>1. n \in state.nonces[a] .. (work.nonces[a] - 1)
        BY <1>4, <2>5, <3>2
      <4>2. \E i \in DOMAIN block : Spends(block[i], a, n)
        BY <2>1, <4>1 DEF BlockSpends
      <4> QED BY <1>5, <4>2
    <3> QED BY <3>1, <3>2
  <2>7. ASSUME NEW h \in DOMAIN chain, NEW i \in DOMAIN chain[h], chain[h][i].ok,
               NEW j \in DOMAIN block
        PROVE  ~ Spends(block[j], From[chain[h][i].tx], Nonce[chain[h][i].tx])
    <3>1. Nonce[chain[h][i].tx] < state.nonces[From[chain[h][i].tx]]
      BY <1>7, <2>1, <2>7 DEF NoncesSpentOnce
    <3>2. block[j].ok => state.nonces[From[block[j].tx]] <= Nonce[block[j].tx]
      BY <2>1 DEF BlockSpends
    <3>3. /\ From[chain[h][i].tx] \in Accounts /\ Nonce[chain[h][i].tx] \in Nat
          /\ From[block[j].tx] \in Accounts /\ Nonce[block[j].tx] \in Nat
      BY <2>3, <2>4
    <3> QED BY <1>4, <3>1, <3>2, <3>3 DEF Spends
  <2>8. ASSUME NEW h \in DOMAIN chain', NEW i \in DOMAIN chain'[h], chain'[h][i].ok
        PROVE  /\ Nonce[chain'[h][i].tx] < state'.nonces[From[chain'[h][i].tx]]
               /\ \A g \in DOMAIN chain' : \A j \in DOMAIN chain'[g] :
                    Spends(chain'[g][j], From[chain'[h][i].tx], Nonce[chain'[h][i].tx])
                      => g = h /\ j = i
    <3>1. CASE h = k
      <4>1. chain'[h] = block /\ i \in DOMAIN block /\ block[i].ok
        BY <1>5, <2>8, <3>1
      <4>2. Nonce[block[i].tx] < state'.nonces[From[block[i].tx]]
        BY <2>1, <2>4, <2>5, <4>1 DEF BlockSpends
      <4>3. \A j \in DOMAIN block : Spends(block[j], From[block[i].tx], Nonce[block[i].tx]) => j = i
        BY <2>1, <4>1 DEF BlockSpends
      <4>4. ASSUME NEW g \in DOMAIN chain, NEW j \in DOMAIN chain[g]
            PROVE  ~ Spends(chain[g][j], From[block[i].tx], Nonce[block[i].tx])
        BY <2>7, <4>1 DEF Spends
      <4> QED BY <1>5, <3>1, <4>1, <4>2, <4>3, <4>4
    <3>2. CASE h \in DOMAIN chain
      <4>1. chain'[h] = chain[h] /\ i \in DOMAIN chain[h] /\ chain[h][i].ok
        BY <1>5, <2>8, <3>2
      <4>2. /\ Nonce[chain[h][i].tx] < state.nonces[From[chain[h][i].tx]]
            /\ \A g \in DOMAIN chain : \A j \in DOMAIN chain[g] :
                 Spends(chain[g][j], From[chain[h][i].tx], Nonce[chain[h][i].tx])
                   => g = h /\ j = i
        BY <1>7, <2>1, <3>2, <4>1 DEF NoncesSpentOnce
      <4>3. Nonce[chain[h][i].tx] < state'.nonces[From[chain[h][i].tx]]
        BY <1>4, <2>3, <2>5, <3>2, <4>1, <4>2
      <4>4. \A j \in DOMAIN block : ~ Spends(block[j], From[chain[h][i].tx], Nonce[chain[h][i].tx])
        BY <2>7, <3>2, <4>1
      <4> QED BY <1>5, <4>1, <4>2, <4>3, <4>4
    <3> QED BY <1>5, <3>1, <3>2
  <2> QED BY <2>6, <2>8 DEF NoncesSpentOnce
<1>8. ~ Strict => NoncesSpentOnce'
  BY DEF NoncesSpentOnce
<1> QED BY <1>6, <1>7, <1>8

\* A step spends the next nonce of an account or none.
LEMMA StepNonces == NonceInv /\ [Next]_vars => NonceInv'
<1> SUFFICES ASSUME NonceInv, [Next]_vars PROVE NonceInv'
  OBVIOUS
<1>0. AccountInv'
  BY StepAccounts DEF NonceInv
<1>1. ASSUME NEW t \in Txs, Submit(t) PROVE NonceInv'
  BY <1>0, <1>1 DEF Submit, NonceInv, BlockSpends, NoncesSpentOnce
<1>2. ASSUME NEW t \in Txs, Execute(t) PROVE NonceInv'
  <2>1. Strict => BlockSpends'
    BY <1>2, ExecuteSpends
  <2>2. NoncesSpentOnce'
    BY <1>2 DEF Execute, NonceInv, NoncesSpentOnce
  <2> QED BY <1>0, <2>1, <2>2 DEF NonceInv
<1>3. ASSUME NEW whose \in {"own", "peer"}, Begin(whose) PROVE NonceInv'
  <2>1. work' = state /\ block' = <<>> /\ UNCHANGED <<state, chain>>
    BY <1>3 DEF Begin
  <2>2. \A a \in Accounts : state.nonces[a] \in Nat
    BY DEF NonceInv, AccountInv, TypeOK, LedgerState
  <2>3. BlockSpends'
    BY <2>1, <2>2 DEF BlockSpends
  <2>4. NoncesSpentOnce'
    BY <2>1 DEF NonceInv, NoncesSpentOnce
  <2> QED BY <1>0, <2>3, <2>4 DEF NonceInv
<1>4. ASSUME End PROVE NonceInv'
  BY <1>0, <1>4, EndSpends DEF NonceInv
<1>5. ASSUME UNCHANGED vars PROVE NonceInv'
  BY <1>0, <1>5 DEF vars, NonceInv, BlockSpends, NoncesSpentOnce
<1> QED BY <1>1, <1>2, <1>3, <1>4, <1>5 DEF Next

\* Under strict accounting every nonce of an account is spent once and in
\* order, over all blocks of the chain: no payment is made twice, though what
\* failed may be sent again.
THEOREM NoNonceTwice == Spec => []NoncesSpentOnce
<1>1. NonceInv => NoncesSpentOnce
  BY DEF NonceInv
<1> QED BY <1>1, InitNonces, StepNonces, PTL DEF Spec
-----------------------------------------------------------------------------
(***************************************************************************)
(* Failures                                                                *)
(***************************************************************************)

\* As long as nothing of an account has failed in the block, selection counts
\* on the nonce execution asks for.
InStep ==
  phase # "idle" =>
    \A a \in Accounts :
      (\A i \in DOMAIN block : From[block[i].tx] = a => block[i].ok)
        => next[a] = work.nonces[a]

WakeInv == TypeOK /\ DeploysFailInWake /\ (Strict => InStep)

\* A deployment keeps failing only behind a failure of its own sender.
LEMMA StepWake == WakeInv /\ [Next]_vars => WakeInv'
<1> SUFFICES ASSUME WakeInv, [Next]_vars PROVE WakeInv'
  OBVIOUS
<1>0. TypeOK /\ TypeOK'
  BY StepTyped DEF WakeInv
<1>1. ASSUME NEW t \in Txs, Submit(t) PROVE WakeInv'
  BY <1>0, <1>1 DEF Submit, WakeInv, InStep, DeploysFailInWake
<1>2. ASSUME NEW t \in Txs, Execute(t) PROVE WakeInv'
  <2> DEFINE ok == Succeeds(work, t)
             r == [tx |-> t, ok |-> ok]
             k == Len(block) + 1
  <2>1. /\ block' = Append(block, r)
        /\ work' = IF ok THEN Executed(work, t) ELSE work
        /\ next' = [next EXCEPT ![From[t]] = Nonce[t] + 1]
        /\ Nonce[t] = next[From[t]]
        /\ phase # "idle" /\ phase' = phase
    BY <1>2 DEF Execute
  <2>2. block \in Seq(Receipts) /\ work.nonces \in [Accounts -> Nat] /\ next \in [Accounts -> Nat]
    BY <1>0 DEF TypeOK, LedgerState
  <2>3. /\ DOMAIN block' = DOMAIN block \cup {k} /\ k \notin DOMAIN block
        /\ block'[k] = r /\ \A i \in DOMAIN block : block'[i] = block[i]
        /\ DOMAIN block = 1 .. (k - 1) /\ k \in Nat
    BY <2>1, <2>2
  <2>4. From[t] \in Accounts /\ Nonce[t] \in Nat
    BY LedgerAssumption
  <2>5. r.tx = t /\ r.ok = ok
    OBVIOUS
  <2>6. ok => Executed(work, t).nonces = [work.nonces EXCEPT ![From[t]] = Larger(@, Nonce[t] + 1)]
    BY <1>0, AppliedParts DEF Executed, Nobody, TypeOK
  <2>7. Strict /\ ok => Nonce[t] = work.nonces[From[t]]
    BY DEF Succeeds
  <2>8. Kind[t] = "deploy_contract" /\ (Strict => Nonce[t] = work.nonces[From[t]]) => ok
    BY DEF Succeeds
  <2> HIDE DEF ok, r, k
  <2>9. ASSUME Strict PROVE InStep'
    <3>1. ASSUME NEW a \in Accounts,
                 \A i \in DOMAIN block' : From[block'[i].tx] = a => block'[i].ok
          PROVE  next'[a] = work'.nonces[a]
      <4>1. \A i \in DOMAIN block : From[block[i].tx] = a => block[i].ok
        BY <2>3, <3>1
      <4>2. next[a] = work.nonces[a]
        BY <2>1, <2>9, <4>1 DEF WakeInv, InStep
      <4>3. CASE a = From[t]
        <5>1. ok
          BY <2>3, <2>5, <3>1, <4>3
        <5>2. work'.nonces = [work.nonces EXCEPT ![From[t]] = Larger(@, Nonce[t] + 1)]
          BY <2>1, <2>6, <5>1
        <5> QED BY <2>1, <2>2, <2>4, <2>7, <2>9, <4>3, <5>1, <5>2 DEF Larger
      <4>4. CASE a # From[t]
        <5>1. work'.nonces[a] = work.nonces[a]
          BY <2>1, <2>2, <2>4, <2>6, <4>4
        <5> QED BY <2>1, <2>2, <4>2, <4>4, <5>1
      <4> QED BY <4>3, <4>4
    <3> QED BY <3>1 DEF InStep
  <2>10. ASSUME NEW i \in DOMAIN block', ~ block'[i].ok, Kind[block'[i].tx] = "deploy_contract"
         PROVE  \E j \in 1 .. (i - 1) : ~ block'[j].ok /\ From[block'[j].tx] = From[block'[i].tx]
    <3>1. CASE i = k
      <4>1. block'[i].tx = t /\ ~ ok /\ Kind[t] = "deploy_contract"
        BY <2>3, <2>5, <2>10, <3>1
      <4>2. Strict /\ next[From[t]] # work.nonces[From[t]]
        BY <2>1, <2>8, <4>1
      <4>3. PICK j \in DOMAIN block : From[block[j].tx] = From[t] /\ ~ block[j].ok
        BY <2>1, <2>4, <4>2 DEF WakeInv, InStep
      <4>4. j \in 1 .. (i - 1) /\ block'[j] = block[j]
        BY <2>3, <3>1, <4>3
      <4> QED BY <4>1, <4>3, <4>4
    <3>2. CASE i \in DOMAIN block
      <4>1. PICK j \in 1 .. (i - 1) : ~ block[j].ok /\ From[block[j].tx] = From[block[i].tx]
        BY <2>3, <2>10, <3>2 DEF WakeInv, DeploysFailInWake
      <4>2. j \in DOMAIN block
        BY <2>3, <3>2
      <4> QED BY <2>3, <3>2, <4>1, <4>2
    <3> QED BY <2>3, <3>1, <3>2
  <2>11. DeploysFailInWake'
    BY <2>10 DEF DeploysFailInWake
  <2> QED BY <1>0, <2>9, <2>11 DEF WakeInv
<1>3. ASSUME NEW whose \in {"own", "peer"}, Begin(whose) PROVE WakeInv'
  BY <1>0, <1>3 DEF Begin, WakeInv, InStep, DeploysFailInWake
<1>4. ASSUME End PROVE WakeInv'
  BY <1>0, <1>4 DEF End, WakeInv, InStep, DeploysFailInWake
<1>5. ASSUME UNCHANGED vars PROVE WakeInv'
  BY <1>0, <1>5 DEF vars, WakeInv, InStep, DeploysFailInWake
<1> QED BY <1>1, <1>2, <1>3, <1>4, <1>5 DEF Next

\* In any block a deployment fails only behind an earlier failure of its own
\* sender: selection and execution count nonces alike.
THEOREM DeploysOnlyFollow == Spec => []DeploysFailInWake
<1>1. Init => WakeInv
  BY InitTyped DEF Init, WakeInv, InStep, DeploysFailInWake
<1>2. WakeInv => DeploysFailInWake
  BY DEF WakeInv
<1> QED BY <1>1, <1>2, StepWake, PTL DEF Spec
-----------------------------------------------------------------------------
(***************************************************************************)
(* Sums over finite sets.  SumsOf is the recursive function that           *)
(* MapThenSumSet stands for in Supply; that it exists, and how it changes  *)
(* with one value, follow from the least set for which they would fail.    *)
(***************************************************************************)

\* A set of numbers that is not empty has a least one.
LEMMA LeastNumber ==
  ASSUME NEW T, T \subseteq Nat, T # {}
  PROVE  \E m \in T : \A k \in T : m <= k
<1> DEFINE Below == OpToRel(<, Nat)
<1>1. IsWellFoundedOn(Below, Nat)
  BY NatLessThanWellFounded
<1> HIDE DEF Below
<1>2. PICK m \in T : \A k \in T : ~ (<<k, m>> \in Below)
  BY <1>1, WFMin
<1>3. \A k \in T : k < m => <<k, m>> \in Below
  BY DEF Below, OpToRel
<1>4. \A k \in T : ~ (k < m)
  BY <1>2, <1>3, Zenon
<1>5. \A k \in T : m <= k
  BY <1>4
<1> QED BY <1>5

\* Whom a sum over S counts first.
First(S) == CHOOSE a \in S : TRUE

\* f sums b over every set of no more than n members of D.
Adds(b, D, n, f) ==
  \A S \in SUBSET D : Cardinality(S) <= n =>
    f[S] = IF S = {} THEN 0 ELSE b[First(S)] + f[S \ {First(S)}]

\* A set without its first member is one smaller.
LEMMA Fewer ==
  ASSUME NEW D, IsFiniteSet(D), NEW S \in SUBSET D
  PROVE  /\ Cardinality(S) \in Nat
         /\ S # {} => /\ First(S) \in S /\ S \ {First(S)} \in SUBSET D
                      /\ Cardinality(S \ {First(S)}) = Cardinality(S) - 1
<1>1. IsFiniteSet(S)
  BY FS_Subset
<1>2. Cardinality(S) \in Nat
  BY <1>1, FS_CardinalityType
<1>3. S # {} => First(S) \in S
  BY Zenon DEF First
<1>4. S # {} => Cardinality(S \ {First(S)}) = Cardinality(S) - 1
  <2> DEFINE x == First(S)
  <2> HIDE DEF x
  <2>1. S # {} => x \in S
    BY <1>3 DEF x
  <2>2. S # {} => Cardinality(S \ {x}) = Cardinality(S) - 1
    BY <1>1, <2>1, FS_RemoveElement
  <2> QED BY <2>2 DEF x
<1> QED BY <1>2, <1>3, <1>4

\* Every finite set has its sums.
LEMMA SumsExist ==
  ASSUME NEW D, IsFiniteSet(D), NEW b \in [D -> Int]
  PROVE  \E f \in [SUBSET D -> Int] : Adds(b, D, Cardinality(D), f)
<1> DEFINE None(n) == \A f \in [SUBSET D -> Int] : ~Adds(b, D, n, f)
           T == {n \in Nat : None(n)}
<1>1. SUFFICES ASSUME None(Cardinality(D)) PROVE FALSE
  BY Zenon
<1>2. Cardinality(D) \in T /\ T \subseteq Nat
  BY <1>1, FS_CardinalityType
<1>3. PICK n \in T : \A k \in T : n <= k
  <2> HIDE DEF T
  <2> QED BY <1>2, LeastNumber
<1>4. n \in Nat /\ None(n)
  BY <1>3
<1>5. \E f \in [SUBSET D -> Int] : \A S \in SUBSET D : Cardinality(S) < n =>
        f[S] = IF S = {} THEN 0 ELSE b[First(S)] + f[S \ {First(S)}]
  <2>1. CASE n = 0
    <3>1. [S \in SUBSET D |-> 0] \in [SUBSET D -> Int]
      OBVIOUS
    <3>2. \A S \in SUBSET D : ~(Cardinality(S) < n)
      <4>1. ASSUME NEW S \in SUBSET D PROVE Cardinality(S) \in Nat
        BY Fewer
      <4> QED BY <2>1, <4>1
    <3> QED BY <3>1, <3>2, Zenon
  <2>2. CASE n # 0
    <3>1. n - 1 \in Nat /\ ~None(n - 1)
      <4>1. n - 1 \in Nat /\ ~(n <= n - 1)
        BY <1>4, <2>2
      <4> HIDE DEF None
      <4>2. n - 1 \in Nat /\ n - 1 \notin T
        <5> HIDE DEF T
        <5> QED BY <1>3, <4>1
      <4> QED BY <4>2
    <3>2. PICK f \in [SUBSET D -> Int] : Adds(b, D, n - 1, f)
      BY <3>1, Zenon
    <3>3. ASSUME NEW S \in SUBSET D, Cardinality(S) < n PROVE Cardinality(S) <= n - 1
      <4>1. Cardinality(S) \in Nat
        BY Fewer
      <4> QED BY <1>4, <3>3, <4>1
    <3> QED BY <3>2, <3>3, Zenon DEF Adds
  <2> QED BY <2>1, <2>2
<1>6. PICK f \in [SUBSET D -> Int] : \A S \in SUBSET D : Cardinality(S) < n =>
        f[S] = IF S = {} THEN 0 ELSE b[First(S)] + f[S \ {First(S)}]
  BY <1>5
<1> DEFINE More(S) == IF S = {} THEN 0 ELSE b[First(S)] + f[S \ {First(S)}]
           g == [S \in SUBSET D |-> IF Cardinality(S) < n THEN f[S] ELSE More(S)]
<1>7. ASSUME NEW S \in SUBSET D PROVE More(S) \in Int
  <2>1. S # {} => First(S) \in D /\ S \ {First(S)} \in SUBSET D
    BY Fewer
  <2>2. S # {} => b[First(S)] \in Int /\ f[S \ {First(S)}] \in Int
    BY <2>1
  <2> QED BY <2>2
<1>8. g \in [SUBSET D -> Int]
  <2> HIDE DEF More
  <2> QED BY <1>6, <1>7
<1>9. ASSUME NEW S \in SUBSET D, Cardinality(S) <= n
      PROVE  g[S] = IF S = {} THEN 0 ELSE b[First(S)] + g[S \ {First(S)}]
  <2>1. g[S] = More(S)
    <3>1. Cardinality(S) < n => f[S] = More(S)
      BY <1>6
    <3> HIDE DEF More
    <3> QED BY <3>1
  <2>2. ASSUME S # {} PROVE g[S \ {First(S)}] = f[S \ {First(S)}]
    <3>1. /\ Cardinality(S) \in Nat /\ S \ {First(S)} \in SUBSET D
          /\ Cardinality(S \ {First(S)}) = Cardinality(S) - 1
      BY <2>2, Fewer
    <3>2. Cardinality(S \ {First(S)}) < n
      BY <1>4, <1>9, <3>1
    <3> HIDE DEF More
    <3> QED BY <3>1, <3>2
  <2> HIDE DEF g
  <2> QED BY <2>1, <2>2
<1>10. Adds(b, D, n, g)
  <2> HIDE DEF g
  <2> QED BY <1>9 DEF Adds
<1> QED BY <1>4, <1>8, <1>10

\* The sums of the members of a finite set.
SumsOf(b, D) ==
  LET iter[S \in SUBSET D] == IF S = {} THEN 0 ELSE LET x == CHOOSE x \in S : TRUE IN b[x] + iter[S \ {x}]
  IN  iter

\* They are what summing one member after another gives.
LEMMA SumsOfIs ==
  ASSUME NEW D, IsFiniteSet(D), NEW b \in [D -> Int]
  PROVE  \A S \in SUBSET D :
           SumsOf(b, D)[S] = IF S = {} THEN 0 ELSE b[First(S)] + SumsOf(b, D)[S \ {First(S)}]
<1> DEFINE R(f) == f = [S \in SUBSET D |-> IF S = {} THEN 0 ELSE LET x == CHOOSE x \in S : TRUE IN b[x] + f[S \ {x}]]
<1>1. SumsOf(b, D) = CHOOSE f : R(f)
  BY Zenon DEF SumsOf
<1>2. PICK f \in [SUBSET D -> Int] : Adds(b, D, Cardinality(D), f)
  BY SumsExist
<1>3. ASSUME NEW S \in SUBSET D
      PROVE  f[S] = IF S = {} THEN 0 ELSE b[First(S)] + f[S \ {First(S)}]
  <2>1. Cardinality(S) <= Cardinality(D)
    BY FS_Subset
  <2> QED BY <1>2, <2>1, Zenon DEF Adds
<1>4. f = [S \in SUBSET D |-> IF S = {} THEN 0 ELSE b[First(S)] + f[S \ {First(S)}]]
  BY <1>3, Zenon
<1>5. R(f)
  BY <1>4, Zenon DEF First
<1>6. R(SumsOf(b, D))
  <2> HIDE DEF R
  <2> QED BY <1>1, <1>5, Zenon
<1>7. ASSUME NEW S \in SUBSET D
      PROVE  SumsOf(b, D)[S] = IF S = {} THEN 0 ELSE b[First(S)] + SumsOf(b, D)[S \ {First(S)}]
  BY <1>6, Zenon DEF First
<1> QED BY <1>7

\* When the balance of one member changes, the sum changes by as much.
LEMMA SumChanges ==
  ASSUME NEW D, IsFiniteSet(D), NEW b \in [D -> Int], NEW a \in D, NEW v \in Int,
         NEW c \in [D -> Int], \A x \in D : c[x] = b[x] + (IF x = a THEN v ELSE 0)
  PROVE  SumsOf(c, D)[D] \in Int /\ SumsOf(b, D)[D] \in Int /\ SumsOf(c, D)[D] = SumsOf(b, D)[D] + v
<1> DEFINE B == SumsOf(b, D)
           C == SumsOf(c, D)
           Right(S) == B[S] \in Int /\ C[S] \in Int /\ C[S] = B[S] + (IF a \in S THEN v ELSE 0)
           Wrong == {S \in SUBSET D : ~Right(S)}
           T == {Cardinality(S) : S \in Wrong}
<1>1. c \in [D -> Int] /\ \A x \in D : c[x] = b[x] + (IF x = a THEN v ELSE 0)
  OBVIOUS
<1>2. \A S \in SUBSET D : B[S] = IF S = {} THEN 0 ELSE b[First(S)] + B[S \ {First(S)}]
  BY SumsOfIs
<1>3. \A S \in SUBSET D : C[S] = IF S = {} THEN 0 ELSE c[First(S)] + C[S \ {First(S)}]
  BY <1>1, SumsOfIs
<1> HIDE DEF B, C
<1>4. Wrong = {}
  <2>1. SUFFICES ASSUME Wrong # {} PROVE FALSE
    OBVIOUS
  <2>2. T # {} /\ T \subseteq Nat
    <3>1. \A S \in SUBSET D : Cardinality(S) \in Nat
      BY Fewer
    <3>2. Wrong \subseteq SUBSET D
      OBVIOUS
    <3> HIDE DEF Wrong
    <3> QED BY <2>1, <3>1, <3>2
  <2>3. PICK m \in T : \A k \in T : m <= k
    <3> HIDE DEF T
    <3> QED BY <2>2, LeastNumber
  <2>4. PICK S \in Wrong : m = Cardinality(S)
    BY <2>3
  <2>5. S \in SUBSET D /\ ~Right(S)
    BY <2>4
  <2>6. S # {}
    <3>1. S = {} => B[S] = 0 /\ C[S] = 0 /\ a \notin S
      BY <1>2, <1>3, <2>5
    <3> QED BY <2>5, <3>1
  <2> DEFINE x == First(S)
             R == S \ {x}
  <2>7. x \in S /\ x \in D /\ R \in SUBSET D /\ Cardinality(R) = Cardinality(S) - 1 /\ Cardinality(S) \in Nat
    BY <2>5, <2>6, Fewer
  <2>8. B[S] = b[x] + B[R] /\ C[S] = c[x] + C[R]
    BY <1>2, <1>3, <2>5, <2>6
  <2>9. Cardinality(R) \notin T
    <3>1. Cardinality(R) < m /\ Cardinality(R) \in Int
      BY <2>4, <2>7
    <3> HIDE DEF T, R
    <3> QED BY <2>2, <2>3, <3>1
  <2>10. Right(R)
    BY <2>7, <2>9
  <2>11. a \in S <=> (x = a \/ a \in R)
    BY <2>7
  <2>12. ~(x = a /\ a \in R)
    OBVIOUS
  <2>13. b[x] \in Int /\ c[x] = b[x] + (IF x = a THEN v ELSE 0)
    BY <1>1, <2>7
  <2> HIDE DEF x, R
  <2>14. Right(S)
    BY <2>8, <2>10, <2>11, <2>12, <2>13
  <2> QED BY <2>5, <2>14
<1>5. Right(D)
  <2> HIDE DEF Right
  <2> QED BY <1>4
<1> QED BY <1>5 DEF B, C

\* What the accounts own between them, as the sum of a function.
LEMMA SupplyIs == ASSUME NEW s PROVE Supply(s) = SumsOf(s.balances, DOMAIN s.balances)[DOMAIN s.balances]
BY Zenon DEF Supply, SumsOf, MapThenSumSet, MapThenFoldSet

-----------------------------------------------------------------------------
(***************************************************************************)
(* Value                                                                   *)
(***************************************************************************)

\* b when one member has given v to another, or to itself.
Given(b, from, to, v) ==
  LET paid == [b EXCEPT ![from] = @ - v]
  IN  [paid EXCEPT ![to] = @ + v]

\* It stays in the sum.
LEMMA SumMoves ==
  ASSUME NEW D, IsFiniteSet(D), NEW b \in [D -> Int], NEW from \in D, NEW to \in D, NEW v \in Nat
  PROVE  /\ Given(b, from, to, v) \in [D -> Int]
         /\ SumsOf(Given(b, from, to, v), D)[D] = SumsOf(b, D)[D]
<1> DEFINE paid == [b EXCEPT ![from] = @ - v]
           got  == [paid EXCEPT ![to] = @ + v]
<1>1. paid \in [D -> Int] /\ \A x \in D : paid[x] = b[x] + (IF x = from THEN 0 - v ELSE 0)
  OBVIOUS
<1> HIDE DEF paid
<1>2. got \in [D -> Int] /\ \A x \in D : got[x] = paid[x] + (IF x = to THEN v ELSE 0)
  BY <1>1
<1> HIDE DEF got
<1> DEFINE w == 0 - v
<1>3. w \in Int /\ v \in Int /\ \A x \in D : paid[x] = b[x] + (IF x = from THEN w ELSE 0)
  BY <1>1
<1> HIDE DEF w
<1>4. SumsOf(paid, D)[D] = SumsOf(b, D)[D] + w
  BY <1>1, <1>3, SumChanges
<1>5. SumsOf(got, D)[D] = SumsOf(paid, D)[D] + v
  BY <1>1, <1>2, <1>3, SumChanges
<1>6. SumsOf(b, D)[D] \in Int
  <2>1. \A x \in D : b[x] = b[x] + (IF x = from THEN 0 ELSE 0)
    OBVIOUS
  <2>2. SumsOf(b, D)[D] = SumsOf(b, D)[D] + 0 /\ SumsOf(b, D)[D] \in Int
    BY <2>1, SumChanges
  <2> QED BY <2>2
<1>7. SumsOf(got, D)[D] = SumsOf(b, D)[D]
  BY <1>4, <1>5, <1>6 DEF w
<1> QED BY <1>2, <1>7 DEF paid, got, Given

\* Whoever pays and whoever is paid, one or two, there is as much as before.
LEMMA MovedSupply ==
  ASSUME NEW s \in LedgerState, NEW from \in Accounts \cup Nobody, NEW to \in Accounts \cup Nobody, NEW v \in Nat
  PROVE  Supply(Moved(s, from, to, v)) = Supply(s)
<1> DEFINE D == Accounts \cup Nobody
           got == Given(s.balances, from, to, v)
<1>1. IsFiniteSet(D)
  <2>1. IsFiniteSet({"None"}) /\ IsFiniteSet({""})
    BY FS_Singleton
  <2>2. IsFiniteSet({"None"} \cup {""})
    BY <2>1, FS_Union
  <2>3. Nobody = {"None"} \cup {""}
    BY DEF Nobody
  <2>4. IsFiniteSet(Nobody) /\ IsFiniteSet(Accounts)
    BY <2>2, <2>3, LedgerAssumption
  <2> QED BY <2>4, FS_Union
<1>2. from \in D /\ to \in D
  OBVIOUS
<1>3. s.balances \in [D -> Int]
  BY DEF LedgerState
<1>4. Moved(s, from, to, v).balances = got
  BY DEF Moved, Given, LedgerState
<1> HIDE DEF D
<1>5. got \in [D -> Int] /\ SumsOf(got, D)[D] = SumsOf(s.balances, D)[D]
  BY <1>1, <1>2, <1>3, SumMoves
<1> HIDE DEF got
<1>6. DOMAIN got = D /\ DOMAIN s.balances = D
  BY <1>3, <1>5
<1> QED BY <1>4, <1>5, <1>6, SupplyIs, Zenon

\* Only a transfer moves value.
LEMMA AppliedSupply ==
  ASSUME NEW s \in LedgerState, NEW t \in Txs, NEW nobody \in Nobody
  PROVE  Supply(Counted(Applied(s, t, nobody), t)) = Supply(s)
<1> DEFINE p == Applied(s, t, nobody)
           to == IF To[t] = NoTo THEN nobody ELSE To[t]
<1>2. p \in LedgerState
  <2>1. CASE Kind[t] = "transfer"
    BY <2>1, MovedParts DEF Applied
  <2>2. CASE Kind[t] = "deploy_contract"
    <3> DEFINE c == [s.contracts EXCEPT ![To[t]] = t]
    <3>1. p = [s EXCEPT !.contracts = c]
      BY <2>2 DEF Applied, Deployed, LedgerState
    <3>2. c \in [Accounts -> Txs \cup {NoCode}]
      BY LedgerAssumption DEF LedgerState
    <3> HIDE DEF p, c
    <3> QED BY <3>1, <3>2 DEF LedgerState
  <2>3. CASE Kind[t] = "contract_call"
    BY <2>3 DEF Applied
  <2> QED BY <2>1, <2>2, <2>3, LedgerAssumption DEF Kinds
<1>3. Supply(p) = Supply(s)
  <2>1. CASE Kind[t] = "transfer"
    <3>1. p = Moved(s, From[t], to, Value[t])
      BY <2>1 DEF Applied
    <3>2. From[t] \in Accounts \cup Nobody /\ to \in Accounts \cup Nobody /\ Value[t] \in Nat
      BY LedgerAssumption
    <3> HIDE DEF p, to
    <3> QED BY <3>1, <3>2, MovedSupply
  <2>2. CASE Kind[t] = "deploy_contract"
    <3>1. p.balances = s.balances
      BY <2>2 DEF Applied, Deployed, LedgerState
    <3> HIDE DEF p
    <3> QED BY <3>1, SupplyIs, Zenon
  <2>3. CASE Kind[t] = "contract_call"
    BY <2>3 DEF Applied
  <2> QED BY <2>1, <2>2, <2>3, LedgerAssumption DEF Kinds
<1>4. Counted(p, t).balances = p.balances
  <2> HIDE DEF p
  <2> QED BY <1>2 DEF Counted, LedgerState
<1>5. Supply(Counted(p, t)) = Supply(p)
  <2> HIDE DEF p
  <2> QED BY <1>4, SupplyIs, Zenon
<1> HIDE DEF p
<1> QED BY <1>3, <1>5 DEF p

\* Execution and replay move value and never make or lose any: a transfer to
\* oneself and one without a receiver included, under any accounting.
THEOREM ValueNeitherMadeNorLost == Spec => []SupplyConserved
<1> DEFINE Inv == TypeOK /\ SupplyConserved
<1>1. Init => Inv
  BY InitTyped DEF Init, SupplyConserved
<1>2. Inv /\ [Next]_vars => Inv'
  <2> SUFFICES ASSUME Inv, [Next]_vars PROVE SupplyConserved'
    BY StepTyped
  <2> DEFINE k == Supply(GenesisState)
  <2>0. Supply(state) = k /\ Supply(work) = k /\ Supply(replay) = k /\ Supply(claimed) = k
    BY DEF SupplyConserved
  <2> SUFFICES /\ Supply(state') = k /\ Supply(work') = k
               /\ Supply(replay') = k /\ Supply(claimed') = k
    BY DEF SupplyConserved
  <2> HIDE DEF k
  <2>1. ASSUME NEW t \in Txs, Submit(t) PROVE UNCHANGED <<state, work, replay, claimed>>
    BY <2>1 DEF Submit
  <2>2. ASSUME NEW t \in Txs, Execute(t)
        PROVE  /\ UNCHANGED <<state, claimed>>
               /\ Supply(work') = k /\ Supply(replay') = k
    <3>1. Supply(Executed(work, t)) = k /\ Supply(Replayed(replay, t)) = k
      BY <2>0, AppliedSupply DEF TypeOK, Nobody, Executed, Replayed
    <3>2. /\ UNCHANGED <<state, claimed>>
          /\ \/ work' = Executed(work, t) /\ replay' = Replayed(replay, t)
             \/ UNCHANGED <<work, replay>>
      BY <2>2 DEF Execute
    <3> QED BY <2>0, <3>1, <3>2
  <2>3. ASSUME NEW whose \in {"own", "peer"}, Begin(whose)
        PROVE  UNCHANGED <<state, claimed>> /\ work' = state /\ replay' = state
    BY <2>3 DEF Begin
  <2>4. ASSUME End PROVE claimed' = work /\ state' = replay /\ work' = replay /\ replay' = replay
    BY <2>4 DEF End
  <2>5. ASSUME UNCHANGED vars PROVE UNCHANGED <<state, work, replay, claimed>>
    BY <2>5 DEF vars
  <2> QED BY <2>0, <2>1, <2>2, <2>3, <2>4, <2>5 DEF Next
<1> QED BY <1>1, <1>2, PTL DEF Spec
-----------------------------------------------------------------------------
\* For every finite set of accounts, any transactions in any order, any
\* failures: no value is made or lost, nobody is overdrawn and the nonces an
\* account has spent are 0, 1, ..., each once.
THEOREM AccountsAlwaysSound == Spec => []AccountsSound
<1>1. TypeOK /\ SupplyConserved /\ NoOverdraft /\ NoncesSpentOnce => AccountsSound
  BY DEF AccountsSound
<1> QED BY LedgerTyped, ValueNeitherMadeNorLost, NobodyOverdrawn, NoNonceTwice, <1>1, PTL

\* What a block claims is what its importers end with, and a deployment fails
\* only in the wake of an earlier failure.
THEOREM ReplayAlwaysAgrees == Spec => []ReplayAgrees
<1>1. ClaimedIsServed /\ DeploysFailInWake => ReplayAgrees
  BY DEF ReplayAgrees
<1> QED BY ReplayEndsWhereExecutionDid, DeploysOnlyFollow, <1>1, PTL
-----------------------------------------------------------------------------
(***************************************************************************)
(* More about sums: in whichever order, over whichever names               *)
(***************************************************************************)

\* A set of subsets of a finite set that is not empty has a member that is no
\* more one without any of its elements.
LEMMA LeastSet ==
  ASSUME NEW D, IsFiniteSet(D), NEW W, W \subseteq SUBSET D, W # {}
  PROVE  \E S \in W : \A x \in S : S \ {x} \notin W
<1> DEFINE T == {Cardinality(S) : S \in W}
<1>1. \A S \in W : IsFiniteSet(S) /\ Cardinality(S) \in Nat
  BY FS_Subset, FS_CardinalityType
<1>2. T \subseteq Nat /\ T # {}
  BY <1>1
<1>3. PICK m \in T : \A k \in T : m <= k
  <2> HIDE DEF T
  <2> QED BY <1>2, LeastNumber
<1>4. PICK S \in W : m = Cardinality(S)
  OBVIOUS
<1>5. ASSUME NEW x \in S, S \ {x} \in W PROVE FALSE
  <2>1. Cardinality(S \ {x}) \in T
    BY <1>5
  <2>2. Cardinality(S \ {x}) = Cardinality(S) - 1
    BY <1>1, <1>5, FS_RemoveElement
  <2> HIDE DEF T
  <2> QED BY <1>1, <1>3, <1>4, <2>1, <2>2
<1> QED BY <1>5

\* Every sum is a number.
LEMMA SumsAre ==
  ASSUME NEW D, IsFiniteSet(D), NEW b \in [D -> Int]
  PROVE  \A S \in SUBSET D : SumsOf(b, D)[S] \in Int
<1> DEFINE B == SumsOf(b, D)
           W == {S \in SUBSET D : B[S] \notin Int}
<1>1. \A S \in SUBSET D : B[S] = IF S = {} THEN 0 ELSE b[First(S)] + B[S \ {First(S)}]
  BY SumsOfIs
<1>0. B[{}] = 0
  BY SumsOfIs
<1> HIDE DEF B
<1>2. SUFFICES ASSUME W # {} PROVE FALSE
  BY DEF B
<1>3. PICK S \in W : \A x \in S : S \ {x} \notin W
  <2>1. W \subseteq SUBSET D
    OBVIOUS
  <2> HIDE DEF W
  <2> QED BY <1>2, <2>1, LeastSet
<1>4. S # {}
  BY <1>0
<1>5. First(S) \in S
  BY <1>4, Zenon DEF First
<1>6. PICK x \in S : x = First(S)
  BY <1>5
<1>7. B[S] = b[x] + B[S \ {x}]
  BY <1>1, <1>4, <1>6
<1>8. b[x] \in Int /\ B[S \ {x}] \in Int
  BY <1>3
<1> QED BY <1>7, <1>8

\* Any member may be counted first.
LEMMA SumTakesOut ==
  ASSUME NEW D, IsFiniteSet(D), NEW b \in [D -> Int], NEW S \in SUBSET D, NEW x \in S
  PROVE  SumsOf(b, D)[S] = b[x] + SumsOf(b, D)[S \ {x}]
<1> DEFINE B == SumsOf(b, D)
           Out(R, y) == B[R] = b[y] + B[R \ {y}]
           W == {R \in SUBSET D : \E y \in R : ~Out(R, y)}
<1>1. \A R \in SUBSET D : B[R] = IF R = {} THEN 0 ELSE b[First(R)] + B[R \ {First(R)}]
  BY SumsOfIs
<1>2. \A R \in SUBSET D : B[R] \in Int
  BY SumsAre
<1> HIDE DEF B
<1>3. SUFFICES ASSUME W # {} PROVE FALSE
  BY DEF B
<1>4. PICK R \in W : \A y \in R : R \ {y} \notin W
  <2>1. W \subseteq SUBSET D
    OBVIOUS
  <2> HIDE DEF W
  <2> QED BY <1>3, <2>1, LeastSet
<1>5. R \in SUBSET D
  OBVIOUS
<1>6. PICK y \in R : ~Out(R, y)
  OBVIOUS
<1>7. First(R) \in R
  BY <1>6, Zenon DEF First
<1>8. PICK z \in R : z = First(R)
  BY <1>7
<1>9. B[R] = b[z] + B[R \ {z}]
  BY <1>1, <1>5, <1>6, <1>8
<1>10. y # z
  BY <1>6, <1>9
<1>11. Out(R \ {z}, y) /\ Out(R \ {y}, z)
  <2>1. R \ {z} \notin W /\ R \ {y} \notin W
    BY <1>4
  <2>2. y \in R \ {z} /\ z \in R \ {y} /\ R \ {z} \in SUBSET D /\ R \ {y} \in SUBSET D
    BY <1>10
  <2> HIDE DEF Out
  <2> QED BY <2>1, <2>2
<1>12. (R \ {z}) \ {y} = (R \ {y}) \ {z}
  OBVIOUS
<1>13. PICK v : v = B[(R \ {z}) \ {y}]
  OBVIOUS
<1>14. /\ B[R] = b[z] + B[R \ {z}] /\ B[R \ {z}] = b[y] + v /\ B[R \ {y}] = b[z] + v
       /\ b[y] \in Int /\ b[z] \in Int /\ v \in Int
  <2>1. (R \ {z}) \ {y} \in SUBSET D
    OBVIOUS
  <2>2. v \in Int
    BY <1>2, <1>13, <2>1
  <2> QED BY <1>9, <1>11, <1>12, <1>13, <2>2
<1>15. B[R] = b[y] + B[R \ {y}]
  BY <1>14
<1> QED BY <1>6, <1>15

\* A sum of numbers that are not negative is none, and no less than any of them.
LEMMA SumBounds ==
  ASSUME NEW D, IsFiniteSet(D), NEW b \in [D -> Nat]
  PROVE  \A S \in SUBSET D : SumsOf(b, D)[S] \in Nat /\ \A x \in S : b[x] <= SumsOf(b, D)[S]
<1> DEFINE B == SumsOf(b, D)
           W == {S \in SUBSET D : B[S] \notin Nat}
<1>1. b \in [D -> Int]
  OBVIOUS
<1>2. \A S \in SUBSET D : \A x \in S : B[S] = b[x] + B[S \ {x}]
  BY <1>1, SumTakesOut
<1>3. B[{}] = 0
  BY <1>1, SumsOfIs
<1> HIDE DEF B
<1>4. W = {}
  <2>1. SUFFICES ASSUME W # {} PROVE FALSE
    OBVIOUS
  <2>2. PICK S \in W : \A x \in S : S \ {x} \notin W
    <3>1. W \subseteq SUBSET D
      OBVIOUS
    <3> HIDE DEF W
    <3> QED BY <2>1, <3>1, LeastSet
  <2>3. PICK x \in S : TRUE
    BY <1>3
  <2>4. B[S] = b[x] + B[S \ {x}] /\ b[x] \in Nat
    BY <1>2
  <2>5. B[S \ {x}] \in Nat
    BY <2>2
  <2> QED BY <2>4, <2>5
<1>5. \A S \in SUBSET D : B[S] \in Nat
  BY <1>4
<1>6. ASSUME NEW S \in SUBSET D, NEW x \in S PROVE b[x] <= B[S]
  <2>1. B[S] = b[x] + B[S \ {x}] /\ b[x] \in Nat
    BY <1>2
  <2>2. B[S \ {x}] \in Nat
    BY <1>5
  <2> QED BY <2>1, <2>2
<1> QED BY <1>5, <1>6 DEF B

\* The same of all its subsets.
TakesOut(b, B, D) == \A S \in SUBSET D : \A x \in S : B[S] = b[x] + B[S \ {x}]

LEMMA SumsTakeOut ==
  ASSUME NEW D, IsFiniteSet(D), NEW b \in [D -> Int]
  PROVE  TakesOut(b, SumsOf(b, D), D)
<1> SUFFICES ASSUME NEW S \in SUBSET D, NEW x \in S
             PROVE  SumsOf(b, D)[S] = b[x] + SumsOf(b, D)[S \ {x}]
  BY DEF TakesOut
<1> QED BY SumTakesOut

\* g gives the members of D other names, and c counts what b does.
Renames(g, D, E, b, c) ==
  /\ g \in [D -> E] /\ \A x \in D : c[g[x]] = b[x]
  /\ \A x \in D : \A y \in D : g[x] = g[y] => x = y

\* The sum does not depend on what its members are called.
LEMMA SumMapped ==
  ASSUME NEW D, IsFiniteSet(D), NEW b \in [D -> Int], NEW E, IsFiniteSet(E), NEW c \in [E -> Int],
         NEW g, Renames(g, D, E, b, c), NEW S \in SUBSET D
  PROVE  SumsOf(c, E)[{g[x] : x \in S}] = SumsOf(b, D)[S]
<1> DEFINE B == SumsOf(b, D)
           C == SumsOf(c, E)
           Named(R) == {g[x] : x \in R}
           W == {R \in SUBSET D : C[Named(R)] # B[R]}
<1>1. TakesOut(b, B, D)
  BY SumsTakeOut
<1>2. TakesOut(c, C, E)
  BY SumsTakeOut
<1>3. B[{}] = 0 /\ C[{}] = 0
  BY SumsOfIs
<1> HIDE DEF B, C
<1>4. SUFFICES ASSUME W # {} PROVE FALSE
  BY DEF B, C
<1>5. PICK R \in W : \A x \in R : R \ {x} \notin W
  <2>1. W \subseteq SUBSET D
    OBVIOUS
  <2> HIDE DEF W
  <2> QED BY <1>4, <2>1, LeastSet
<1>6. PICK x \in R : TRUE
  BY <1>3
<1>7. Named(R) \in SUBSET E /\ g[x] \in Named(R) /\ Named(R) \ {g[x]} = Named(R \ {x}) /\ c[g[x]] = b[x]
  BY DEF Renames
<1>8. C[Named(R \ {x})] = B[R \ {x}]
  BY <1>5
<1>9. B[R] = b[x] + B[R \ {x}]
  BY <1>1 DEF TakesOut
<1>10. C[Named(R)] = c[g[x]] + C[Named(R) \ {g[x]}]
  <2> HIDE DEF Named
  <2> QED BY <1>2, <1>7 DEF TakesOut
<1> QED BY <1>7, <1>8, <1>9, <1>10

\* Whatever adds one member after another is the sum.
LEMMA SameSum ==
  ASSUME NEW D, IsFiniteSet(D), NEW b \in [D -> Int], NEW f,
         \A S \in SUBSET D : f[S] = IF S = {} THEN 0 ELSE b[First(S)] + f[S \ {First(S)}]
  PROVE  f[D] = SumsOf(b, D)[D]
<1> DEFINE B == SumsOf(b, D)
           W == {S \in SUBSET D : f[S] # B[S]}
<1>1. \A S \in SUBSET D : B[S] = IF S = {} THEN 0 ELSE b[First(S)] + B[S \ {First(S)}]
  BY SumsOfIs
<1> HIDE DEF B
<1>2. SUFFICES ASSUME W # {} PROVE FALSE
  BY DEF B
<1>3. PICK S \in W : \A x \in S : S \ {x} \notin W
  <2>1. W \subseteq SUBSET D
    OBVIOUS
  <2> HIDE DEF W
  <2> QED BY <1>2, <2>1, LeastSet
<1>4. S # {}
  BY <1>1
<1>5. First(S) \in S
  BY <1>4, Zenon DEF First
<1>6. PICK x \in S : x = First(S)
  BY <1>5
<1>7. B[S] = b[x] + B[S \ {x}] /\ f[S] = b[x] + f[S \ {x}]
  BY <1>1, <1>4, <1>6
<1>8. f[S \ {x}] = B[S \ {x}]
  BY <1>3
<1> QED BY <1>7, <1>8
-----------------------------------------------------------------------------
(***************************************************************************)
(* Remainders                                                              *)
(***************************************************************************)

\* A number is a multiple and a remainder, in one way.
LEMMA DivMod ==
  ASSUME NEW n \in Nat \ {0}, NEW x \in Nat
  PROVE  x % n \in 0 .. n - 1 /\ x \div n \in Nat /\ x = (x \div n) * n + (x % n)
OBVIOUS

LEMMA DivModOf ==
  ASSUME NEW n \in Nat \ {0}, NEW q \in Int, NEW r \in 0 .. n - 1
  PROVE  (q * n + r) % n = r /\ (q * n + r) \div n = q
<1>1. (q * n + r) % n = r
  OBVIOUS
<1>2. (q * n + r) \div n = q
  OBVIOUS
<1> QED BY <1>1, <1>2

\* The remainder of the next number.
LEMMA NextMod ==
  ASSUME NEW n \in Nat \ {0}, NEW x \in Nat
  PROVE  /\ (x + 1) % n = IF x % n = n - 1 THEN 0 ELSE (x % n) + 1
         /\ (x + 1) \div n = IF x % n = n - 1 THEN (x \div n) + 1 ELSE x \div n
<1>1. PICK q \in Nat, r \in 0 .. n - 1 : q = x \div n /\ r = x % n /\ x = q * n + r
  BY DivMod
<1>2. CASE r = n - 1
  <2>1. q + 1 \in Int /\ 0 \in 0 .. n - 1
    OBVIOUS
  <2>2. ((q + 1) * n + 0) % n = 0 /\ ((q + 1) * n + 0) \div n = q + 1
    BY <2>1, DivModOf
  <2>3. x + 1 = (q + 1) * n + 0
    BY <1>1, <1>2
  <2> QED BY <1>1, <1>2, <2>2, <2>3
<1>3. CASE r # n - 1
  <2>1. q \in Int /\ r + 1 \in 0 .. n - 1
    BY <1>3
  <2>2. (q * n + (r + 1)) % n = r + 1 /\ (q * n + (r + 1)) \div n = q
    BY <2>1, DivModOf
  <2>3. x + 1 = q * n + (r + 1)
    BY <1>1
  <2> QED BY <1>1, <1>3, <2>2, <2>3
<1> QED BY <1>2, <1>3

\* A larger multiple is larger, whatever is added to either.
LEMMA TimesMore ==
  ASSUME NEW T \in Nat \ {0}, NEW h \in Nat, NEW k \in Nat, h > k, NEW v \in 1 .. T, NEW w \in 0 .. T
  PROVE  h * T + v > k * T + w
OBVIOUS
-----------------------------------------------------------------------------
(***************************************************************************)
(* Module Proposers: the validators and their weights                      *)
(***************************************************************************)

\* A finite set of validators, each with a weight that counts.
Weights(w) ==
  /\ IsFiniteSet(DOMAIN w) /\ w = [v \in DOMAIN w |-> w[v]]
  /\ \A v \in DOMAIN w : w[v] \in Nat \ {0}

\* Numbers, as they are before too little is dropped.
Amounts(w) == IsFiniteSet(DOMAIN w) /\ \A v \in DOMAIN w : w[v] \in Int

\* What is left of at least one each.
LEMMA AtLeastWeights ==
  ASSUME NEW w, Amounts(w), NEW m \in Int
  PROVE  Weights(AtLeast(w, Lowest(m)))
<1> DEFINE l == Lowest(m)
           D == {u \in DOMAIN w : w[u] >= l}
<1>1. l \in Int /\ l >= 1
  BY DEF Lowest
<1> HIDE DEF l
<1>2. D \subseteq DOMAIN w /\ IsFiniteSet(D)
  BY FS_Subset DEF Amounts
<1>3. \A v \in D : w[v] \in Nat \ {0}
  BY <1>1 DEF Amounts
<1>4. AtLeast(w, l) = [v \in D |-> w[v]]
  BY DEF AtLeast
<1> HIDE DEF D
<1> QED BY <1>2, <1>3, <1>4 DEF Weights, l

\* What is summed of the delegations of one delegate is a number.
LEMMA DelegatedAmounts ==
  ASSUME NEW c \in Configs
  PROVE  Amounts(Delegated(c))
<1> DEFINE s == c.delegations
           N == 1 .. Len(s)
           counts(r) == r.stake > 0 /\ (c.delegates = {} \/ r.delegate \in c.delegates)
           who == {s[i].delegate : i \in {j \in DOMAIN s : counts(s[j])}}
           F(d) == FoldSeq(LAMBDA r, acc : (IF counts(r) /\ r.delegate = d THEN r.stake ELSE 0) + acc, 0, s)
<1>1. Len(s) \in Nat /\ DOMAIN s = N /\ \A i \in N : s[i].stake \in Int
  BY ConfigsAssumption
<1>2. IsFiniteSet(N)
  BY <1>1, FS_Interval
<1>3. Delegated(c) = [d \in who |-> F(d)]
  BY Zenon DEF Delegated
<1>4. ASSUME NEW d \in who PROVE F(d) \in Int
  <2> DEFINE term(i) == IF counts(s[i]) /\ s[i].delegate = d THEN s[i].stake ELSE 0
             b == [i \in N |-> term(i)]
             R(f) == f = [S \in SUBSET N |-> IF S = {} THEN 0 ELSE LET x == CHOOSE x \in S : TRUE IN term(x) + f[S \ {x}]]
  <2>1. F(d) = (CHOOSE f : R(f))[N]
    BY <1>1, Zenon DEF FoldSeq, FoldFunction, FoldFunctionOnSet, MapThenFoldSet
  <2>2. b \in [N -> Int]
    BY <1>1
  <2>3. \A x \in N : b[x] = term(x)
    OBVIOUS
  <2>4. \A S \in SUBSET N : SumsOf(b, N)[S] = IF S = {} THEN 0 ELSE b[First(S)] + SumsOf(b, N)[S \ {First(S)}]
    BY <1>2, <2>2, SumsOfIs
  <2>5. SumsOf(b, N)[N] \in Int
    BY <1>2, <2>2, SumsAre
  <2> HIDE DEF b, term, N
  <2>6. ASSUME NEW S \in SUBSET N, S # {} PROVE First(S) \in N
    BY <2>6, Zenon DEF First
  <2> DEFINE f == [S \in SUBSET N |-> SumsOf(b, N)[S]]
  <2>7. R(f)
    <3>1. ASSUME NEW S \in SUBSET N
          PROVE  f[S] = IF S = {} THEN 0 ELSE term(First(S)) + f[S \ {First(S)}]
      <4>1. S \ {First(S)} \in SUBSET N
        OBVIOUS
      <4> QED BY <2>3, <2>4, <2>6, <4>1
    <3>2. f = [S \in SUBSET N |-> IF S = {} THEN 0 ELSE term(First(S)) + f[S \ {First(S)}]]
      BY <3>1, Zenon
    <3> HIDE DEF f
    <3> QED BY <3>2, Zenon DEF First
  <2> DEFINE g == CHOOSE h : R(h)
  <2>8. R(g)
    <3> HIDE DEF R, f
    <3> QED BY <2>7, Zenon
  <2>9. \A S \in SUBSET N : g[S] = IF S = {} THEN 0 ELSE b[First(S)] + g[S \ {First(S)}]
    <3> HIDE DEF g
    <3>1. ASSUME NEW S \in SUBSET N
          PROVE  g[S] = IF S = {} THEN 0 ELSE term(First(S)) + g[S \ {First(S)}]
      BY <2>8, Zenon DEF First
    <3> QED BY <2>3, <2>6, <3>1
  <2> HIDE DEF R, g
  <2>10. g[N] = SumsOf(b, N)[N]
    BY <1>2, <2>2, <2>9, SameSum
  <2> QED BY <2>1, <2>5, <2>10 DEF g
<1>5. IsFiniteSet(who)
  <2> DEFINE J == {j \in DOMAIN s : counts(s[j])}
  <2>1. IsFiniteSet(J)
    BY <1>1, <1>2, FS_Subset
  <2> DEFINE h == [j \in J |-> s[j].delegate]
  <2>2. h \in Surjection(J, who)
    BY DEF Surjection
  <2> QED BY <2>1, <2>2, FS_Surjection
<1> HIDE DEF F, who
<1> QED BY <1>3, <1>4, <1>5 DEF Amounts

\* Whatever the engine, it has validators with weights only.
LEMMA ValidatorWeights ==
  ASSUME NEW c \in Configs
  PROVE  Weights(ValidatorSet(c))
<1>1. /\ c.mode \in {"pos", "dpos", "dev"} /\ c.minimum \in Int
      /\ IsFiniteSet(DOMAIN c.validators) /\ c.validators \in [DOMAIN c.validators -> Int]
  BY ConfigsAssumption
<1>2. Amounts(c.validators)
  BY <1>1 DEF Amounts
<1>3. Amounts(Active(c))
  <2> DEFINE D == {u \in DOMAIN c.validators : c.validators[u] > 0 /\ (c.delegates = {} \/ u \in c.delegates)}
  <2>1. D \subseteq DOMAIN c.validators /\ IsFiniteSet(D)
    BY <1>1, FS_Subset
  <2>2. Active(c) = [v \in D |-> c.validators[v]]
    BY DEF Active
  <2>3. \A v \in D : c.validators[v] \in Int
    BY <1>1
  <2> HIDE DEF D
  <2> QED BY <2>1, <2>2, <2>3 DEF Amounts
<1>4. Amounts(IF DOMAIN Delegated(c) = {} THEN Active(c) ELSE Delegated(c))
  BY <1>3, DelegatedAmounts
<1>5. Weights(PoSSet(c)) /\ Weights(DPoSSet(c))
  BY <1>1, <1>2, <1>4, AtLeastWeights DEF PoSSet, DPoSSet
<1>6. Weights(DevSet(c))
  <2>1. Lowest(1) = 1
    BY DEF Lowest
  <2>2. Weights(AtLeast(c.validators, 1))
    BY <1>2, <2>1, AtLeastWeights
  <2>3. Weights([v \in {"dev-validator"} |-> 1])
    <3>1. \A D : IsFiniteSet(D) => Weights([v \in D |-> 1])
      BY DEF Weights
    <3>2. IsFiniteSet({"dev-validator"})
      BY FS_Singleton
    <3> QED BY <3>1, <3>2
  <2> QED BY <2>2, <2>3 DEF DevSet
<1> QED BY <1>1, <1>5, <1>6 DEF ValidatorSet
-----------------------------------------------------------------------------
(***************************************************************************)
(* The validators in their order, and how far their weights reach.  What   *)
(* module Proposers says of config is said here of any validator set.      *)
(***************************************************************************)
SortedOf(w) == SetToSeq(DOMAIN w)
CursorOf(w, i) == FoldSeq(LAMBDA v, acc : w[v] + acc, 0, SubSeq(SortedOf(w), 1, i))
ByWeightOf(w, pick) ==
  SortedOf(w)[IF \E k \in DOMAIN SortedOf(w) : pick < CursorOf(w, k)
              THEN CHOOSE k \in DOMAIN SortedOf(w) :
                     pick < CursorOf(w, k) /\ (k = 1 \/ ~(pick < CursorOf(w, k - 1)))
              ELSE Len(SortedOf(w))]
InTurnOf(w, slot) == SortedOf(w)[1 + (slot % Len(SortedOf(w)))]
SelectOf(c, seed) ==
  IF c.mode = "dev" THEN InTurnOf(ValidatorSet(c), seed)
  ELSE ByWeightOf(ValidatorSet(c), seed % TotalOf(ValidatorSet(c)))

\* s lists the members of D, each once.
Enumerates(s, n, D) ==
  /\ s \in [1 .. n -> D] /\ Len(s) = n
  /\ \A i \in 1 .. n : \A j \in 1 .. n : s[i] = s[j] => i = j
  /\ \A v \in D : \E i \in 1 .. n : s[i] = v

\* There is such a list of every finite set, so that SetToSeq is one.
LEMMA SortedIs ==
  ASSUME NEW w, Weights(w), DOMAIN w # {}
  PROVE  \E n \in Nat \ {0} : Enumerates(SortedOf(w), n, DOMAIN w)
<1> DEFINE D == DOMAIN w
           n == Cardinality(D)
           s == SortedOf(w)
<1>1. IsFiniteSet(D) /\ D # {}
  BY DEF Weights
<1>2. n \in Nat /\ ExistsBijection(1 .. n, D)
  BY <1>1, FS_CardinalityType
<1>3. n # 0
  BY <1>1, FS_EmptySet
<1>4. PICK f \in Bijection(1 .. n, D) : TRUE
  BY <1>2 DEF ExistsBijection
<1>5. f \in [1 .. n -> D] /\ IsInjective(f)
  BY <1>4 DEF Bijection, Injection, IsInjective
<1>6. s = CHOOSE g \in [1 .. n -> D] : IsInjective(g)
  BY Zenon DEF SortedOf, SetToSeq
<1> HIDE DEF s, n, D
<1>7. s \in [1 .. n -> D] /\ IsInjective(s)
  BY <1>5, <1>6, Zenon
<1>8. \A i \in 1 .. n : \A j \in 1 .. n : s[i] = s[j] => i = j
  BY <1>7 DEF IsInjective
<1>9. s \in Injection(1 .. n, D)
  BY <1>7, <1>8 DEF Injection
<1>10. IsFiniteSet(1 .. n) /\ Cardinality(1 .. n) = n
  BY <1>2, FS_Interval
<1>11. n = Cardinality(D)
  BY DEF n
<1>12. s \in Surjection(1 .. n, D)
  BY <1>1, <1>9, <1>10, <1>11, FS_Injection
<1>13. \A v \in D : \E i \in 1 .. n : s[i] = v
  BY <1>12 DEF Surjection
<1>14. Len(s) = n
  BY <1>2, <1>7
<1>15. Enumerates(s, n, D)
  BY <1>7, <1>8, <1>13, <1>14 DEF Enumerates
<1> QED BY <1>2, <1>3, <1>15 DEF s, D

\* The total is the sum over the validators.
LEMMA TotalIs ==
  ASSUME NEW w
  PROVE  TotalOf(w) = SumsOf(w, DOMAIN w)[DOMAIN w]
BY Zenon DEF TotalOf, SumsOf, FoldFunction, FoldFunctionOnSet, MapThenFoldSet

\* A cursor is the sum over the first i of them.
LEMMA CursorIs ==
  ASSUME NEW w, Weights(w), NEW n \in Nat \ {0}, Enumerates(SortedOf(w), n, DOMAIN w), NEW i \in 0 .. n
  PROVE  CursorOf(w, i) = SumsOf([j \in 1 .. n |-> w[SortedOf(w)[j]]], 1 .. n)[1 .. i]
<1> DEFINE s == SortedOf(w)
           N == 1 .. i
           q == SubSeq(s, 1, i)
           b == [j \in N |-> w[q[j]]]
           c == [j \in 1 .. n |-> w[s[j]]]
           R(f) == f = [S \in SUBSET N |-> IF S = {} THEN 0 ELSE LET x == CHOOSE x \in S : TRUE IN w[q[x]] + f[S \ {x}]]
<1>1. s \in [1 .. n -> DOMAIN w] /\ Len(s) = n /\ s \in Seq(DOMAIN w)
  BY DEF Enumerates
<1>2. DOMAIN q = N /\ \A j \in N : q[j] = s[j] /\ q[j] \in DOMAIN w
  BY <1>1
<1>3. CursorOf(w, i) = (CHOOSE f : R(f))[N]
  BY <1>2, Zenon DEF CursorOf, FoldSeq, FoldFunction, FoldFunctionOnSet, MapThenFoldSet
<1>4. \A v \in DOMAIN w : w[v] \in Int
  BY DEF Weights
<1> HIDE DEF s, q
<1>5. b \in [N -> Int] /\ c \in [1 .. n -> Int]
  BY <1>1, <1>2, <1>4
<1>6. IsFiniteSet(N) /\ IsFiniteSet(1 .. n)
  BY FS_Interval
<1>7. \A S \in SUBSET N : SumsOf(b, N)[S] = IF S = {} THEN 0 ELSE b[First(S)] + SumsOf(b, N)[S \ {First(S)}]
  BY <1>5, <1>6, SumsOfIs
<1>8. \A x \in N : b[x] = w[q[x]]
  OBVIOUS
<1> DEFINE id == [j \in N |-> j]
<1>9. Renames(id, N, 1 .. n, b, c)
  BY <1>2 DEF Renames
<1>10. SumsOf(c, 1 .. n)[{id[x] : x \in N}] = SumsOf(b, N)[N]
  <2>1. N \in SUBSET N
    OBVIOUS
  <2> DEFINE M == 1 .. n
  <2>2. IsFiniteSet(N) /\ IsFiniteSet(M) /\ b \in [N -> Int] /\ c \in [M -> Int] /\ Renames(id, N, M, b, c)
    BY <1>5, <1>6, <1>9
  <2> HIDE DEF b, c, N, M, id
  <2>3. SumsOf(c, M)[{id[x] : x \in N}] = SumsOf(b, N)[N]
    BY <2>1, <2>2, SumMapped
  <2> QED BY <2>3 DEF M
<1>11. {id[x] : x \in N} = N
  OBVIOUS
<1>12. ASSUME NEW S \in SUBSET N, S # {} PROVE First(S) \in N
  <2> HIDE DEF N
  <2> QED BY <1>12, Zenon DEF First
<1> HIDE DEF b, c, N
<1> DEFINE f == [S \in SUBSET N |-> SumsOf(b, N)[S]]
<1>13. R(f)
  <2>1. ASSUME NEW S \in SUBSET N
        PROVE  f[S] = IF S = {} THEN 0 ELSE w[q[First(S)]] + f[S \ {First(S)}]
    <3>1. S \ {First(S)} \in SUBSET N
      OBVIOUS
    <3> QED BY <1>7, <1>8, <1>12, <3>1
  <2>2. f = [S \in SUBSET N |-> IF S = {} THEN 0 ELSE w[q[First(S)]] + f[S \ {First(S)}]]
    BY <2>1, Zenon
  <2> HIDE DEF f
  <2> QED BY <2>2, Zenon DEF First
<1> DEFINE g == CHOOSE h : R(h)
<1>14. R(g)
  <2> HIDE DEF R, f
  <2> QED BY <1>13, Zenon
<1>15. \A S \in SUBSET N : g[S] = IF S = {} THEN 0 ELSE b[First(S)] + g[S \ {First(S)}]
  <2> HIDE DEF g
  <2>1. ASSUME NEW S \in SUBSET N
        PROVE  g[S] = IF S = {} THEN 0 ELSE w[q[First(S)]] + g[S \ {First(S)}]
    BY <1>14, Zenon DEF First
  <2> QED BY <1>8, <1>12, <2>1
<1> HIDE DEF R, g
<1>16. g[N] = SumsOf(b, N)[N]
  BY <1>5, <1>6, <1>15, SameSum
<1>17. CursorOf(w, i) = g[N]
  BY <1>3 DEF g
<1>18. CursorOf(w, i) = SumsOf(c, 1 .. n)[N]
  BY <1>10, <1>11, <1>16, <1>17
<1> QED BY <1>18 DEF c, N, s
\* The cursors start at none, grow by the weight of each, and end at the total.
LEMMA Cursors ==
  ASSUME NEW w, Weights(w), NEW n \in Nat \ {0}, Enumerates(SortedOf(w), n, DOMAIN w)
  PROVE  /\ \A i \in 0 .. n : CursorOf(w, i) \in Nat
         /\ CursorOf(w, 0) = 0 /\ CursorOf(w, n) = TotalOf(w)
         /\ \A i \in 1 .. n : CursorOf(w, i) = CursorOf(w, i - 1) + w[SortedOf(w)[i]]
<1> DEFINE s == SortedOf(w)
           N == 1 .. n
           D == DOMAIN w
           c == [j \in N |-> w[s[j]]]
           B == SumsOf(c, N)
<1>1. s \in [N -> D] /\ \A v \in D : \E i \in N : s[i] = v
  BY DEF Enumerates
<1>2. \A v \in D : w[v] \in Nat /\ w[v] \in Int
  BY DEF Weights
<1>3. IsFiniteSet(N)
  BY FS_Interval
<1>4. IsFiniteSet(D) /\ w \in [D -> Int]
  BY <1>2 DEF Weights
<1>5. \A i \in 0 .. n : CursorOf(w, i) = B[1 .. i]
  BY CursorIs
<1> HIDE DEF s
<1>6. c \in [N -> Nat] /\ c \in [N -> Int] /\ \A i \in N : c[i] = w[s[i]]
  BY <1>1, <1>2
<1>7. Renames(s, N, D, c, w)
  BY <1>1, <1>6 DEF Renames, Enumerates, s
<1>8. SumsOf(w, D)[{s[x] : x \in N}] = B[N]
  <2>1. N \in SUBSET N
    OBVIOUS
  <2> HIDE DEF c, N, D
  <2> QED BY <1>3, <1>4, <1>6, <1>7, <2>1, SumMapped
<1>9. {s[x] : x \in N} = D
  BY <1>1
<1>10. TakesOut(c, B, N)
  <2> HIDE DEF c, N
  <2> QED BY <1>3, <1>6, SumsTakeOut
<1>11. \A S \in SUBSET N : B[S] \in Nat
  <2> HIDE DEF c, N
  <2> QED BY <1>3, <1>6, SumBounds
<1>12. B[{}] = 0
  <2> HIDE DEF c, N
  <2> QED BY <1>3, <1>6, SumsOfIs
<1> HIDE DEF B, c
<1>13. ASSUME NEW i \in 1 .. n PROVE CursorOf(w, i) = CursorOf(w, i - 1) + w[s[i]]
  <2>1. CursorOf(w, i) = B[1 .. i] /\ CursorOf(w, i - 1) = B[1 .. (i - 1)]
    BY <1>5
  <2>2. 1 .. i \in SUBSET N /\ i \in 1 .. i /\ (1 .. i) \ {i} = 1 .. (i - 1) /\ 1 .. (i - 1) \in SUBSET N
    OBVIOUS
  <2>3. B[1 .. i] = c[i] + B[1 .. (i - 1)] /\ B[1 .. (i - 1)] \in Nat /\ c[i] \in Nat
    <3>1. B[1 .. i] = c[i] + B[(1 .. i) \ {i}]
      BY <1>10, <2>2 DEF TakesOut
    <3> QED BY <1>6, <1>11, <2>2, <3>1
  <2> QED BY <1>6, <2>1, <2>3
<1>14. \A i \in 0 .. n : CursorOf(w, i) \in Nat
  <2> TAKE i \in 0 .. n
  <2>1. 1 .. i \in SUBSET N
    OBVIOUS
  <2> QED BY <1>5, <1>11, <2>1
<1>15. CursorOf(w, 0) = 0
  <2>1. 1 .. 0 = {}
    OBVIOUS
  <2> QED BY <1>5, <1>12, <2>1
<1>16. CursorOf(w, n) = TotalOf(w)
  BY <1>5, <1>8, <1>9, TotalIs
<1> QED BY <1>13, <1>14, <1>15, <1>16 DEF s

\* What grows at every step grows over several.
LEMMA Growing ==
  ASSUME NEW n \in Nat, NEW p, \A i \in 0 .. n : p[i] \in Nat, \A i \in 1 .. n : p[i - 1] < p[i]
  PROVE  \A i \in 0 .. n : \A j \in 0 .. n : i <= j => p[i] <= p[j]
<1> SUFFICES ASSUME NEW i \in 0 .. n PROVE \A j \in 0 .. n : i <= j => p[i] <= p[j]
  OBVIOUS
<1> DEFINE T == {j \in 0 .. n : i <= j /\ ~(p[i] <= p[j])}
<1>1. SUFFICES ASSUME T # {} PROVE FALSE
  OBVIOUS
<1>2. PICK m \in T : \A k \in T : m <= k
  <2>1. T \subseteq Nat
    OBVIOUS
  <2> HIDE DEF T
  <2> QED BY <1>1, <2>1, LeastNumber
<1>3. m \in 0 .. n /\ i <= m /\ ~(p[i] <= p[m])
  OBVIOUS
<1>4. m # i
  BY <1>3
<1>5. m \in 1 .. n /\ m - 1 \in 0 .. n /\ i <= m - 1
  BY <1>3, <1>4
<1>6. m - 1 \notin T
  BY <1>2, <1>3
<1>7. p[i] <= p[m - 1]
  BY <1>5, <1>6
<1>8. p[m - 1] < p[m] /\ p[i] \in Nat /\ p[m] \in Nat /\ p[m - 1] \in Nat
  BY <1>5
<1> QED BY <1>3, <1>7, <1>8

\* Each draw below the total falls between two cursors.
LEMMA BetweenCursors ==
  ASSUME NEW w, Weights(w), NEW n \in Nat \ {0}, Enumerates(SortedOf(w), n, DOMAIN w),
         NEW x \in Nat, x < TotalOf(w)
  PROVE  \E k \in 1 .. n : CursorOf(w, k - 1) <= x /\ x < CursorOf(w, k)
<1> DEFINE T == {k \in 1 .. n : x < CursorOf(w, k)}
<1>1. n \in T
  BY Cursors
<1>2. PICK m \in T : \A k \in T : m <= k
  <2>1. T \subseteq Nat
    OBVIOUS
  <2> HIDE DEF T
  <2> QED BY <1>1, <2>1, LeastNumber
<1>3. m \in 1 .. n /\ x < CursorOf(w, m) /\ m - 1 \notin T
  BY <1>2
<1>4. CursorOf(w, m - 1) <= x
  <2>1. CASE m = 1
    <3>1. CursorOf(w, 0) = 0
      BY Cursors
    <3> QED BY <2>1, <3>1
  <2>2. CASE m # 1
    <3>1. m - 1 \in 1 .. n /\ CursorOf(w, m - 1) \in Nat
      BY <1>3, <2>2, Cursors
    <3> QED BY <1>3, <3>1
  <2> QED BY <2>1, <2>2
<1> QED BY <1>3, <1>4

\* And the validator there is the one that is drawn.
LEMMA DrawnThere ==
  ASSUME NEW w, Weights(w), NEW n \in Nat \ {0}, Enumerates(SortedOf(w), n, DOMAIN w),
         NEW x \in Nat, NEW k \in 1 .. n, CursorOf(w, k - 1) <= x, x < CursorOf(w, k)
  PROVE  ByWeightOf(w, x) = SortedOf(w)[k]
<1> DEFINE s == SortedOf(w)
           P(j) == x < CursorOf(w, j) /\ (j = 1 \/ ~(x < CursorOf(w, j - 1)))
           p == [i \in 0 .. n |-> CursorOf(w, i)]
<1>1. DOMAIN s = 1 .. n
  BY DEF Enumerates
<1>2. /\ \A i \in 0 .. n : CursorOf(w, i) \in Nat
      /\ \A i \in 1 .. n : CursorOf(w, i) = CursorOf(w, i - 1) + w[s[i]]
  BY Cursors
<1>3. \A i \in 1 .. n : w[s[i]] \in Nat \ {0}
  BY DEF Enumerates, Weights
<1> HIDE DEF s
<1>4. \A i \in 0 .. n : \A j \in 0 .. n : i <= j => p[i] <= p[j]
  <2>1. \A i \in 0 .. n : p[i] \in Nat
    BY <1>2
  <2>2. \A i \in 1 .. n : p[i - 1] < p[i]
    <3> TAKE i \in 1 .. n
    <3>1. p[i - 1] = CursorOf(w, i - 1) /\ p[i] = CursorOf(w, i) /\ CursorOf(w, i - 1) \in Nat
      BY <1>2
    <3>2. CursorOf(w, i) = CursorOf(w, i - 1) + w[s[i]] /\ w[s[i]] \in Nat \ {0}
      BY <1>2, <1>3
    <3> QED BY <3>1, <3>2
  <2> HIDE DEF p
  <2> QED BY <2>1, <2>2, Growing
<1>5. P(k)
  BY <1>2
<1>6. ASSUME NEW j \in 1 .. n, P(j) PROVE j = k
  <2>1. /\ p[j] = CursorOf(w, j) /\ p[k] = CursorOf(w, k) /\ p[j - 1] = CursorOf(w, j - 1) /\ p[k - 1] = CursorOf(w, k - 1)
        /\ p[j] \in Nat /\ p[k] \in Nat /\ p[j - 1] \in Nat /\ p[k - 1] \in Nat
    BY <1>2
  <2> HIDE DEF p
  <2>2. x < p[j] /\ (j = 1 \/ p[j - 1] <= x) /\ p[k - 1] <= x /\ x < p[k]
    BY <1>6, <2>1
  <2>3. CASE j < k
    <3>1. p[j] <= p[k - 1]
      BY <1>4, <2>3
    <3> QED BY <2>1, <2>2, <3>1
  <2>4. CASE j > k
    <3>1. p[k] <= p[j - 1] /\ j # 1
      BY <1>4, <2>4
    <3> QED BY <2>1, <2>2, <3>1
  <2> QED BY <2>3, <2>4
<1>7. (CHOOSE j \in 1 .. n : P(j)) = k
  <2> HIDE DEF P
  <2>1. (CHOOSE j \in 1 .. n : P(j)) \in 1 .. n /\ P(CHOOSE j \in 1 .. n : P(j))
    BY <1>5, Zenon
  <2> QED BY <1>6, <2>1
<1>8. \E j \in DOMAIN s : x < CursorOf(w, j)
  BY <1>1
<1>9. ByWeightOf(w, x) = s[CHOOSE j \in DOMAIN s : P(j)]
  BY <1>8, Zenon DEF ByWeightOf, s
<1>10. (CHOOSE j \in DOMAIN s : P(j)) = CHOOSE j \in 1 .. n : P(j)
  BY <1>1, Zenon
<1> QED BY <1>7, <1>9, <1>10 DEF s
\* Over as many draws as there is weight each validator is drawn as often as it
\* has weight.
LEMMA TurnsByWeight ==
  ASSUME NEW w, Weights(w), NEW n \in Nat \ {0}, Enumerates(SortedOf(w), n, DOMAIN w),
         NEW p, \A i \in 1 .. TotalOf(w) : p[i] = ByWeightOf(w, (i - 1) % TotalOf(w)), NEW v \in DOMAIN w
  PROVE  Cardinality({i \in 1 .. TotalOf(w) : p[i] = v}) = w[v]
<1> DEFINE s == SortedOf(w)
           A == {i \in 1 .. TotalOf(w) : p[i] = v}
           c == [i \in 0 .. n |-> CursorOf(w, i)]
<1>1. PICK k \in 1 .. n : s[k] = v
  BY DEF Enumerates
<1>2. \A i \in 1 .. n : s[i] \in DOMAIN w
  BY DEF Enumerates
<1>3. /\ \A i \in 0 .. n : CursorOf(w, i) \in Nat
      /\ CursorOf(w, 0) = 0 /\ CursorOf(w, n) = TotalOf(w)
      /\ \A i \in 1 .. n : CursorOf(w, i) = CursorOf(w, i - 1) + w[SortedOf(w)[i]]
  BY Cursors
<1>4. PICK T \in Nat : T = TotalOf(w)
  BY <1>3
<1>5. \A i \in 1 .. n : w[s[i]] \in Nat \ {0}
  BY <1>2 DEF Weights
<1>6. \A i \in 0 .. n : \A j \in 0 .. n : i <= j => c[i] <= c[j]
  <2>1. \A i \in 0 .. n : c[i] \in Nat
    BY <1>3
  <2>2. \A i \in 1 .. n : c[i - 1] < c[i]
    <3> TAKE i \in 1 .. n
    <3>1. c[i - 1] = CursorOf(w, i - 1) /\ c[i] = CursorOf(w, i) /\ CursorOf(w, i - 1) \in Nat
      BY <1>3
    <3>2. CursorOf(w, i) = CursorOf(w, i - 1) + w[s[i]] /\ w[s[i]] \in Nat \ {0}
      BY <1>3, <1>5
    <3>3. \A x \in Nat, y \in Nat \ {0} : x < x + y
      OBVIOUS
    <3> HIDE DEF c, s
    <3> QED BY <3>1, <3>2, <3>3
  <2> HIDE DEF c
  <2> QED BY <2>1, <2>2, Growing
<1>7. PICK a \in Nat, b \in Nat : a = CursorOf(w, k - 1) /\ b = CursorOf(w, k) /\ b = a + w[v] /\ w[v] \in Nat
  BY <1>1, <1>3, <1>5
<1>8. b <= T
  <2>1. c[k] = b /\ c[n] = T /\ k \in 0 .. n /\ n \in 0 .. n /\ k <= n
    <3>1. k \in 0 .. n /\ n \in 0 .. n /\ k <= n
      OBVIOUS
    <3>2. c[k] = CursorOf(w, k) /\ c[n] = CursorOf(w, n)
      BY <3>1
    <3> HIDE DEF c
    <3> QED BY <1>3, <1>4, <1>7, <3>1, <3>2
  <2> HIDE DEF c
  <2> QED BY <1>6, <2>1
<1>9. ASSUME NEW i \in A PROVE i \in a + 1 .. b
  <2>1. i \in 1 .. T /\ i - 1 \in Nat /\ i - 1 < T /\ p[i] = v
    BY <1>4
  <2>2. (i - 1) % T = i - 1
    BY <2>1
  <2>3. p[i] = ByWeightOf(w, i - 1)
    BY <1>4, <2>1, <2>2
  <2>4. PICK l \in 1 .. n : CursorOf(w, l - 1) <= i - 1 /\ i - 1 < CursorOf(w, l)
    BY <1>4, <2>1, BetweenCursors
  <2>5. p[i] = s[l]
    BY <2>1, <2>3, <2>4, DrawnThere
  <2>6. l = k
    BY <1>1, <2>1, <2>5 DEF Enumerates
  <2>7. a <= i - 1 /\ i - 1 < b
    BY <1>7, <2>4, <2>6
  <2> HIDE DEF A
  <2> QED BY <2>1, <2>7
<1>10. ASSUME NEW i \in a + 1 .. b PROVE i \in A
  <2>1. i \in 1 .. T /\ i - 1 \in Nat /\ i - 1 < T
    BY <1>8
  <2>2. (i - 1) % T = i - 1
    BY <2>1
  <2>3. a <= i - 1 /\ i - 1 < b
    OBVIOUS
  <2>4. ByWeightOf(w, i - 1) = s[k]
    BY <1>7, <2>1, <2>3, DrawnThere
  <2> QED BY <1>1, <1>4, <2>1, <2>2, <2>4
<1>11. A = a + 1 .. b
  BY <1>9, <1>10
<1>12. Cardinality(a + 1 .. b) = IF a + 1 > b THEN 0 ELSE b - (a + 1) + 1
  <2>1. a + 1 \in Int /\ b \in Int
    OBVIOUS
  <2> QED BY <2>1, FS_Interval
<1>13. Cardinality(a + 1 .. b) = w[v]
  <2> HIDE DEF A
  <2>1. PICK x \in Nat : x = w[v]
    BY <1>7
  <2> QED BY <1>7, <1>12, <2>1
<1> QED BY <1>11, <1>13

\* Of the numbers up to T one remainder is had at most once more than another.
LEMMA TurnsApart ==
  ASSUME NEW n \in Nat \ {0}, NEW T \in Nat, NEW k \in 1 .. n, NEW m \in 1 .. n
  PROVE  /\ Cardinality({i \in 1 .. T : 1 + ((i - 1) % n) = k}) \in Nat
         /\ Cardinality({i \in 1 .. T : 1 + ((i - 1) % n) = m}) \in Nat
         /\ Cardinality({i \in 1 .. T : 1 + ((i - 1) % n) = k}) <= Cardinality({i \in 1 .. T : 1 + ((i - 1) % n) = m}) + 1
<1> DEFINE A == {i \in 1 .. T : 1 + ((i - 1) % n) = k}
           B == {i \in 1 .. T : 1 + ((i - 1) % n) = m}
           h == [i \in A \ {k} |-> i + (m - k) - n]
<1>1. IsFiniteSet(1 .. T)
  BY FS_Interval
<1>2. IsFiniteSet(A) /\ IsFiniteSet(B)
  BY <1>1, FS_Subset
<1>3. ASSUME NEW i \in A \ {k} PROVE i + (m - k) - n \in B
  <2>1. i \in 1 .. T /\ i - 1 \in Nat /\ (i - 1) % n = k - 1
    <3>1. i \in 1 .. T /\ 1 + ((i - 1) % n) = k /\ i - 1 \in Nat
      OBVIOUS
    <3>2. (i - 1) % n \in 0 .. n - 1
      BY <3>1, DivMod
    <3> QED BY <3>1, <3>2
  <2>2. PICK q \in Nat : i - 1 = q * n + (k - 1)
    BY <2>1, DivMod
  <2>3. q # 0
    BY <2>1, <2>2
  <2>4. (q - 1) * n = q * n - n /\ (q - 1) * n \in Nat
    BY <2>3
  <2>5. PICK z \in Nat : z = (q - 1) * n
    BY <2>4
  <2>6. ((q - 1) * n + (m - 1)) % n = m - 1
    <3>1. q - 1 \in Int /\ m - 1 \in 0 .. n - 1
      OBVIOUS
    <3> QED BY <3>1, DivModOf
  <2>7. (z + (m - 1)) % n = m - 1
    BY <2>5, <2>6
  <2>8. i - 1 = z + n + (k - 1)
    <3>1. PICK y \in Int : y = q * n
      OBVIOUS
    <3> QED BY <2>2, <2>4, <2>5, <3>1
  <2>9. i + (m - k) - n = z + (m - 1) + 1 /\ i + (m - k) - n \in 1 .. T /\ (i + (m - k) - n) - 1 = z + (m - 1)
    BY <2>1, <2>8
  <2>10. 1 + (((i + (m - k) - n) - 1) % n) = m
    BY <2>7, <2>9
  <2> QED BY <2>9, <2>10
<1>4. h \in Injection(A \ {k}, B)
  <2>1. h \in [A \ {k} -> B]
    BY <1>3
  <2>2. \A i \in A \ {k} : i \in Int
    OBVIOUS
  <2>3. \A i \in A \ {k} : \A j \in A \ {k} : h[i] = h[j] => i = j
    BY <2>2
  <2> HIDE DEF h, A, B
  <2> QED BY <2>1, <2>3, Zenon DEF Injection, IsInjective
<1> HIDE DEF A, B, h
<1>5. Cardinality(A \ {k}) <= Cardinality(B)
  BY <1>2, <1>4, FS_Injection
<1>6. Cardinality(A \ {k}) = IF k \in A THEN Cardinality(A) - 1 ELSE Cardinality(A)
  BY <1>2, FS_RemoveElement
<1>7. Cardinality(A) \in Nat /\ Cardinality(B) \in Nat
  BY <1>2, FS_CardinalityType
<1>8. Cardinality(A) <= Cardinality(B) + 1
  BY <1>5, <1>6, <1>7
<1> QED BY <1>7, <1>8 DEF A, B
\* No weight is more than all of them together, which is something.
LEMMA TotalBounds ==
  ASSUME NEW w, Weights(w), DOMAIN w # {}
  PROVE  TotalOf(w) \in Nat \ {0} /\ \A v \in DOMAIN w : w[v] \in 1 .. TotalOf(w)
<1> DEFINE D == DOMAIN w
<1>1. \A v \in D : w[v] \in Nat \ {0}
  BY DEF Weights
<1>2. IsFiniteSet(D) /\ w \in [D -> Nat] /\ D \in SUBSET D
  BY <1>1 DEF Weights
<1>3. TotalOf(w) = SumsOf(w, D)[D]
  BY TotalIs
<1>4. SumsOf(w, D)[D] \in Nat /\ \A v \in D : w[v] <= SumsOf(w, D)[D]
  <2> HIDE DEF D
  <2> QED BY <1>2, SumBounds
<1>5. PICK v \in D : TRUE
  OBVIOUS
<1> QED BY <1>1, <1>3, <1>4, <1>5

-----------------------------------------------------------------------------
(***************************************************************************)
(* Module Proposers: ProposersFair                                         *)
(***************************************************************************)
ScoreOf(c, h, v) ==
  IF c.mode = "dev" THEN h ELSE h * TotalOf(ValidatorSet(c)) + ValidatorSet(c)[v]

\* The operators of the module, of the configuration in force.
LEMMA OfConfig ==
  /\ Sorted = SortedOf(ValidatorSet(config)) /\ TotalStake = TotalOf(ValidatorSet(config))
  /\ \A v : Weight(v) = ValidatorSet(config)[v]
  /\ \A seed : SelectProposer(seed) = SelectOf(config, seed)
  /\ \A h, v : BlockScore(h, v) = ScoreOf(config, h, v)
<1>1. Sorted = SortedOf(ValidatorSet(config)) /\ TotalStake = TotalOf(ValidatorSet(config))
  BY DEF Sorted, SortedOf, TotalStake
<1>2. \A v : Weight(v) = ValidatorSet(config)[v]
  BY DEF Weight
<1>3. ASSUME NEW x PROVE ByWeight(x) = ByWeightOf(ValidatorSet(config), x)
  BY Zenon DEF ByWeight, ByWeightOf, Reached, Cursor, CursorOf, Weight, Sorted, SortedOf
<1>4. ASSUME NEW x PROVE InTurn(x) = InTurnOf(ValidatorSet(config), x)
  BY <1>1, Zenon DEF InTurn, InTurnOf
<1>5. ASSUME NEW seed PROVE SelectProposer(seed) = SelectOf(config, seed)
  BY <1>1, <1>3, <1>4, Zenon DEF SelectProposer, SelectOf
<1>6. ASSUME NEW h, NEW v PROVE BlockScore(h, v) = ScoreOf(config, h, v)
  BY <1>1, <1>2, Zenon DEF BlockScore, StakeScore, ScoreOf
<1> QED BY <1>1, <1>2, <1>5, <1>6

\* Who is selected is a validator.
LEMMA SelectedIs ==
  ASSUME NEW c \in Configs, DOMAIN ValidatorSet(c) # {}, NEW x \in Nat
  PROVE  SelectOf(c, x) \in DOMAIN ValidatorSet(c)
<1> DEFINE w == ValidatorSet(c)
<1>1. Weights(w) /\ DOMAIN w # {}
  BY ValidatorWeights
<1>2. PICK n \in Nat \ {0} : Enumerates(SortedOf(w), n, DOMAIN w)
  BY <1>1, SortedIs
<1>3. SortedOf(w) \in [1 .. n -> DOMAIN w] /\ Len(SortedOf(w)) = n
  BY <1>2 DEF Enumerates
<1>4. CASE c.mode = "dev"
  <2>1. 1 + (x % n) \in 1 .. n
    OBVIOUS
  <2>2. SelectOf(c, x) = SortedOf(w)[1 + (x % n)]
    BY <1>3, <1>4 DEF SelectOf, InTurnOf
  <2> QED BY <1>3, <2>1, <2>2
<1>5. CASE c.mode # "dev"
  <2>1. PICK T \in Nat \ {0} : T = TotalOf(w)
    BY <1>1, TotalBounds
  <2>2. PICK y \in Nat : y = x % T /\ y < T
    BY <2>1
  <2>3. PICK k \in 1 .. n : CursorOf(w, k - 1) <= y /\ y < CursorOf(w, k)
    BY <1>1, <1>2, <2>1, <2>2, BetweenCursors
  <2>4. ByWeightOf(w, y) = SortedOf(w)[k]
    BY <1>1, <1>2, <2>2, <2>3, DrawnThere
  <2>5. SelectOf(c, x) = ByWeightOf(w, y)
    BY <1>5, <2>1, <2>2 DEF SelectOf
  <2> QED BY <1>3, <2>4, <2>5
<1> QED BY <1>4, <1>5

\* The last block of a branch, and what it scores.
Scored(c, d, r) ==
  /\ r.height \in 0 .. d /\ (r.height = 0 => r.score = 0)
  /\ r.height > 0 => r.proposer \in DOMAIN ValidatorSet(c) /\ r.score = ScoreOf(c, r.height, r.proposer)

\* Who has proposed so far, and the branches they have built.
Picks(c, d, p) ==
  /\ p \in Seq(DOMAIN ValidatorSet(c)) /\ Len(p) = d
  /\ \A i \in 1 .. d : p[i] = SelectOf(c, i - 1)

ProposerInv ==
  /\ config \in Configs /\ DOMAIN ValidatorSet(config) # {}
  /\ drawn \in 0 .. TotalOf(ValidatorSet(config))
  /\ Picks(config, drawn, picked)
  /\ DOMAIN branches = {1, 2} /\ \A b \in {1, 2} : Scored(config, drawn, branches[b])

LEMMA ProposerInvInit ==
  ASSUME ProposerInit
  PROVE  ProposerInv
<1>1. config \in Configs /\ DOMAIN ValidatorSet(config) # {} /\ drawn = 0 /\ picked = <<>>
  BY DEF ProposerInit
<1>2. TotalOf(ValidatorSet(config)) \in Nat
  BY <1>1, ValidatorWeights, TotalBounds
<1>3. Picks(config, drawn, picked)
  BY <1>1 DEF Picks
<1>4. DOMAIN branches = {1, 2} /\ \A b \in {1, 2} : Scored(config, drawn, branches[b])
  BY <1>1 DEF ProposerInit, Scored
<1> QED BY <1>1, <1>2, <1>3, <1>4 DEF ProposerInv

\* One more block.
LEMMA ProposerInvNext ==
  ASSUME ProposerInv, NEW b \in {1, 2}, Produce(b)
  PROVE  ProposerInv'
<1>1. PICK c \in Configs : c = config /\ DOMAIN ValidatorSet(c) # {}
  BY DEF ProposerInv
<1>2. PICK T \in Nat \ {0} : T = TotalOf(ValidatorSet(c))
  BY <1>1, ValidatorWeights, TotalBounds
<1>3. PICK d \in 0 .. T : d = drawn /\ d < T /\ drawn' = d + 1 /\ config' = c
  <2>1. drawn < TotalOf(ValidatorSet(config)) /\ drawn' = drawn + 1 /\ config' = config
    BY OfConfig DEF Produce
  <2> QED BY <1>1, <1>2, <2>1 DEF ProposerInv
<1>4. PICK v \in DOMAIN ValidatorSet(c) : v = SelectOf(c, d)
  BY <1>1, <1>3, SelectedIs
<1>5. PICK h \in Nat : h = branches[b].height + 1 /\ h \in 1 .. d + 1
  BY <1>1, <1>3 DEF ProposerInv, Scored
<1>6. /\ branches' = [branches EXCEPT ![b] = [height |-> h, score |-> ScoreOf(c, h, v), proposer |-> v]]
      /\ picked' = Append(picked, v)
  <2>1. SelectProposer(drawn) = v /\ BlockScore(h, v) = ScoreOf(c, h, v)
    BY <1>1, <1>3, <1>4, OfConfig
  <2> QED BY <1>5, <2>1 DEF Produce
<1>7. Picks(c, d + 1, picked')
  <2>1. Picks(c, d, picked)
    BY <1>1, <1>3 DEF ProposerInv
  <2>2. PICK p \in Seq(DOMAIN ValidatorSet(c)) : p = picked /\ Len(p) = d /\ \A i \in 1 .. d : p[i] = SelectOf(c, i - 1)
    BY <2>1 DEF Picks
  <2>3. Append(p, v) \in Seq(DOMAIN ValidatorSet(c)) /\ Len(Append(p, v)) = d + 1
    BY <2>2
  <2>4. \A i \in 1 .. d + 1 : Append(p, v)[i] = IF i = d + 1 THEN v ELSE p[i]
    BY <2>2
  <2>5. \A i \in 1 .. d + 1 : Append(p, v)[i] = SelectOf(c, i - 1)
    <3> TAKE i \in 1 .. d + 1
    <3>1. i # d + 1 => i \in 1 .. d
      OBVIOUS
    <3>2. (d + 1) - 1 = d
      OBVIOUS
    <3> QED BY <1>4, <2>2, <2>4, <3>1, <3>2
  <2> QED BY <1>6, <2>2, <2>3, <2>5 DEF Picks
<1>8. ASSUME NEW a \in {1, 2} PROVE Scored(c, d + 1, branches'[a])
  <2>1. DOMAIN branches = {1, 2} /\ Scored(c, d, branches[a])
    BY <1>1, <1>3 DEF ProposerInv
  <2>2. branches'[a] = IF a = b THEN [height |-> h, score |-> ScoreOf(c, h, v), proposer |-> v] ELSE branches[a]
    BY <1>6, <2>1
  <2>3. CASE a = b
    <3> DEFINE r == [height |-> h, score |-> ScoreOf(c, h, v), proposer |-> v]
    <3>1. r.height = h /\ r.score = ScoreOf(c, h, v) /\ r.proposer = v
      OBVIOUS
    <3>2. branches'[a] = r
      BY <2>2, <2>3
    <3> HIDE DEF r
    <3> QED BY <1>5, <3>1, <3>2 DEF Scored
  <2>4. CASE a # b
    <3>1. branches'[a] = branches[a]
      BY <2>2, <2>4
    <3> QED BY <2>1, <3>1 DEF Scored
  <2> QED BY <2>3, <2>4
<1>9. DOMAIN branches' = {1, 2}
  BY <1>6 DEF ProposerInv
<1> QED BY <1>1, <1>2, <1>3, <1>7, <1>8, <1>9 DEF ProposerInv
\* What v and u are due of the draws p.
FairTurns(c, p, v, u) ==
  IF c.mode = "dev"
  THEN Cardinality({i \in DOMAIN p : p[i] = v}) <= Cardinality({i \in DOMAIN p : p[i] = u}) + 1
  ELSE Cardinality({i \in DOMAIN p : p[i] = v}) = ValidatorSet(c)[v]

\* The turns that the draws so far give.
LEMMA SharesAre ==
  ASSUME NEW c \in Configs, DOMAIN ValidatorSet(c) # {}, NEW T \in Nat, T = TotalOf(ValidatorSet(c)),
         NEW p, Picks(c, T, p), NEW v \in DOMAIN ValidatorSet(c), NEW u \in DOMAIN ValidatorSet(c)
  PROVE  FairTurns(c, p, v, u)
<1> DEFINE w == ValidatorSet(c)
           s == SortedOf(w)
<1>1. Weights(w) /\ DOMAIN w # {}
  BY ValidatorWeights
<1>2. PICK n \in Nat \ {0} : Enumerates(SortedOf(w), n, DOMAIN w)
  BY <1>1, SortedIs
<1>3. DOMAIN p = 1 .. T /\ \A i \in 1 .. T : p[i] = SelectOf(c, i - 1)
  BY DEF Picks
<1>4. CASE c.mode = "dev"
  <2>1. s \in [1 .. n -> DOMAIN w] /\ Len(s) = n /\ (\A i \in 1 .. n : \A j \in 1 .. n : s[i] = s[j] => i = j)
        /\ \A x \in DOMAIN w : \E i \in 1 .. n : s[i] = x
    BY <1>2 DEF Enumerates
  <2> HIDE DEF s
  <2>2. PICK k \in 1 .. n : s[k] = v
    BY <2>1
  <2>3. PICK m \in 1 .. n : s[m] = u
    BY <2>1
  <2>4. \A i \in 1 .. T : 1 + ((i - 1) % n) \in 1 .. n /\ p[i] = s[1 + ((i - 1) % n)]
    <3> TAKE i \in 1 .. T
    <3>1. PICK x \in Nat : x = i - 1
      OBVIOUS
    <3>2. 1 + (x % n) \in 1 .. n
      OBVIOUS
    <3>3. SelectOf(c, x) = s[1 + (x % n)]
      BY <1>4, <2>1 DEF SelectOf, InTurnOf, s
    <3> QED BY <1>3, <3>1, <3>2, <3>3
  <2>5. \A i \in 1 .. T : (p[i] = v <=> 1 + ((i - 1) % n) = k) /\ (p[i] = u <=> 1 + ((i - 1) % n) = m)
    BY <2>1, <2>2, <2>3, <2>4
  <2>6. /\ {i \in DOMAIN p : p[i] = v} = {i \in 1 .. T : 1 + ((i - 1) % n) = k}
        /\ {i \in DOMAIN p : p[i] = u} = {i \in 1 .. T : 1 + ((i - 1) % n) = m}
    BY <1>3, <2>5
  <2>7. Cardinality({i \in 1 .. T : 1 + ((i - 1) % n) = k}) <= Cardinality({i \in 1 .. T : 1 + ((i - 1) % n) = m}) + 1
    BY TurnsApart
  <2> QED BY <1>4, <2>6, <2>7 DEF FairTurns
<1>5. CASE c.mode # "dev"
  <2>1. \A i \in 1 .. TotalOf(w) : p[i] = ByWeightOf(w, (i - 1) % TotalOf(w))
    BY <1>3, <1>5 DEF SelectOf
  <2>2. Cardinality({i \in 1 .. TotalOf(w) : p[i] = v}) = w[v]
    BY <1>1, <1>2, <2>1, TurnsByWeight
  <2> QED BY <1>3, <1>5, <2>2 DEF FairTurns
<1> QED BY <1>4, <1>5

\* Of two last blocks the higher one scores more; of two as high, by weight.
LEMMA ScoresAre ==
  ASSUME NEW c \in Configs, DOMAIN ValidatorSet(c) # {}, NEW d \in Nat, NEW q, NEW r, Scored(c, d, q), Scored(c, d, r)
  PROVE  /\ q.height > r.height => q.score > r.score
         /\ q.height = r.height /\ q.height > 0 /\ c.mode # "dev" =>
              (q.score > r.score <=> ValidatorSet(c)[q.proposer] > ValidatorSet(c)[r.proposer])
<1>1. PICK T \in Nat \ {0} : T = TotalOf(ValidatorSet(c)) /\ \A v \in DOMAIN ValidatorSet(c) : ValidatorSet(c)[v] \in 1 .. T
  BY ValidatorWeights, TotalBounds
<1>2. PICK h \in Nat, k \in Nat : h = q.height /\ k = r.height
  BY DEF Scored
<1>3. CASE c.mode = "dev"
  BY <1>2, <1>3 DEF Scored, ScoreOf
<1>4. CASE c.mode # "dev"
  <2>1. h > 0 => \E x \in 1 .. T : x = ValidatorSet(c)[q.proposer] /\ q.score = h * T + x
    BY <1>1, <1>2, <1>4 DEF Scored, ScoreOf
  <2>2. k > 0 => \E y \in 1 .. T : y = ValidatorSet(c)[r.proposer] /\ r.score = k * T + y
    BY <1>1, <1>2, <1>4 DEF Scored, ScoreOf
  <2>3. ASSUME h > k PROVE q.score > r.score
    <3>1. PICK x \in 1 .. T : q.score = h * T + x
      BY <2>1, <2>3
    <3>2. CASE k = 0
      <4>1. r.score = 0
        BY <1>2, <3>2 DEF Scored
      <4>2. h * T + x > 0 * T + 0
        <5>1. 0 \in Nat /\ h > 0 /\ 0 \in 0 .. T
          BY <2>3, <3>2
        <5> QED BY <5>1, TimesMore
      <4> QED BY <3>1, <4>1, <4>2
    <3>3. CASE k > 0
      <4>1. PICK y \in 1 .. T : r.score = k * T + y
        BY <2>2, <3>3
      <4>2. h * T + x > k * T + y
        <5>1. y \in 0 .. T
          OBVIOUS
        <5> QED BY <2>3, <5>1, TimesMore
      <4> QED BY <3>1, <4>1, <4>2
    <3> QED BY <3>2, <3>3
  <2>4. ASSUME h = k, h > 0 PROVE q.score > r.score <=> ValidatorSet(c)[q.proposer] > ValidatorSet(c)[r.proposer]
    <3>1. PICK x \in 1 .. T : x = ValidatorSet(c)[q.proposer] /\ q.score = h * T + x
      BY <2>1, <2>4
    <3>2. PICK y \in 1 .. T : y = ValidatorSet(c)[r.proposer] /\ r.score = h * T + y
      BY <2>2, <2>4
    <3>3. PICK z \in Nat : z = h * T
      OBVIOUS
    <3> QED BY <3>1, <3>2, <3>3
  <2> QED BY <1>2, <2>3, <2>4
<1> QED BY <1>3, <1>4

\* What the proposers are to be follows.
LEMMA ProposerInvFair ==
  ASSUME ProposerInv
  PROVE  ProposersFair
<1>1. PICK c \in Configs : c = config /\ DOMAIN ValidatorSet(c) # {}
  BY DEF ProposerInv
<1>2. PICK T \in Nat \ {0} : T = TotalOf(ValidatorSet(c))
  BY <1>1, ValidatorWeights, TotalBounds
<1>3. PICK d \in 0 .. T : d = drawn
  BY <1>1, <1>2 DEF ProposerInv
<1>4. Picks(c, d, picked) /\ \A b \in {1, 2} : Scored(c, d, branches[b])
  BY <1>1, <1>3 DEF ProposerInv
<1>5. TotalStake = T /\ \A v : Weight(v) = ValidatorSet(c)[v]
  BY <1>1, <1>2, OfConfig
<1>6. ProposerTypeOK
  <2>1. \A b \in {1, 2} : branches[b].height \in 0 .. d
    BY <1>4 DEF Scored
  <2>2. Len(picked) = d /\ ToSet(picked) \subseteq DOMAIN ValidatorSet(c)
    BY <1>4 DEF Picks, ToSet
  <2> QED BY <1>1, <1>3, <1>5, <2>1, <2>2 DEF ProposerTypeOK
<1>7. ShareIsStake
  <2> SUFFICES ASSUME drawn = TotalStake, NEW v \in DOMAIN ValidatorSet(c), NEW u \in DOMAIN ValidatorSet(c)
               PROVE  IF c.mode = "dev"
                      THEN Cardinality({i \in DOMAIN picked : picked[i] = v})
                             <= Cardinality({i \in DOMAIN picked : picked[i] = u}) + 1
                      ELSE Cardinality({i \in DOMAIN picked : picked[i] = v}) = ValidatorSet(c)[v]
    BY <1>1, <1>5 DEF ShareIsStake
  <2>1. PICK p : p = picked /\ Picks(c, T, p)
    BY <1>3, <1>4, <1>5
  <2>2. T \in Nat /\ T = TotalOf(ValidatorSet(c))
    BY <1>2
  <2>3. FairTurns(c, p, v, u)
    BY <1>1, <2>1, <2>2, SharesAre
  <2> QED BY <2>1, <2>3 DEF FairTurns
<1>8. LongerScoresMore
  <2> SUFFICES ASSUME NEW b \in {1, 2}, NEW a \in {1, 2}
               PROVE  /\ branches[b].height > branches[a].height => branches[b].score > branches[a].score
                      /\ branches[b].height = branches[a].height /\ branches[b].height > 0 /\ c.mode # "dev" =>
                           (branches[b].score > branches[a].score <=>
                              ValidatorSet(c)[branches[b].proposer] > ValidatorSet(c)[branches[a].proposer])
    BY <1>1, <1>5 DEF LongerScoresMore
  <2>1. PICK q, r : q = branches[b] /\ r = branches[a] /\ Scored(c, d, q) /\ Scored(c, d, r)
    BY <1>4
  <2>2. d \in Nat
    OBVIOUS
  <2> QED BY <1>1, <2>1, <2>2, ScoresAre
<1> QED BY <1>6, <1>7, <1>8 DEF ProposersFair
-----------------------------------------------------------------------------
(***************************************************************************)
(* Module Proposers: the replica                                           *)
(***************************************************************************)

\* Any n consecutive numbers have each remainder once.
LEMMA Residues ==
  ASSUME NEW n \in Nat \ {0}, NEW k \in Nat \ {0}
  PROVE  /\ \A r \in 0 .. n - 1 : \E i \in k .. k + n - 1 : (i - 1) % n = r
         /\ \A i \in k .. k + n - 1 : \A j \in k .. k + n - 1 : (i - 1) % n = (j - 1) % n => i = j
         /\ \A i \in k .. k + n - 1 : (i - 1) % n \in 0 .. n - 1
<1>1. k - 1 \in Nat
  OBVIOUS
<1>2. PICK q \in Nat, s \in 0 .. n - 1 : k - 1 = q * n + s
  BY <1>1, DivMod
<1>3. PICK z \in Nat : z = q * n
  OBVIOUS
<1>4. (q + 1) * n = z + n
  BY <1>3
<1>5. ASSUME NEW r \in 0 .. n - 1 PROVE \E i \in k .. k + n - 1 : (i - 1) % n = r
  <2>1. (z + r) % n = r /\ (z + n + r) % n = r
    <3>1. q \in Int /\ q + 1 \in Int
      OBVIOUS
    <3>2. (q * n + r) % n = r /\ ((q + 1) * n + r) % n = r
      BY <3>1, DivModOf
    <3> QED BY <1>3, <1>4, <3>2
  <2>2. CASE r >= s
    <3>1. z + r + 1 \in k .. k + n - 1 /\ (z + r + 1) - 1 = z + r
      BY <1>2, <1>3, <2>2
    <3> QED BY <2>1, <3>1
  <2>3. CASE r < s
    <3>1. z + n + r + 1 \in k .. k + n - 1 /\ (z + n + r + 1) - 1 = z + n + r
      BY <1>2, <1>3, <2>3
    <3> QED BY <2>1, <3>1
  <2> QED BY <2>2, <2>3
<1>6. ASSUME NEW i \in k .. k + n - 1, NEW j \in k .. k + n - 1, (i - 1) % n = (j - 1) % n
      PROVE  i = j
  <2>1. i - 1 \in Nat /\ j - 1 \in Nat
    OBVIOUS
  <2>2. PICK a \in Nat, r \in 0 .. n - 1 : i - 1 = a * n + r /\ r = (i - 1) % n
    BY <2>1, DivMod
  <2>3. PICK b \in Nat : j - 1 = b * n + r
    <3>1. PICK c \in Nat, s1 \in 0 .. n - 1 : j - 1 = c * n + s1 /\ s1 = (j - 1) % n
      BY <2>1, DivMod
    <3> QED BY <1>6, <2>2, <3>1
  <2>4. \A x \in Nat, y \in Nat : x < y => x * n + n <= y * n
    OBVIOUS
  <2>5. PICK an \in Nat, bn \in Nat : an = a * n /\ bn = b * n
    OBVIOUS
  <2>6. ~(a < b) /\ ~(b < a)
    <3>1. ~(an + n <= bn) /\ ~(bn + n <= an)
      BY <2>2, <2>3, <2>5
    <3> QED BY <2>4, <2>5, <3>1
  <2>7. a = b
    BY <2>6
  <2> QED BY <2>1, <2>2, <2>3, <2>7
<1>7. \A i \in k .. k + n - 1 : (i - 1) % n \in 0 .. n - 1
  <2> TAKE i \in k .. k + n - 1
  <2>1. i - 1 \in Nat
    OBVIOUS
  <2> QED BY <2>1, DivMod
<1> QED BY <1>5, <1>6, <1>7

\* Three are three.
LEMMA ThreeOf ==
  ASSUME NEW a, NEW b, NEW c, a # b, a # c, b # c
  PROVE  IsFiniteSet({a, b, c}) /\ Cardinality({a, b, c}) = 3
<1>1. IsFiniteSet({a}) /\ Cardinality({a}) = 1
  BY FS_Singleton
<1>2. IsFiniteSet({a} \cup {b}) /\ Cardinality({a} \cup {b}) = 2
  BY <1>1, FS_AddElement
<1>3. IsFiniteSet(({a} \cup {b}) \cup {c}) /\ Cardinality(({a} \cup {b}) \cup {c}) = 3
  BY <1>2, FS_AddElement
<1>4. ({a} \cup {b}) \cup {c} = {a, b, c}
  OBVIOUS
<1> QED BY <1>3, <1>4

\* The validator after v and the one before it, in the round.
After(n, v) == IF v = n - 1 THEN 0 ELSE v + 1
Before(n, v) == IF v = 0 THEN n - 1 ELSE v - 1

\* The committee of three: the proposer and the two after it.
LEMMA CommitteeIs ==
  ASSUME NEW n \in Nat, n > 2, NEW x \in Nat
  PROVE  CommitteeForSlot(n, x) = {x % n, After(n, x % n), After(n, After(n, x % n))}
<1>1. CommitteeForSlot(n, x) = {(x + offset) % n : offset \in 0 .. 2}
  BY DEF CommitteeForSlot
<1>2. {(x + offset) % n : offset \in 0 .. 2} = {(x + 0) % n, (x + 1) % n, (x + 2) % n}
  <2>1. 0 .. 2 = {0, 1, 2}
    OBVIOUS
  <2> QED BY <2>1
<1>3. x + 0 = x /\ x + 2 = (x + 1) + 1 /\ x + 1 \in Nat /\ n \in Nat \ {0}
  OBVIOUS
<1>4. (x + 1) % n = After(n, x % n)
  BY <1>3, NextMod DEF After
<1>5. ((x + 1) + 1) % n = After(n, (x + 1) % n)
  BY <1>3, NextMod DEF After
<1> QED BY <1>1, <1>2, <1>3, <1>4, <1>5

\* The proposer is one of the committee, and how large it is.
LEMMA CommitteeOf ==
  ASSUME NEW n \in Nat \ {0}, NEW x \in Nat
  PROVE  /\ x % n \in CommitteeForSlot(n, x)
         /\ IF n <= 2 THEN CommitteeForSlot(n, x) = 0 .. n - 1 ELSE Cardinality(CommitteeForSlot(n, x)) = 3
         /\ TakePart(n, CommitteeForSlot(n, x)) <=> n <= 4
<1>1. PICK r \in 0 .. n - 1 : r = x % n
  BY DivMod
<1>2. CASE n <= 2
  <2>1. CommitteeForSlot(n, x) = 0 .. n - 1
    BY <1>2 DEF CommitteeForSlot
  <2>2. Cardinality(0 .. n - 1) = n
    <3>1. 0 \in Int /\ n - 1 \in Int
      OBVIOUS
    <3>2. Cardinality(0 .. n - 1) = IF 0 > n - 1 THEN 0 ELSE (n - 1) - 0 + 1
      BY <3>1, FS_Interval
    <3> QED BY <3>2
  <2> QED BY <1>1, <1>2, <2>1, <2>2 DEF TakePart
<1>3. CASE n > 2
  <2>1. CommitteeForSlot(n, x) = {r, After(n, r), After(n, After(n, r))}
    BY <1>1, <1>3, CommitteeIs
  <2>2. r # After(n, r) /\ r # After(n, After(n, r)) /\ After(n, r) # After(n, After(n, r))
    BY <1>3 DEF After
  <2>3. Cardinality(CommitteeForSlot(n, x)) = 3
    <3>1. PICK a, b, c : a = r /\ b = After(n, r) /\ c = After(n, After(n, r))
      OBVIOUS
    <3>2. Cardinality({a, b, c}) = 3
      BY <2>2, <3>1, ThreeOf
    <3> QED BY <2>1, <3>1, <3>2
  <2> QED BY <1>1, <1>3, <2>1, <2>3 DEF TakePart
<1> QED BY <1>2, <1>3
\* Three slots of a round have v in their committee.
LEMMA SitsThrice ==
  ASSUME NEW n \in Nat, n > 2, NEW k \in Nat \ {0}, NEW v \in 0 .. n - 1
  PROVE  Cardinality({i \in k .. k + n - 1 : v \in CommitteeForSlot(n, i - 1)}) = 3
<1> DEFINE K == k .. k + n - 1
           R(i) == (i - 1) % n
<1>1. n \in Nat \ {0}
  OBVIOUS
<1>2. /\ \A r \in 0 .. n - 1 : \E i \in K : R(i) = r
      /\ \A i \in K : \A j \in K : R(i) = R(j) => i = j
      /\ \A i \in K : R(i) \in 0 .. n - 1
  BY <1>1, Residues
<1>3. Before(n, v) \in 0 .. n - 1 /\ Before(n, Before(n, v)) \in 0 .. n - 1
  BY DEF Before
<1>4. v # Before(n, v) /\ v # Before(n, Before(n, v)) /\ Before(n, v) # Before(n, Before(n, v))
  BY DEF Before
<1>5. PICK a \in K, b \in K, c \in K : R(a) = v /\ R(b) = Before(n, v) /\ R(c) = Before(n, Before(n, v))
  <2> HIDE DEF K, R
  <2> QED BY <1>2, <1>3
<1>6. a # b /\ a # c /\ b # c
  <2> HIDE DEF K, R
  <2> QED BY <1>4, <1>5
<1>7. ASSUME NEW i \in K PROVE v \in CommitteeForSlot(n, i - 1) <=> i \in {a, b, c}
  <2>1. i - 1 \in Nat
    OBVIOUS
  <2>2. CommitteeForSlot(n, i - 1) = {R(i), After(n, R(i)), After(n, After(n, R(i)))}
    BY <2>1, CommitteeIs
  <2>3. PICK r \in 0 .. n - 1 : r = R(i)
    BY <1>2
  <2>4. v \in CommitteeForSlot(n, i - 1) <=> v = r \/ v = After(n, r) \/ v = After(n, After(n, r))
    BY <2>2, <2>3
  <2>5. (v = After(n, r) <=> r = Before(n, v)) /\ (v = After(n, After(n, r)) <=> r = Before(n, Before(n, v)))
    BY DEF After, Before
  <2>6. (i = a <=> r = v) /\ (i = b <=> r = Before(n, v)) /\ (i = c <=> r = Before(n, Before(n, v)))
    <3> HIDE DEF K, R
    <3> QED BY <1>2, <1>5, <2>3
  <2> QED BY <2>4, <2>5, <2>6
<1>8. {i \in K : v \in CommitteeForSlot(n, i - 1)} = {a, b, c}
  <2> HIDE DEF K
  <2> QED BY <1>7
<1>9. Cardinality({a, b, c}) = 3
  BY <1>6, ThreeOf
<1> QED BY <1>8, <1>9

\* The duties of each slot so far.
DutiesAre(n, ds) ==
  /\ ds \in Seq([proposer : Int, committee : SUBSET Int])
  /\ \A i \in 1 .. Len(ds) : ds[i].proposer = (i - 1) % n /\ ds[i].committee = CommitteeForSlot(n, i - 1)

\* What is justified and final after d slots.
FinalityIs(n, d, j, f) ==
  IF n > 4 \/ d = 0 THEN j = -1 /\ f = -1
  ELSE j = (d - 1) \div SlotsPerEpoch /\ f = j - 1

ReplicaInv ==
  /\ replica = [n |-> replica.n, duties |-> replica.duties, justified |-> replica.justified, finalized |-> replica.finalized]
  /\ replica.n \in ReplicaSizes /\ DutiesAre(replica.n, replica.duties)
  /\ FinalityIs(replica.n, Len(replica.duties), replica.justified, replica.finalized)

LEMMA ReplicaInvInit ==
  ASSUME ReplicaInit
  PROVE  ReplicaInv
<1>1. PICK n \in ReplicaSizes : replica = Replica(n)
  BY DEF ReplicaInit
<1>2. replica = [n |-> n, duties |-> <<>>, justified |-> -1, finalized |-> -1]
  BY <1>1 DEF Replica
<1>3. DutiesAre(n, <<>>) /\ FinalityIs(n, 0, -1, -1)
  BY DEF DutiesAre, FinalityIs
<1> QED BY <1>2, <1>3 DEF ReplicaInv

\* The next slot.
LEMMA ReplicaInvNext ==
  ASSUME ReplicaInv, ReplicaSlot
  PROVE  ReplicaInv'
<1>1. PICK n, ds, j, f : replica = [n |-> n, duties |-> ds, justified |-> j, finalized |-> f]
  BY DEF ReplicaInv
<1>2. n \in ReplicaSizes /\ DutiesAre(n, ds) /\ FinalityIs(n, Len(ds), j, f)
  BY <1>1 DEF ReplicaInv
<1>3. n \in Nat \ {0} /\ SlotsPerEpoch \in Nat \ {0}
  BY <1>2, ReplicaAssumption
<1>4. PICK d \in Nat : d = Len(ds) /\ ds \in Seq([proposer : Int, committee : SUBSET Int])
  BY <1>2 DEF DutiesAre
<1>5. PICK committee : committee = CommitteeForSlot(n, d)
  OBVIOUS
<1>6. PICK epoch \in Nat : epoch = d \div SlotsPerEpoch
  BY <1>3, DivMod
<1>7. PICK duty : duty = [proposer |-> d % n, committee |-> committee]
  OBVIOUS
<1> DEFINE just == IF TakePart(n, committee) /\ epoch > j THEN epoch ELSE j
           final == IF TakePart(n, committee) /\ epoch > 0 /\ epoch - 1 > f THEN epoch - 1 ELSE f
<1>8. replica' = [n |-> n, duties |-> Append(ds, duty), justified |-> just, finalized |-> final]
  BY <1>1, <1>4, <1>5, <1>6, <1>7 DEF ReplicaSlot, ProposerForSlot
<1>9. DutiesAre(n, Append(ds, duty))
  <2>1. duty \in [proposer : Int, committee : SUBSET Int]
    <3>1. committee \subseteq Int
      BY <1>3, <1>5 DEF CommitteeForSlot
    <3>2. d % n \in Int
      BY <1>3
    <3> QED BY <1>7, <3>1, <3>2
  <2>2. /\ Append(ds, duty) \in Seq([proposer : Int, committee : SUBSET Int]) /\ Len(Append(ds, duty)) = d + 1
        /\ \A i \in 1 .. d + 1 : Append(ds, duty)[i] = IF i = d + 1 THEN duty ELSE ds[i]
    BY <1>4, <2>1
  <2>3. \A i \in 1 .. d : ds[i].proposer = (i - 1) % n /\ ds[i].committee = CommitteeForSlot(n, i - 1)
    BY <1>2, <1>4 DEF DutiesAre
  <2>4. duty.proposer = d % n /\ duty.committee = CommitteeForSlot(n, d) /\ (d + 1) - 1 = d
    BY <1>5, <1>7
  <2>5. \A i \in 1 .. d + 1 : Append(ds, duty)[i].proposer = (i - 1) % n
                                /\ Append(ds, duty)[i].committee = CommitteeForSlot(n, i - 1)
    <3> TAKE i \in 1 .. d + 1
    <3>1. i = d + 1 \/ i \in 1 .. d
      OBVIOUS
    <3> QED BY <2>2, <2>3, <2>4, <3>1
  <2> QED BY <2>2, <2>5 DEF DutiesAre
<1>10. FinalityIs(n, d + 1, just, final)
  <2>1. TakePart(n, committee) <=> n <= 4
    BY <1>3, <1>5, CommitteeOf
  <2>2. CASE n > 4
    BY <1>2, <1>3, <2>1, <2>2 DEF FinalityIs
  <2>3. CASE ~(n > 4) /\ d = 0
    <3>1. epoch = 0
      BY <1>3, <1>6, <2>3
    <3>2. j = -1 /\ f = -1
      BY <1>2, <1>4, <2>3 DEF FinalityIs
    <3>3. (d + 1) - 1 = d
      OBVIOUS
    <3> QED BY <1>3, <1>6, <2>1, <2>3, <3>1, <3>2, <3>3 DEF FinalityIs
  <2>4. CASE ~(n > 4) /\ d # 0
    <3>1. PICK e \in Nat : e = (d - 1) \div SlotsPerEpoch /\ j = e /\ f = e - 1
      <4>1. d - 1 \in Nat
        BY <2>4
      <4>2. (d - 1) \div SlotsPerEpoch \in Nat
        BY <1>3, <4>1, DivMod
      <4> QED BY <1>2, <1>4, <2>4, <4>2 DEF FinalityIs
    <3>2. epoch = e \/ epoch = e + 1
      <4>1. d - 1 \in Nat /\ (d - 1) + 1 = d
        BY <2>4
      <4>2. (d - 1 + 1) \div SlotsPerEpoch \in {(d - 1) \div SlotsPerEpoch, ((d - 1) \div SlotsPerEpoch) + 1}
        BY <1>3, <4>1, NextMod
      <4> QED BY <1>6, <3>1, <4>1, <4>2
    <3>3. just = epoch /\ final = epoch - 1
      BY <1>3, <2>1, <2>4, <3>1, <3>2
    <3>4. (d + 1) - 1 = d /\ d + 1 # 0
      OBVIOUS
    <3> QED BY <1>6, <2>4, <3>3, <3>4 DEF FinalityIs
  <2> QED BY <2>2, <2>3, <2>4
<1>11. Len(Append(ds, duty)) = d + 1
  BY <1>4
<1> HIDE DEF just, final
<1> QED BY <1>2, <1>8, <1>9, <1>10, <1>11 DEF ReplicaInv

\* What the replica is to do follows.
LEMMA ReplicaInvDuties ==
  ASSUME ReplicaInv
  PROVE  ReplicaDuties /\ ReplicaFinality
<1>1. PICK n, ds, j, f : replica = [n |-> n, duties |-> ds, justified |-> j, finalized |-> f]
  BY DEF ReplicaInv
<1>2. n \in ReplicaSizes /\ DutiesAre(n, ds) /\ FinalityIs(n, Len(ds), j, f)
  BY <1>1 DEF ReplicaInv
<1>3. n \in Nat \ {0}
  BY <1>2, ReplicaAssumption
<1>4. PICK d \in Nat : d = Len(ds) /\ ds \in Seq([proposer : Int, committee : SUBSET Int])
  BY <1>2 DEF DutiesAre
<1>5. replica.n = n /\ replica.duties = ds /\ replica.justified = j /\ replica.finalized = f
  BY <1>1
<1>6. ReplicaFinality
  <2>1. ds = <<>> <=> d = 0
    BY <1>4
  <2> QED BY <1>2, <1>4, <1>5, <2>1 DEF ReplicaFinality, FinalityIs
<1>7. ASSUME NEW k \in 1 .. d - n + 1
      PROVE  LET slots == k .. k + n - 1
                 sits(v) == Cardinality({i \in slots : v \in ds[i].committee})
             IN  /\ {ds[i].proposer : i \in slots} = 0 .. n - 1
                 /\ \A i \in slots : ds[i].proposer \in ds[i].committee
                 /\ \A v, w \in 0 .. n - 1 : sits(v) = sits(w)
  <2> DEFINE slots == k .. k + n - 1
             sits(v) == Cardinality({i \in slots : v \in ds[i].committee})
  <2>1. k \in Nat \ {0} /\ slots \subseteq 1 .. d
    BY <1>3
  <2>2. \A i \in slots : ds[i].proposer = (i - 1) % n /\ ds[i].committee = CommitteeForSlot(n, i - 1)
    BY <1>2, <1>4, <2>1 DEF DutiesAre
  <2>3. /\ \A r \in 0 .. n - 1 : \E i \in slots : (i - 1) % n = r
        /\ \A i \in slots : (i - 1) % n \in 0 .. n - 1
    BY <1>3, <2>1, Residues
  <2>4. \A i \in slots : i - 1 \in Nat
    BY <2>1
  <2> HIDE DEF slots
  <2>5. {ds[i].proposer : i \in slots} = 0 .. n - 1
    BY <2>2, <2>3
  <2>6. \A i \in slots : ds[i].proposer \in ds[i].committee
    BY <1>3, <2>2, <2>4, CommitteeOf
  <2>7. ASSUME NEW v \in 0 .. n - 1, NEW w \in 0 .. n - 1 PROVE sits(v) = sits(w)
    <3>1. CASE n <= 2
      <4>1. \A i \in slots : ds[i].committee = 0 .. n - 1
        BY <1>3, <2>2, <2>4, <3>1, CommitteeOf
      <4>2. {i \in slots : v \in ds[i].committee} = slots /\ {i \in slots : w \in ds[i].committee} = slots
        BY <4>1
      <4> QED BY <4>2
    <3>2. CASE n > 2
      <4>1. /\ {i \in slots : v \in ds[i].committee} = {i \in slots : v \in CommitteeForSlot(n, i - 1)}
            /\ {i \in slots : w \in ds[i].committee} = {i \in slots : w \in CommitteeForSlot(n, i - 1)}
        BY <2>2
      <4>2. /\ Cardinality({i \in slots : v \in CommitteeForSlot(n, i - 1)}) = 3
            /\ Cardinality({i \in slots : w \in CommitteeForSlot(n, i - 1)}) = 3
        BY <1>3, <2>1, <3>2, SitsThrice DEF slots
      <4> QED BY <4>1, <4>2
    <3> QED BY <1>3, <3>1, <3>2
  <2> QED BY <2>5, <2>6, <2>7 DEF slots
<1>8. ReplicaDuties
  BY <1>4, <1>5, <1>7 DEF ReplicaDuties
<1> QED BY <1>6, <1>8
-----------------------------------------------------------------------------
(***************************************************************************)
(* Module EthereumStack: the plans of a configuration                      *)
(***************************************************************************)

\* A configuration as it is read back: what is no endpoint has its default port.
Whole(c) ==
  /\ DOMAIN c = {"execution", "consensus", "validator", "mode", "enabled", "exposed", "ports"}
  /\ c.enabled \in BOOLEAN /\ DOMAIN c.ports = DOMAIN DefaultPort
ConfigOK(c) == Whole(c) /\ \A e \in DOMAIN DefaultPort : e \notin Endpoints(c) => c.ports[e] = DefaultPort[e]

LEMMA ReloadedOK ==
  ASSUME NEW c \in StackConfigs \cup NewConfigs
  PROVE  ConfigOK(Reloaded(c))
<1> DEFINE ports == [e \in DOMAIN c.ports |-> IF e \in Endpoints(c) THEN c.ports[e] ELSE DefaultPort[e]]
           r == Reloaded(c)
<1>1. Whole(c)
  BY StackAssumption DEF Whole
<1>2. r = [c EXCEPT !.ports = ports, !.exposed = c.exposed \cap Endpoints(c)]
  BY DEF Reloaded
<1>3. DOMAIN ports = DOMAIN DefaultPort /\ \A e \in DOMAIN DefaultPort : e \notin Endpoints(c) => ports[e] = DefaultPort[e]
  BY <1>1 DEF Whole
<1> HIDE DEF ports, r
<1>4. DOMAIN r = DOMAIN c /\ r.ports = ports /\ r.enabled = c.enabled /\ r.mode = c.mode
  BY <1>1, <1>2 DEF Whole
<1>5. Endpoints(r) = Endpoints(c)
  BY <1>4 DEF Endpoints
<1> QED BY <1>1, <1>3, <1>4, <1>5 DEF ConfigOK, Whole, r

\* What a mode leaves as it is, and what it sets.
LEMMA InModeIs ==
  ASSUME NEW c, Whole(c), NEW m
  PROVE  LET p == InMode(c, m) IN
         /\ Whole(p) /\ p.ports = c.ports /\ p.mode = m /\ p.enabled = (c.enabled \/ m \in {"validator", "all"})
         /\ p.execution = c.execution /\ p.consensus = c.consensus /\ p.validator = c.validator
BY DEF InMode, Whole

\* The clients of a plan.
RolesOf(c) == {"execution", "consensus"} \cup (IF c.enabled THEN {"validator"} ELSE {})

\* What may be left of a plan to start.
Pending ==
  {<<"execution", "consensus", "validator">>, <<"consensus", "validator">>, <<"validator">>, <<>>,
   <<"execution", "consensus">>, <<"consensus">>}

LEMMA RolesAre ==
  ASSUME NEW c, Whole(c)
  PROVE  Roles(c) \in Pending /\ ToSet(Roles(c)) = RolesOf(c)
<1>1. CASE c.enabled
  <2>1. Roles(c) = <<"execution", "consensus", "validator">>
    <3>1. <<"execution", "consensus">> \o <<"validator">> = <<"execution", "consensus", "validator">>
      <4> DEFINE S == {"execution", "consensus", "validator"}
      <4>1. PICK s, t, u : s = <<"execution", "consensus">> /\ t = <<"validator">> /\ u = <<"execution", "consensus", "validator">>
        OBVIOUS
      <4>2. Len(s) = 2 /\ s[1] = "execution" /\ s[2] = "consensus" /\ Len(t) = 1 /\ t[1] = "validator"
            /\ Len(u) = 3 /\ u[1] = "execution" /\ u[2] = "consensus" /\ u[3] = "validator"
        BY <4>1
      <4>3. s \in Seq(S) /\ t \in Seq(S) /\ u \in Seq(S)
        <5>1. "execution" \in S /\ "consensus" \in S /\ "validator" \in S
          OBVIOUS
        <5> HIDE DEF S
        <5> QED BY <4>1, <5>1
      <4> HIDE DEF S
      <4>4. PICK d \in Seq(S) : d = s \o t
        BY <4>3, ConcatProperties
      <4>5. Len(d) = Len(s) + Len(t) /\ \A i \in 1 .. Len(s) + Len(t) : d[i] = IF i <= Len(s) THEN s[i] ELSE t[i - Len(s)]
        BY <4>3, <4>4, ConcatProperties
      <4>6. Len(d) = Len(u) /\ \A i \in 1 .. Len(d) : d[i] = u[i]
        BY <4>2, <4>5
      <4>7. d = u
        BY <4>3, <4>6, <4>4, SeqEqual
      <4> QED BY <4>1, <4>7, <4>4
    <3>2. Roles(c) = <<"execution", "consensus">> \o <<"validator">>
      BY <1>1 DEF Roles
    <3> QED BY <3>1, <3>2
  <2>2. ToSet(<<"execution", "consensus", "validator">>) = {"execution", "consensus", "validator"}
    BY DEF ToSet
  <2> QED BY <1>1, <2>1, <2>2 DEF RolesOf, Pending
<1>2. CASE ~c.enabled
  <2>1. Roles(c) = <<"execution", "consensus">>
    BY <1>2 DEF Roles
  <2>2. ToSet(<<"execution", "consensus">>) = {"execution", "consensus"}
    BY DEF ToSet
  <2> QED BY <1>2, <2>1, <2>2 DEF RolesOf, Pending
<1> QED BY <1>1, <1>2

\* One client after the other: those before the next are no more to be started.
LEMMA PendingTail ==
  ASSUME NEW todo \in Pending, todo # <<>>
  PROVE  /\ Tail(todo) \in Pending /\ Head(todo) \in {"execution", "consensus", "validator"}
         /\ ToSet(todo) = {Head(todo)} \cup ToSet(Tail(todo))
         /\ Head(todo) = "consensus" => "execution" \notin ToSet(todo)
         /\ Head(todo) = "validator" => "consensus" \notin ToSet(todo)
<1>1. ToSet(<<>>) = {}
  BY DEF ToSet
<1>2. ASSUME NEW a PROVE ToSet(<<a>>) = {a} /\ Head(<<a>>) = a /\ Tail(<<a>>) = <<>>
  BY DEF ToSet
<1>3. ASSUME NEW a, NEW b PROVE ToSet(<<a, b>>) = {a, b} /\ Head(<<a, b>>) = a /\ Tail(<<a, b>>) = <<b>>
  BY DEF ToSet
<1>4. ASSUME NEW a, NEW b, NEW c PROVE ToSet(<<a, b, c>>) = {a, b, c} /\ Head(<<a, b, c>>) = a /\ Tail(<<a, b, c>>) = <<b, c>>
  BY DEF ToSet
<1>5. CASE todo = <<"execution", "consensus", "validator">>
  <2>1. ToSet(todo) = {"execution", "consensus", "validator"} /\ Head(todo) = "execution" /\ Tail(todo) = <<"consensus", "validator">>
    BY <1>4, <1>5
  <2>2. ToSet(Tail(todo)) = {"consensus", "validator"}
    BY <1>3, <2>1
  <2>3. Tail(todo) \in Pending
    BY <2>1 DEF Pending
  <2> QED BY <2>1, <2>2, <2>3
<1>6. CASE todo = <<"consensus", "validator">>
  BY <1>2, <1>3, <1>6 DEF Pending
<1>7. CASE todo = <<"validator">>
  BY <1>1, <1>2, <1>7 DEF Pending
<1>8. CASE todo = <<"execution", "consensus">>
  BY <1>2, <1>3, <1>8 DEF Pending
<1>9. CASE todo = <<"consensus">>
  BY <1>1, <1>2, <1>9 DEF Pending
<1> QED BY <1>5, <1>6, <1>7, <1>8, <1>9 DEF Pending

\* No two roles of a stack that holds together serve at one port, whatever modes
\* their plans are of.
LEMMA ServedApart ==
  ASSUME NEW c, ConfigOK(c), Fits(c), NEW m, NEW n, Valid(InMode(c, m)), Valid(InMode(c, n)),
         NEW a \in RolesOf(InMode(c, m)), NEW b \in RolesOf(InMode(c, n)), a # b
  PROVE  ServedBy(InMode(c, m), a) \cap ServedBy(InMode(c, n), b) = {}
<1> DEFINE p == InMode(c, m)
           q == InMode(c, n)
           port(e) == c.ports[e]
<1>1. /\ p.ports = c.ports /\ p.execution = c.execution /\ p.consensus = c.consensus /\ p.validator = c.validator
      /\ q.ports = c.ports /\ q.execution = c.execution /\ q.consensus = c.consensus /\ q.validator = c.validator
  BY InModeIs DEF ConfigOK
<1>2. PortsApart(p) /\ PortsApart(q)
  BY DEF Valid
<1> HIDE DEF p, q
<1>3. port("rpc") # port("beacon") /\ port("auth") # port("beacon") /\ port("ws") # port("beacon")
  BY <1>1, <1>2 DEF PortsApart, Endpoints
<1>4. c.consensus = "prysm" => port("rpc") # DefaultPort["prysm"] /\ port("auth") # DefaultPort["prysm"] /\ port("ws") # DefaultPort["prysm"]
  BY DEF Fits, Endpoints
<1>5. c.consensus = "prysm" => port("validator") # DefaultPort["prysm"]
  <2>1. CASE "validator" \in Endpoints(c)
    BY <2>1 DEF Fits
  <2>2. CASE "validator" \notin Endpoints(c)
    BY <2>2, StackAssumption DEF ConfigOK
  <2> QED BY <2>1, <2>2
<1>6. a = "validator" \/ b = "validator" =>
        port("validator") # port("rpc") /\ port("validator") # port("auth") /\ port("validator") # port("ws")
          /\ port("validator") # port("beacon")
  <2>1. a = "validator" => "validator" \in Endpoints(p)
    BY DEF RolesOf, Endpoints, p
  <2>2. b = "validator" => "validator" \in Endpoints(q)
    BY DEF RolesOf, Endpoints, q
  <2>3. ASSUME NEW r \in {p, q}, "validator" \in Endpoints(r)
        PROVE  port("validator") # port("rpc") /\ port("validator") # port("auth") /\ port("validator") # port("ws")
                 /\ port("validator") # port("beacon")
    <3>1. r.ports = c.ports /\ PortsApart(r) /\ {"rpc", "auth", "ws", "beacon"} \subseteq Endpoints(r)
      BY <1>1, <1>2 DEF Endpoints
    <3> QED BY <2>3, <3>1 DEF PortsApart
  <2> QED BY <2>1, <2>2, <2>3
<1>7. ServedBy(p, "execution") \subseteq {port("rpc"), port("auth"), port("ws")}
        /\ ServedBy(q, "execution") \subseteq {port("rpc"), port("auth"), port("ws")}
  BY <1>1 DEF ServedBy, EngineServed, Fits
<1>8. /\ ServedBy(p, "consensus") \subseteq {port("beacon")} \cup (IF c.consensus = "prysm" THEN {DefaultPort["prysm"]} ELSE {})
      /\ ServedBy(q, "consensus") \subseteq {port("beacon")} \cup (IF c.consensus = "prysm" THEN {DefaultPort["prysm"]} ELSE {})
  BY <1>1 DEF ServedBy, BeaconServed
<1>9. ServedBy(p, "validator") \subseteq {port("validator")} /\ ServedBy(q, "validator") \subseteq {port("validator")}
  BY <1>1 DEF ServedBy
<1>10. a \in {"execution", "consensus", "validator"} /\ b \in {"execution", "consensus", "validator"}
  BY DEF RolesOf
<1> HIDE DEF port
<1>11. CASE a = "execution"
  BY <1>3, <1>4, <1>6, <1>7, <1>8, <1>9, <1>10, <1>11 DEF p, q
<1>12. CASE a = "consensus"
  BY <1>3, <1>4, <1>5, <1>6, <1>7, <1>8, <1>9, <1>10, <1>12 DEF p, q
<1>13. CASE a = "validator"
  BY <1>5, <1>6, <1>7, <1>8, <1>9, <1>10, <1>13 DEF p, q
<1> QED BY <1>10, <1>11, <1>12, <1>13
-----------------------------------------------------------------------------
(***************************************************************************)
(* Module EthereumStack: what its state looks like, and what a step of a   *)
(* start does to it                                                        *)
(***************************************************************************)
StarterFields == {"at", "plan", "todo", "start"}
StarterOK(r, n) ==
  /\ DOMAIN r = StarterFields /\ r.at \in {"away", "secret", "create", "write", "spawn"}
  /\ r.at # "away" => r.start \in 1 .. n /\ r.todo \in Pending /\ \E p : r.plan = {p} /\ Valid(p)
ClientOK(k, x, n) == k[1] \in 1 .. n /\ Valid(x.plan)
Hows == {"begun", "refused", "ok", "raised", "killed"}
StartsOK(sts) == sts \in Seq([mode : StartModes, how : Hows])

StackTypes ==
  /\ secretsMade \in Nat /\ secret \in [there : BOOLEAN, value : Nat] /\ secret.value <= secretsMade
  /\ rewrites \in Nat /\ ConfigOK(stackConfig) /\ StartsOK(starts)
  /\ DOMAIN starter = Starters /\ \A s \in Starters : StarterOK(starter[s], Len(starts))
  /\ \A k \in DOMAIN clients : ClientOK(k, clients[k], Len(starts))

\* The start s is now r, the others are what they were.
Moves(f, g, s, r) == DOMAIN g = DOMAIN f /\ \A t \in DOMAIN f : g[t] = IF t = s THEN r ELSE f[t]

\* r is where q was, but for at.
Kept(r, q) == DOMAIN r = StarterFields /\ r.plan = q.plan /\ r.todo = q.todo /\ r.start = q.start

\* The starts so far keep their modes.
SameModes(a, b) == Len(a) <= Len(b) /\ \A i \in 1 .. Len(a) : b[i].mode = a[i].mode

AtSet(f, g, s, x) == s \in DOMAIN f /\ DOMAIN f[s] = StarterFields /\ g = [f EXCEPT ![s].at = x]
AtMoved(f, g, s, x) == \E r : Moves(f, g, s, r) /\ Kept(r, f[s]) /\ r.at = x

LEMMA AtMoves ==
  ASSUME NEW f, NEW s, NEW x, NEW g, AtSet(f, g, s, x)
  PROVE  AtMoved(f, g, s, x)
<1> DEFINE r == g[s]
<1>1. r = [f[s] EXCEPT !.at = x] /\ g = [f EXCEPT ![s].at = x]
  BY DEF AtSet
<1>2. Kept(r, f[s]) /\ r.at = x
  BY <1>1 DEF Kept, StarterFields, AtSet
<1>3. Moves(f, g, s, r)
  BY <1>1 DEF Moves, AtSet
<1> QED BY <1>2, <1>3 DEF AtMoved

\* StartStack: the plan of the file, if it is a valid one.
LEMMA StartParts ==
  ASSUME StackTypes, NEW s \in Starters, NEW m \in StartModes, StartStack(s, m)
  PROVE  /\ StartsOK(starts') /\ Len(starts') = Len(starts) + 1 /\ SameModes(starts, starts')
         /\ starts'[Len(starts')].mode = m /\ starts'[Len(starts')].how \in {"begun", "refused"}
         /\ \A i \in 1 .. Len(starts) : starts'[i] = starts[i]
         /\ starter[s].at = "away"
         /\ \/ starter' = starter
            \/ \E r : /\ Moves(starter, starter', s, r) /\ DOMAIN r = StarterFields /\ r.at = "secret"
                      /\ r.plan = {InMode(stackConfig, m)} /\ Valid(InMode(stackConfig, m))
                      /\ r.todo = Roles(InMode(stackConfig, m)) /\ r.start = Len(starts')
<1>1. PICK p : p = InMode(stackConfig, m)
  OBVIOUS
<1>2. PICK h \in {"begun", "refused"} : h = IF Valid(p) THEN "begun" ELSE "refused"
  OBVIOUS
<1>3. PICK x \in [mode : StartModes, how : Hows] : x = [mode |-> m, how |-> h]
  <2>1. m \in StartModes /\ h \in Hows
    BY DEF Hows
  <2> QED BY <2>1
<1>4. starts' = Append(starts, x)
  BY <1>1, <1>2, <1>3 DEF StartStack
<1>5. starts \in Seq([mode : StartModes, how : Hows])
  BY DEF StackTypes, StartsOK
<1>6. PICK a \in Seq([mode : StartModes, how : Hows]) : a = starts
  BY <1>5
<1>7. PICK n \in Nat : n = Len(a)
  BY <1>6
<1>8. PICK b : b = Append(a, x)
  OBVIOUS
<1>9. /\ b \in Seq([mode : StartModes, how : Hows]) /\ Len(b) = n + 1 /\ b[n + 1] = x
      /\ \A i \in 1 .. n : b[i] = a[i]
  BY <1>3, <1>6, <1>7, <1>8
<1>10. starts' = b
  BY <1>4, <1>6, <1>8
<1>11. /\ StartsOK(starts') /\ Len(starts') = Len(starts) + 1 /\ SameModes(starts, starts')
       /\ starts'[Len(starts')].mode = m /\ starts'[Len(starts')].how \in {"begun", "refused"}
       /\ \A i \in 1 .. Len(starts) : starts'[i] = starts[i]
  BY <1>3, <1>6, <1>7, <1>9, <1>10 DEF StartsOK, SameModes
<1>12. starter[s].at = "away"
  BY DEF StartStack
<1>13. CASE Valid(p)
  <2> DEFINE r == [at |-> "secret", plan |-> {p}, todo |-> Roles(p), start |-> Len(starts')]
  <2>1. starter' = [starter EXCEPT ![s] = r]
    BY <1>1, <1>13 DEF StartStack
  <2>2. DOMAIN r = StarterFields /\ r.at = "secret" /\ r.plan = {p} /\ r.todo = Roles(p) /\ r.start = Len(starts')
    BY DEF StarterFields
  <2> HIDE DEF r
  <2>3. Moves(starter, starter', s, r)
    BY <2>1 DEF Moves
  <2> QED BY <1>1, <1>11, <1>12, <1>13, <2>2, <2>3
<1>14. CASE ~Valid(p)
  <2>1. starter' = starter
    BY <1>1, <1>14 DEF StartStack
  <2> QED BY <1>11, <1>12, <2>1
<1> QED BY <1>13, <1>14

\* EndStart: only how it ended changes.
LEMMA EndParts ==
  ASSUME StackTypes, NEW s \in Starters, NEW how \in Hows, starter[s].at # "away", EndStart(s, how)
  PROVE  /\ StartsOK(starts') /\ Len(starts') = Len(starts) /\ SameModes(starts, starts')
         /\ \A i \in 1 .. Len(starts) : starts'[i].how = IF i = starter[s].start THEN how ELSE starts[i].how
         /\ Moves(starter, starter', s, Resting)
<1>1. starts \in Seq([mode : StartModes, how : Hows])
  BY DEF StackTypes, StartsOK
<1>2. PICK a \in Seq([mode : StartModes, how : Hows]) : a = starts
  BY <1>1
<1>3. PICK n \in Nat : n = Len(a)
  BY <1>2
<1>4. PICK d \in 1 .. n : d = starter[s].start
  BY <1>2, <1>3 DEF StackTypes, StarterOK
<1>5. PICK b : b = [a EXCEPT ![d].how = how]
  OBVIOUS
<1>6. starts' = b
  BY <1>2, <1>4, <1>5 DEF EndStart
<1>7. DOMAIN a = 1 .. n
  BY <1>2, <1>3
<1>8. a[d] \in [mode : StartModes, how : Hows]
  <2> DEFINE S == [mode : StartModes, how : Hows]
  <2>1. a \in Seq(S)
    OBVIOUS
  <2> HIDE DEF S
  <2>2. a[d] \in S
    BY <1>3, <1>4, <2>1
  <2> QED BY <2>2 DEF S
<1>9. PICK y : y = [a[d] EXCEPT !.how = how]
  OBVIOUS
<1>10. y \in [mode : StartModes, how : Hows] /\ y.mode = a[d].mode /\ y.how = how
  BY <1>8, <1>9
<1>11. b = [a EXCEPT ![d] = y]
  BY <1>5, <1>9
<1>12. /\ b \in Seq([mode : StartModes, how : Hows]) /\ Len(b) = n
       /\ \A i \in 1 .. n : b[i] = IF i = d THEN y ELSE a[i]
  BY <1>3, <1>7, <1>10, <1>11
<1>13. \A i \in 1 .. n : b[i].mode = a[i].mode /\ b[i].how = IF i = d THEN how ELSE a[i].how
  BY <1>10, <1>12
<1>14. Moves(starter, starter', s, Resting)
  BY DEF StackTypes, EndStart, Moves
<1> QED BY <1>2, <1>3, <1>4, <1>6, <1>12, <1>13, <1>14 DEF StartsOK, SameModes

\* SpawnClient: the next client of the plan, which runs if it stays up.
LEMMA SpawnParts ==
  ASSUME StackTypes, NEW s \in Starters, SpawnClient(s)
  PROVE  \E r, p, role :
           /\ Moves(starter, starter', s, r) /\ DOMAIN r = StarterFields /\ r.at = "spawn"
           /\ r.plan = starter[s].plan /\ r.start = starter[s].start /\ r.todo = Tail(starter[s].todo)
           /\ starter[s].at = "spawn" /\ starter[s].plan = {p} /\ Valid(p)
           /\ starter[s].todo \in Pending /\ starter[s].todo # <<>> /\ role = Head(starter[s].todo)
           /\ \/ Stays(p, role)
                 /\ \E k, x : /\ k[1] = starter[s].start /\ k[2] = role /\ x.plan = p /\ x.secret = secret.value
                              /\ DOMAIN clients' = DOMAIN clients \cup {k}
                              /\ \A j \in DOMAIN clients' : clients'[j] = IF j = k THEN x ELSE clients[j]
              \/ ~Stays(p, role) /\ clients' = clients
<1>1. starter[s].at = "spawn" /\ starter[s].todo # <<>>
  BY DEF SpawnClient
<1>2. StarterOK(starter[s], Len(starts))
  BY DEF StackTypes
<1>3. PICK p : starter[s].plan = {p} /\ Valid(p)
  BY <1>1, <1>2 DEF StarterOK
<1>4. PICK role : role = Head(starter[s].todo)
  OBVIOUS
<1>5. PICK k, x : k = <<starter[s].start, role>> /\ x = [plan |-> p, secret |-> secret.value]
  OBVIOUS
<1>6. clients' = IF Stays(p, role) THEN WithClient(k, x) ELSE clients
  BY <1>3, <1>4, <1>5 DEF SpawnClient
<1>7. PICK r : r = [starter[s] EXCEPT !.todo = Tail(@)]
  OBVIOUS
<1>8. DOMAIN r = StarterFields /\ r.at = "spawn" /\ r.plan = starter[s].plan /\ r.start = starter[s].start
      /\ r.todo = Tail(starter[s].todo)
  BY <1>1, <1>2, <1>7 DEF StarterOK, StarterFields
<1>9. starter' = [starter EXCEPT ![s] = r]
  BY <1>7 DEF SpawnClient
<1>10. Moves(starter, starter', s, r)
  BY <1>9 DEF StackTypes, Moves
<1>11. k[1] = starter[s].start /\ k[2] = role /\ x.plan = p /\ x.secret = secret.value
  BY <1>5
<1>12. CASE Stays(p, role)
  <2>1. clients' = WithClient(k, x)
    BY <1>6, <1>12
  <2>2. DOMAIN clients' = DOMAIN clients \cup {k} /\ \A j \in DOMAIN clients' : clients'[j] = IF j = k THEN x ELSE clients[j]
    BY <2>1 DEF WithClient
  <2> QED BY <1>1, <1>2, <1>3, <1>4, <1>8, <1>10, <1>11, <1>12, <2>2 DEF StarterOK
<1>13. CASE ~Stays(p, role)
  <2>1. clients' = clients
    BY <1>6, <1>13
  <2> QED BY <1>1, <1>2, <1>3, <1>4, <1>8, <1>10, <1>13, <2>1 DEF StarterOK
<1> QED BY <1>12, <1>13
\* A start and a client are in order also when there are more starts.
LEMMA MoreStarts ==
  ASSUME NEW n \in Nat, NEW m \in Nat, n <= m
  PROVE  /\ \A r : StarterOK(r, n) => StarterOK(r, m)
         /\ \A k, x : ClientOK(k, x, n) => ClientOK(k, x, m)
<1>1. 1 .. n \subseteq 1 .. m
  OBVIOUS
<1> QED BY <1>1, Zenon DEF StarterOK, ClientOK

\* What a move leaves in order.
LEMMA StartersStay ==
  ASSUME NEW f, NEW g, NEW s \in DOMAIN f, NEW r, Moves(f, g, s, r), NEW n \in Nat, NEW m \in Nat, n <= m,
         \A t \in DOMAIN f : StarterOK(f[t], n), StarterOK(r, m)
  PROVE  DOMAIN g = DOMAIN f /\ \A t \in DOMAIN g : StarterOK(g[t], m)
<1>1. \A t \in DOMAIN f : StarterOK(f[t], m)
  BY MoreStarts
<1> QED BY <1>1, Zenon DEF Moves

LEMMA StackTypesInit ==
  ASSUME StackInit
  PROVE  StackTypes
<1>1. ConfigOK(stackConfig)
  BY ReloadedOK DEF StackInit
<1>2. DOMAIN starter = Starters /\ \A s \in Starters : starter[s] = Resting
  BY DEF StackInit
<1>3. StarterOK(Resting, 0)
  BY DEF Resting, StarterOK, StarterFields
<1>4. Len(starts) = 0 /\ StartsOK(starts)
  BY DEF StackInit, StartsOK
<1>5. DOMAIN clients = {}
  BY DEF StackInit
<1>6. secretsMade \in Nat /\ secret \in [there : BOOLEAN, value : Nat] /\ secret.value <= secretsMade /\ rewrites \in Nat
  BY DEF StackInit
<1> QED BY <1>1, <1>2, <1>3, <1>4, <1>5, <1>6 DEF StackTypes

LEMMA StackTypesNext ==
  ASSUME StackTypes, StackNext
  PROVE  StackTypes'
<1> DEFINE Scalars == secretsMade \in Nat /\ secret \in [there : BOOLEAN, value : Nat] /\ secret.value <= secretsMade /\ rewrites \in Nat
           Started == DOMAIN starter = Starters /\ \A s \in Starters : StarterOK(starter[s], Len(starts))
           Clients == \A k \in DOMAIN clients : ClientOK(k, clients[k], Len(starts))
<1>1. Scalars /\ ConfigOK(stackConfig) /\ StartsOK(starts) /\ Started /\ Clients
  BY DEF StackTypes
<1>2. Len(starts) \in Nat
  BY <1>1 DEF StartsOK
<1>3. StarterOK(Resting, Len(starts))
  BY DEF Resting, StarterOK, StarterFields
<1>4. SUFFICES Scalars' /\ ConfigOK(stackConfig)' /\ StartsOK(starts)' /\ Started' /\ Clients'
  BY DEF StackTypes
<1>5. ASSUME starter' = starter, starts' = starts, clients' = clients PROVE Started' /\ Clients' /\ StartsOK(starts)'
  BY <1>1, <1>5
<1>6. CASE Install
  BY <1>1, <1>5, <1>6 DEF Install
<1>7. ASSUME NEW c \in NewConfigs, WriteConfig(c) PROVE StackTypes'
  <2>1. stackConfig' = Reloaded(c) /\ rewrites' = rewrites + 1 /\ UNCHANGED <<secret, secretsMade, starter, clients, starts>>
    BY <1>7 DEF WriteConfig
  <2>2. ConfigOK(stackConfig)'
    BY <2>1, ReloadedOK
  <2> QED BY <1>1, <1>5, <2>1, <2>2 DEF StackTypes
<1>8. ASSUME NEW k \in DOMAIN clients, Die(k) PROVE StackTypes'
  <2>1. clients' = [j \in DOMAIN clients \ {k} |-> clients[j]]
    BY <1>8 DEF Die, Restrict
  <2>2. UNCHANGED <<stackConfig, secret, secretsMade, starter, starts, rewrites>>
    BY <1>8 DEF Die
  <2>3. Clients'
    BY <1>1, <2>1, <2>2
  <2> QED BY <1>1, <2>2, <2>3 DEF StackTypes
<1>9. ASSUME NEW s \in Starters, NEW m \in StartModes, StartStack(s, m) PROVE StackTypes'
  <2>1. /\ StartsOK(starts') /\ Len(starts') = Len(starts) + 1
        /\ \/ starter' = starter
           \/ \E r : /\ Moves(starter, starter', s, r) /\ DOMAIN r = StarterFields /\ r.at = "secret"
                     /\ r.plan = {InMode(stackConfig, m)} /\ Valid(InMode(stackConfig, m))
                     /\ r.todo = Roles(InMode(stackConfig, m)) /\ r.start = Len(starts')
    BY <1>9, StartParts
  <2>2. PICK n \in Nat : n = Len(starts) /\ Len(starts') = n + 1 /\ n <= n + 1
    BY <1>2, <2>1
  <2>3. Started'
    <3>1. CASE starter' = starter
      <4>1. \A t \in Starters : StarterOK(starter[t], n + 1)
        BY <1>1, <2>2, MoreStarts
      <4> QED BY <1>1, <2>2, <3>1, <4>1
    <3>2. CASE starter' # starter
      <4>1. PICK p : p = InMode(stackConfig, m)
        OBVIOUS
      <4>2. PICK r : /\ Moves(starter, starter', s, r) /\ DOMAIN r = StarterFields /\ r.at = "secret"
                     /\ r.plan = {p} /\ Valid(p) /\ r.todo = Roles(p) /\ r.start = n + 1
        BY <2>1, <2>2, <3>2, <4>1
      <4>3. Roles(p) \in Pending
        <5>1. Whole(p)
          BY <1>1, <4>1, InModeIs DEF ConfigOK
        <5> QED BY <5>1, RolesAre
      <4>4. StarterOK(r, n + 1)
        BY <2>2, <4>2, <4>3 DEF StarterOK
      <4>5. DOMAIN starter' = DOMAIN starter /\ \A t \in DOMAIN starter' : StarterOK(starter'[t], n + 1)
        BY <1>1, <2>2, <4>2, <4>4, StartersStay
      <4> QED BY <1>1, <2>2, <4>5
    <3> QED BY <3>1, <3>2
  <2>4. UNCHANGED <<stackConfig, secret, secretsMade, clients, rewrites>>
    BY <1>9 DEF StartStack
  <2>5. Clients'
    BY <1>1, <2>2, <2>4, MoreStarts
  <2> QED BY <1>1, <2>1, <2>3, <2>4, <2>5 DEF StackTypes
<1>10. ASSUME NEW s \in Starters, NEW x \in {"create", "write", "spawn"}, starter[s].at # "away",
              starter' = [starter EXCEPT ![s].at = x], UNCHANGED <<starts, clients>>
       PROVE  Started' /\ Clients' /\ StartsOK(starts)'
  <2>1. DOMAIN starter[s] = StarterFields /\ s \in DOMAIN starter
    BY <1>1 DEF StarterOK
  <2>2. PICK q : q = starter[s]
    OBVIOUS
  <2>3. PICK r : Moves(starter, starter', s, r) /\ Kept(r, q) /\ r.at = x
    <3>1. AtSet(starter, starter', s, x)
      BY <1>10, <2>1 DEF AtSet
    <3>2. AtMoved(starter, starter', s, x)
      BY <3>1, AtMoves
    <3> QED BY <2>2, <3>2 DEF AtMoved
  <2>4. PICK n \in Nat : n = Len(starts) /\ StarterOK(q, n)
    BY <1>1, <1>2, <2>2
  <2>5. StarterOK(r, n)
    BY <1>10, <2>2, <2>3, <2>4 DEF StarterOK, Kept
  <2>6. DOMAIN starter' = DOMAIN starter /\ \A t \in DOMAIN starter' : StarterOK(starter'[t], n)
    BY <1>1, <2>1, <2>3, <2>4, <2>5, StartersStay
  <2> QED BY <1>1, <1>10, <2>4, <2>6
<1>11. ASSUME NEW s \in Starters, FindSecret(s) PROVE StackTypes'
  <2>1. PICK x \in {"create", "write", "spawn"} : x = IF SecretThere THEN "spawn" ELSE "create"
    OBVIOUS
  <2>2. starter[s].at # "away" /\ starter' = [starter EXCEPT ![s].at = x]
        /\ UNCHANGED <<stackConfig, secret, secretsMade, clients, starts, rewrites>>
    BY <1>11, <2>1 DEF FindSecret
  <2> QED BY <1>1, <1>10, <2>2 DEF StackTypes
<1>12. ASSUME NEW s \in Starters, CreateSecret(s) PROVE StackTypes'
  <2>1. starter[s].at # "away" /\ starter' = [starter EXCEPT ![s].at = "write"] /\ secret' = [there |-> TRUE, value |-> 0]
        /\ UNCHANGED <<stackConfig, secretsMade, clients, starts, rewrites>>
    BY <1>12 DEF CreateSecret
  <2>2. Started' /\ Clients' /\ StartsOK(starts)'
    BY <1>10, <2>1
  <2> QED BY <1>1, <2>1, <2>2 DEF StackTypes
<1>13. ASSUME NEW s \in Starters, WriteSecret(s) PROVE StackTypes'
  <2>1. starter[s].at # "away" /\ starter' = [starter EXCEPT ![s].at = "spawn"] /\ secretsMade' = secretsMade + 1
        /\ secret' = [there |-> TRUE, value |-> secretsMade'] /\ UNCHANGED <<stackConfig, clients, starts, rewrites>>
    BY <1>13 DEF WriteSecret
  <2>2. Started' /\ Clients' /\ StartsOK(starts)'
    BY <1>10, <2>1
  <2> QED BY <1>1, <2>1, <2>2 DEF StackTypes
<1>14. ASSUME NEW s \in Starters, SpawnClient(s) PROVE StackTypes'
  <2>1. PICK r, p, role :
           /\ Moves(starter, starter', s, r) /\ DOMAIN r = StarterFields /\ r.at = "spawn"
           /\ r.plan = starter[s].plan /\ r.start = starter[s].start /\ r.todo = Tail(starter[s].todo)
           /\ starter[s].at = "spawn" /\ starter[s].plan = {p} /\ Valid(p)
           /\ starter[s].todo \in Pending /\ starter[s].todo # <<>> /\ role = Head(starter[s].todo)
           /\ \/ Stays(p, role)
                 /\ \E k, x : /\ k[1] = starter[s].start /\ k[2] = role /\ x.plan = p /\ x.secret = secret.value
                              /\ DOMAIN clients' = DOMAIN clients \cup {k}
                              /\ \A j \in DOMAIN clients' : clients'[j] = IF j = k THEN x ELSE clients[j]
              \/ ~Stays(p, role) /\ clients' = clients
    BY <1>14, SpawnParts
  <2>2. UNCHANGED <<stackConfig, secret, secretsMade, starts, rewrites>>
    BY <1>14 DEF SpawnClient
  <2>3. PICK n, q : n \in Nat /\ n = Len(starts) /\ q = starter[s] /\ StarterOK(q, n)
    BY <1>1, <1>2
  <2>4. Tail(q.todo) \in Pending
    BY <2>1, <2>3, PendingTail
  <2>5. StarterOK(r, n)
    BY <2>1, <2>3, <2>4 DEF StarterOK
  <2>6. DOMAIN starter' = DOMAIN starter /\ \A t \in DOMAIN starter' : StarterOK(starter'[t], n)
    BY <1>1, <2>1, <2>3, <2>5, StartersStay
  <2>7. Clients'
    <3>1. CASE clients' = clients
      BY <1>1, <2>2, <3>1
    <3>2. CASE clients' # clients
      <4>1. PICK k, x : /\ k[1] = q.start /\ x.plan = p
                        /\ DOMAIN clients' = DOMAIN clients \cup {k}
                        /\ \A j \in DOMAIN clients' : clients'[j] = IF j = k THEN x ELSE clients[j]
        BY <2>1, <2>3, <3>2
      <4>2. ClientOK(k, x, n)
        BY <2>1, <2>3, <4>1 DEF ClientOK, StarterOK
      <4> QED BY <1>1, <2>2, <2>3, <4>1, <4>2
    <3> QED BY <3>1, <3>2
  <2> QED BY <1>1, <2>2, <2>3, <2>6, <2>7 DEF StackTypes
<1>15. ASSUME NEW s \in Starters, NEW how \in Hows, starter[s].at # "away", EndStart(s, how), clients' = clients
       PROVE  Started' /\ Clients' /\ StartsOK(starts)'
  <2>1. StartsOK(starts') /\ Len(starts') = Len(starts) /\ Moves(starter, starter', s, Resting)
    BY <1>15, EndParts
  <2>2. DOMAIN starter' = DOMAIN starter /\ \A t \in DOMAIN starter' : StarterOK(starter'[t], Len(starts))
    BY <1>1, <1>2, <1>3, <2>1, StartersStay
  <2> QED BY <1>1, <1>15, <2>1, <2>2
<1>16. ASSUME NEW s \in Starters, SpawnRaises(s) \/ StartDone(s) \/ KillStart(s) PROVE StackTypes'
  <2>1. /\ starter[s].at # "away" /\ \E how \in Hows : EndStart(s, how)
        /\ UNCHANGED <<stackConfig, secret, secretsMade, clients, rewrites>>
    BY <1>16 DEF SpawnRaises, StartDone, KillStart, Hows
  <2> QED BY <1>1, <1>15, <2>1 DEF StackTypes
<1> QED BY <1>6, <1>7, <1>8, <1>9, <1>11, <1>12, <1>13, <1>14, <1>16 DEF StackNext, StackTypes
-----------------------------------------------------------------------------
(***************************************************************************)
(* Module EthereumStack: one secret                                        *)
(***************************************************************************)

\* As long as no two starts met where the secret is made, and none ended there:
\* one start at most makes it, the file is empty only while that one writes, and
\* no client runs and none is started before there is a secret.
SecretAlone ==
  /\ \A s \in Starters : \A t \in Starters :
       starter[s].at \in {"create", "write"} /\ starter[t].at \in {"create", "write"} => s = t
  /\ \A s \in Starters : starter[s].at = "create" => ~secret.there
  /\ \A s \in Starters : starter[s].at = "write" => secret.there /\ secret.value = 0
  /\ secret.there /\ secret.value = 0 => \E s \in Starters : starter[s].at = "write"
SecretFirst ==
  /\ ~secret.there => secret.value = 0
  /\ secret.value = 0 => DOMAIN clients = {} /\ \A s \in Starters : starter[s].at # "spawn"
  /\ \A k \in DOMAIN clients : clients[k].secret = secret.value
SecretInv == ~muddled => SecretAlone /\ SecretFirst

LEMMA SecretInvInit ==
  ASSUME StackInit
  PROVE  SecretInv
<1>1. \A s \in Starters : starter[s].at = "away"
  BY DEF StackInit, Resting
<1>2. secret.there = FALSE /\ secret.value = 0 /\ DOMAIN clients = {}
  BY DEF StackInit
<1> QED BY <1>1, <1>2 DEF SecretInv, SecretAlone, SecretFirst

\* A start that goes where no secret is made leaves it as it is.
LEMMA SecretStays ==
  ASSUME SecretAlone, SecretFirst, secret' = secret, DOMAIN clients' = {} \/ secret.value # 0,
         \A k \in DOMAIN clients' : clients'[k].secret = secret.value,
         NEW s \in Starters, starter[s].at # "write", NEW x \in {"away", "secret", "spawn"}, x = "spawn" => secret.value # 0,
         \A t \in Starters : starter'[t].at = IF t = s THEN x ELSE starter[t].at
  PROVE  SecretAlone' /\ SecretFirst'
<1>1. SecretAlone'
  BY DEF SecretAlone
<1>2. SecretFirst'
  BY DEF SecretFirst
<1> QED BY <1>1, <1>2

LEMMA SecretInvNext ==
  ASSUME StackTypes, SecretInv, StackNext
  PROVE  SecretInv'
<1> SUFFICES ASSUME ~muddled' PROVE SecretAlone' /\ SecretFirst'
  BY DEF SecretInv
<1>1. DOMAIN starter = Starters /\ secretsMade \in Nat /\ secret \in [there : BOOLEAN, value : Nat]
      /\ \A s \in Starters : StarterOK(starter[s], Len(starts))
  BY DEF StackTypes
<1>2. ASSUME NEW s \in Starters, NEW r, Moves(starter, starter', s, r)
      PROVE  \A t \in Starters : starter'[t].at = IF t = s THEN r.at ELSE starter[t].at
  BY <1>1, <1>2 DEF Moves
<1>3. ASSUME NEW s \in Starters, NEW x, starter[s].at # "away", starter' = [starter EXCEPT ![s].at = x]
      PROVE  \A t \in Starters : starter'[t].at = IF t = s THEN x ELSE starter[t].at
  <2>1. DOMAIN starter[s] = StarterFields
    BY <1>1 DEF StarterOK
  <2>2. AtSet(starter, starter', s, x)
    BY <1>1, <1>3, <2>1 DEF AtSet
  <2>3. AtMoved(starter, starter', s, x)
    BY <2>2, AtMoves
  <2>4. PICK r : Moves(starter, starter', s, r) /\ r.at = x
    BY <2>3 DEF AtMoved
  <2> QED BY <1>2, <2>4
<1>4. CASE Install
  <2>1. UNCHANGED <<secret, starter, clients, muddled>>
    BY <1>4 DEF Install
  <2>2. SecretAlone /\ SecretFirst
    BY <2>1 DEF SecretInv
  <2> QED BY <2>1, <2>2 DEF SecretAlone, SecretFirst
<1>5. ASSUME NEW c \in NewConfigs, WriteConfig(c) PROVE SecretAlone' /\ SecretFirst'
  <2>1. UNCHANGED <<secret, starter, clients, muddled>>
    BY <1>5 DEF WriteConfig
  <2>2. SecretAlone /\ SecretFirst
    BY <2>1 DEF SecretInv
  <2> QED BY <2>1, <2>2 DEF SecretAlone, SecretFirst
<1>6. ASSUME NEW k \in DOMAIN clients, Die(k) PROVE SecretAlone' /\ SecretFirst'
  <2>1. UNCHANGED <<secret, starter, muddled>> /\ clients' = [j \in DOMAIN clients \ {k} |-> clients[j]]
    BY <1>6 DEF Die, Restrict
  <2>2. SecretAlone /\ SecretFirst
    BY <2>1 DEF SecretInv
  <2>3. DOMAIN clients' \subseteq DOMAIN clients /\ \A j \in DOMAIN clients' : clients'[j] = clients[j]
    BY <2>1
  <2> QED BY <2>1, <2>2, <2>3 DEF SecretAlone, SecretFirst
<1>7. ASSUME NEW s \in Starters, NEW m \in StartModes, StartStack(s, m) PROVE SecretAlone' /\ SecretFirst'
  <2>1. UNCHANGED <<secret, clients, muddled>>
    BY <1>7 DEF StartStack
  <2>2. SecretAlone /\ SecretFirst
    BY <2>1 DEF SecretInv
  <2>3. starter[s].at = "away" /\ (starter' = starter \/ \E r : Moves(starter, starter', s, r) /\ r.at = "secret")
    BY <1>7, StartParts
  <2>4. CASE starter' = starter
    BY <2>1, <2>2, <2>4 DEF SecretAlone, SecretFirst
  <2>5. CASE starter' # starter
    <3>1. \A t \in Starters : starter'[t].at = IF t = s THEN "secret" ELSE starter[t].at
      BY <1>2, <2>3, <2>5
    <3>2. DOMAIN clients' = {} \/ secret.value # 0
      BY <2>1, <2>2 DEF SecretFirst
    <3>3. \A k \in DOMAIN clients' : clients'[k].secret = secret.value
      BY <2>1, <2>2 DEF SecretFirst
    <3> QED BY <2>1, <2>2, <2>3, <3>1, <3>2, <3>3, SecretStays
  <2> QED BY <2>4, <2>5
<1>8. ASSUME NEW s \in Starters, FindSecret(s) PROVE SecretAlone' /\ SecretFirst'
  <2>1. /\ UNCHANGED <<secret, clients>> /\ starter[s].at = "secret"
        /\ ~muddled /\ \A t \in Starters \ {s} : starter[t].at \notin {"create", "write"}
    BY <1>8 DEF FindSecret
  <2>2. SecretAlone /\ SecretFirst
    BY <2>1 DEF SecretInv
  <2>3. DOMAIN clients' = {} \/ secret.value # 0
    BY <2>1, <2>2 DEF SecretFirst
  <2>4. \A k \in DOMAIN clients' : clients'[k].secret = secret.value
    BY <2>1, <2>2 DEF SecretFirst
  <2>5. CASE secret.there
    <3>1. starter' = [starter EXCEPT ![s].at = "spawn"]
      BY <1>8, <2>5 DEF FindSecret, SecretThere
    <3>2. \A t \in Starters : starter'[t].at = IF t = s THEN "spawn" ELSE starter[t].at
      BY <1>3, <2>1, <3>1
    <3>3. secret.value # 0
      BY <2>1, <2>2, <2>5 DEF SecretAlone
    <3> QED BY <2>1, <2>2, <2>3, <2>4, <3>2, <3>3, SecretStays
  <2>6. CASE ~secret.there
    <3>1. starter' = [starter EXCEPT ![s].at = "create"]
      BY <1>8, <2>6 DEF FindSecret, SecretThere
    <3>2. \A t \in Starters : starter'[t].at = IF t = s THEN "create" ELSE starter[t].at
      BY <1>3, <2>1, <3>1
    <3>3. SecretAlone'
      BY <2>1, <2>2, <2>6, <3>2 DEF SecretAlone
    <3>4. SecretFirst'
      BY <2>1, <2>2, <3>2 DEF SecretFirst
    <3> QED BY <3>3, <3>4
  <2> QED BY <2>5, <2>6
<1>9. ASSUME NEW s \in Starters, CreateSecret(s) PROVE SecretAlone' /\ SecretFirst'
  <2>1. /\ UNCHANGED <<clients, muddled>> /\ secret' = [there |-> TRUE, value |-> 0] /\ starter[s].at = "create"
        /\ starter' = [starter EXCEPT ![s].at = "write"]
    BY <1>9 DEF CreateSecret
  <2>2. SecretAlone /\ SecretFirst
    BY <2>1 DEF SecretInv
  <2>3. \A t \in Starters : starter'[t].at = IF t = s THEN "write" ELSE starter[t].at
    BY <1>3, <2>1
  <2>4. ~secret.there /\ secret.value = 0 /\ DOMAIN clients = {} /\ \A t \in Starters : starter[t].at # "spawn"
    BY <2>1, <2>2 DEF SecretAlone, SecretFirst
  <2>5. secret'.there = TRUE /\ secret'.value = 0
    BY <2>1
  <2>6. SecretAlone'
    BY <2>1, <2>2, <2>3, <2>5 DEF SecretAlone
  <2>7. SecretFirst'
    BY <2>1, <2>3, <2>4, <2>5 DEF SecretFirst
  <2> QED BY <2>6, <2>7
<1>10. ASSUME NEW s \in Starters, WriteSecret(s) PROVE SecretAlone' /\ SecretFirst'
  <2>1. /\ UNCHANGED <<clients, muddled>> /\ secret' = [there |-> TRUE, value |-> secretsMade + 1] /\ starter[s].at = "write"
        /\ starter' = [starter EXCEPT ![s].at = "spawn"]
    BY <1>10 DEF WriteSecret
  <2>2. SecretAlone /\ SecretFirst
    BY <2>1 DEF SecretInv
  <2>3. \A t \in Starters : starter'[t].at = IF t = s THEN "spawn" ELSE starter[t].at
    BY <1>3, <2>1
  <2>4. DOMAIN clients = {} /\ \A t \in Starters \ {s} : starter[t].at \notin {"create", "write"}
    BY <2>1, <2>2 DEF SecretAlone, SecretFirst
  <2>5. secret'.there = TRUE /\ secret'.value # 0
    BY <1>1, <2>1
  <2>6. SecretAlone'
    BY <2>3, <2>4, <2>5 DEF SecretAlone
  <2>7. SecretFirst'
    BY <2>1, <2>4, <2>5 DEF SecretFirst
  <2> QED BY <2>6, <2>7
<1>11. ASSUME NEW s \in Starters, SpawnClient(s) PROVE SecretAlone' /\ SecretFirst'
  <2>1. UNCHANGED <<secret, muddled>>
    BY <1>11 DEF SpawnClient
  <2>2. SecretAlone /\ SecretFirst
    BY <2>1 DEF SecretInv
  <2>3. PICK r, p, role :
           /\ Moves(starter, starter', s, r) /\ r.at = "spawn" /\ starter[s].at = "spawn"
           /\ \/ Stays(p, role)
                 /\ \E k, x : /\ k[1] = starter[s].start /\ k[2] = role /\ x.plan = p /\ x.secret = secret.value
                              /\ DOMAIN clients' = DOMAIN clients \cup {k}
                              /\ \A j \in DOMAIN clients' : clients'[j] = IF j = k THEN x ELSE clients[j]
              \/ ~Stays(p, role) /\ clients' = clients
    BY <1>11, SpawnParts
  <2>4. \A t \in Starters : starter'[t].at = IF t = s THEN "spawn" ELSE starter[t].at
    BY <1>2, <2>3
  <2>5. secret.value # 0
    BY <2>2, <2>3 DEF SecretFirst
  <2>6. \A k \in DOMAIN clients' : clients'[k].secret = secret.value
    BY <2>2, <2>3 DEF SecretFirst
  <2> QED BY <2>1, <2>2, <2>3, <2>4, <2>5, <2>6, SecretStays
<1>12. ASSUME NEW s \in Starters, SpawnRaises(s) \/ StartDone(s) \/ KillStart(s) PROVE SecretAlone' /\ SecretFirst'
  <2>1. /\ starter[s].at # "away" /\ starter[s].at # "write" /\ ~muddled /\ \E how \in Hows : EndStart(s, how)
        /\ UNCHANGED <<secret, clients>>
    <3>1. CASE SpawnRaises(s)
      BY <3>1 DEF SpawnRaises, Hows
    <3>2. CASE StartDone(s)
      BY <3>2 DEF StartDone, Hows
    <3>3. CASE KillStart(s)
      BY <3>3 DEF KillStart, Hows
    <3> QED BY <1>12, <3>1, <3>2, <3>3
  <2>2. SecretAlone /\ SecretFirst
    BY <2>1 DEF SecretInv
  <2>3. Moves(starter, starter', s, Resting)
    BY <2>1, EndParts
  <2>4. \A t \in Starters : starter'[t].at = IF t = s THEN "away" ELSE starter[t].at
    BY <1>2, <2>3 DEF Resting
  <2>5. DOMAIN clients' = {} \/ secret.value # 0
    BY <2>1, <2>2 DEF SecretFirst
  <2>6. \A k \in DOMAIN clients' : clients'[k].secret = secret.value
    BY <2>1, <2>2 DEF SecretFirst
  <2> QED BY <2>1, <2>2, <2>4, <2>5, <2>6, SecretStays
<1> QED BY <1>4, <1>5, <1>6, <1>7, <1>8, <1>9, <1>10, <1>11, <1>12 DEF StackNext
-----------------------------------------------------------------------------
(***************************************************************************)
(* Module EthereumStack: the stack is up when a start says so              *)
(***************************************************************************)

\* The roles that have a client that runs.
UpRoles(cl) == {k[2] : k \in DOMAIN cl}

\* A start works on the plan of the file in its mode, and what it has started of
\* it runs; so does all of it once it has ended well.
StarterUp(c, sts, up, r) ==
  r.at # "away" =>
    \E p : /\ r.plan = {p} /\ p = InMode(c, sts[r.start].mode) /\ Valid(p)
           /\ ToSet(r.todo) \subseteq RolesOf(p) /\ RolesOf(p) \subseteq ToSet(r.todo) \cup up
ClientUp(c, k, x) == \E m : x.plan = InMode(c, m) /\ Valid(x.plan) /\ k[2] \in RolesOf(x.plan)
StartUp(c, up, y) == y.how = "ok" => RolesOf(InMode(c, y.mode)) \subseteq up

\* The clients are started in order.
ChainUp(up) == ("consensus" \in up => "execution" \in up) /\ ("validator" \in up => "consensus" \in up)

\* Nothing has happened that no start can make good.
Calm == ~muddled /\ ~lost /\ rewrites = 0 /\ Fits(stackConfig)

AllUp(c, sts, cl, f) ==
  /\ \A s \in DOMAIN f : StarterUp(c, sts, UpRoles(cl), f[s])
  /\ \A k \in DOMAIN cl : ClientUp(c, k, cl[k])
  /\ \A i \in 1 .. Len(sts) : StartUp(c, UpRoles(cl), sts[i])
  /\ ChainUp(UpRoles(cl))
UpInv == Calm => AllUp(stackConfig, starts, clients, starter)

LEMMA UpInvInit ==
  ASSUME StackInit
  PROVE  UpInv
<1>1. DOMAIN starter = Starters /\ \A s \in Starters : starter[s].at = "away"
  BY DEF StackInit, Resting
<1>2. DOMAIN clients = {} /\ Len(starts) = 0
  BY DEF StackInit
<1>3. UpRoles(clients) = {}
  BY <1>2 DEF UpRoles
<1>4. \A s \in DOMAIN starter : StarterUp(stackConfig, starts, UpRoles(clients), starter[s])
  BY <1>1 DEF StarterUp
<1>5. ChainUp(UpRoles(clients))
  BY <1>3 DEF ChainUp
<1> QED BY <1>2, <1>4, <1>5 DEF UpInv, AllUp

\* What is up stays up when more clients run and the starts keep their modes.
LEMMA StillUp ==
  ASSUME NEW c, NEW a, NEW b, StartsOK(a), SameModes(a, b), NEW up, NEW more, up \subseteq more
  PROVE  /\ \A r : StarterOK(r, Len(a)) /\ StarterUp(c, a, up, r) => StarterUp(c, b, more, r)
         /\ \A y : StartUp(c, up, y) => StartUp(c, more, y)
<1>1. ASSUME NEW r, StarterOK(r, Len(a)), StarterUp(c, a, up, r) PROVE StarterUp(c, b, more, r)
  <2>1. SUFFICES ASSUME r.at # "away" PROVE StarterUp(c, b, more, r)
    BY DEF StarterUp
  <2>2. b[r.start].mode = a[r.start].mode
    BY <1>1, <2>1 DEF StarterOK, SameModes
  <2> QED BY <1>1, <2>1, <2>2 DEF StarterUp
<1>2. ASSUME NEW y, StartUp(c, up, y) PROVE StartUp(c, more, y)
  BY <1>2 DEF StartUp
<1> QED BY <1>1, <1>2

\* A client that does not stay up has one of its role before it.
LEMMA OneIsUp ==
  ASSUME ConfigOK(stackConfig), Fits(stackConfig), secret.value # 0,
         \A k \in DOMAIN clients : ClientUp(stackConfig, k, clients[k]),
         NEW m, NEW p, p = InMode(stackConfig, m), Valid(p), NEW role \in RolesOf(p), ~Stays(p, role)
  PROVE  role \in UpRoles(clients)
<1>1. SUFFICES ASSUME role \notin UpRoles(clients) PROVE FALSE
  OBVIOUS
<1>2. \A k \in DOMAIN clients : k[2] # role
  BY <1>1 DEF UpRoles
<1>3. PICK k \in DOMAIN clients : ServedBy(p, role) \cap ServedBy(clients[k].plan, k[2]) # {}
  BY <1>2 DEF Stays
<1>4. PICK n, q, b : q = clients[k].plan /\ b = k[2] /\ q = InMode(stackConfig, n) /\ Valid(q) /\ b \in RolesOf(q)
  BY DEF ClientUp
<1>5. role # b
  BY <1>2, <1>4
<1>6. PICK c : c = stackConfig
  OBVIOUS
<1>7. ServedBy(InMode(c, m), role) \cap ServedBy(InMode(c, n), b) = {}
  BY <1>4, <1>5, <1>6, ServedApart
<1> QED BY <1>3, <1>4, <1>6, <1>7
\* The next client of a plan is up after it is spawned, and the order is kept.
LEMMA SpawnUp ==
  ASSUME StackTypes, SecretInv, Calm, AllUp(stackConfig, starts, clients, starter),
         NEW s \in Starters, SpawnClient(s)
  PROVE  AllUp(stackConfig, starts, clients', starter')
<1> DEFINE c == stackConfig
           up == UpRoles(clients)
           more == UpRoles(clients')
<1>1. PICK r, p, role :
        /\ Moves(starter, starter', s, r) /\ DOMAIN r = StarterFields /\ r.at = "spawn"
        /\ r.plan = starter[s].plan /\ r.start = starter[s].start /\ r.todo = Tail(starter[s].todo)
        /\ starter[s].at = "spawn" /\ starter[s].plan = {p} /\ Valid(p)
        /\ starter[s].todo \in Pending /\ starter[s].todo # <<>> /\ role = Head(starter[s].todo)
        /\ \/ Stays(p, role)
              /\ \E k, x : /\ k[1] = starter[s].start /\ k[2] = role /\ x.plan = p /\ x.secret = secret.value
                           /\ DOMAIN clients' = DOMAIN clients \cup {k}
                           /\ \A j \in DOMAIN clients' : clients'[j] = IF j = k THEN x ELSE clients[j]
           \/ ~Stays(p, role) /\ clients' = clients
  BY SpawnParts
<1>2. PICK q : q = starter[s]
  OBVIOUS
<1>3. DOMAIN starter = Starters /\ StartsOK(starts) /\ ConfigOK(c) /\ \A t \in Starters : StarterOK(starter[t], Len(starts))
  BY DEF StackTypes
<1>4. /\ \A t \in Starters : StarterUp(c, starts, up, starter[t])
      /\ \A k \in DOMAIN clients : ClientUp(c, k, clients[k])
      /\ \A i \in 1 .. Len(starts) : StartUp(c, up, starts[i])
      /\ ChainUp(up)
  BY <1>3 DEF AllUp
<1>5. /\ p = InMode(c, starts[q.start].mode) /\ ToSet(q.todo) \subseteq RolesOf(p)
      /\ RolesOf(p) \subseteq ToSet(q.todo) \cup up
  <2>1. StarterUp(c, starts, up, q) /\ q.at = "spawn" /\ q.plan = {p}
    BY <1>1, <1>2, <1>4
  <2>2. PICK z : /\ q.plan = {z} /\ z = InMode(c, starts[q.start].mode) /\ ToSet(q.todo) \subseteq RolesOf(z)
                 /\ RolesOf(z) \subseteq ToSet(q.todo) \cup up
    BY <2>1 DEF StarterUp
  <2>3. z = p
    BY <2>1, <2>2
  <2> QED BY <2>2, <2>3
<1>6. PICK todo \in Pending : todo = q.todo /\ todo # <<>> /\ role = Head(todo)
  BY <1>1, <1>2
<1>7. /\ ToSet(todo) = {role} \cup ToSet(Tail(todo)) /\ role \in {"execution", "consensus", "validator"}
      /\ role = "consensus" => "execution" \notin ToSet(todo)
      /\ role = "validator" => "consensus" \notin ToSet(todo)
  BY <1>6, PendingTail
<1>8. role \in RolesOf(p) /\ {"execution", "consensus"} \subseteq RolesOf(p)
  BY <1>5, <1>6, <1>7 DEF RolesOf
<1>9. secret.value # 0
  BY <1>1 DEF SecretInv, SecretFirst, Calm
<1>10. up \subseteq more /\ role \in more /\ more \subseteq up \cup {role}
  <2>1. CASE Stays(p, role)
    <3>1. PICK k : k[2] = role /\ DOMAIN clients' = DOMAIN clients \cup {k}
      BY <1>1, <2>1
    <3> QED BY <3>1 DEF UpRoles
  <2>2. CASE ~Stays(p, role)
    <3>1. clients' = clients
      BY <1>1, <2>2
    <3>2. role \in up
      <4>1. PICK m : m = starts[q.start].mode
        OBVIOUS
      <4>2. p = InMode(stackConfig, m)
        BY <1>5, <4>1
      <4> QED BY <1>1, <1>3, <1>4, <1>8, <1>9, <2>2, <4>2, OneIsUp DEF Calm
    <3> QED BY <3>1, <3>2
  <2> QED BY <2>1, <2>2
<1> HIDE DEF up, more
<1>11. ChainUp(more)
  <2>1. role = "consensus" => "execution" \in up
    BY <1>5, <1>6, <1>7, <1>8
  <2>2. role = "validator" => "consensus" \in up
    BY <1>5, <1>6, <1>7, <1>8
  <2> QED BY <1>4, <1>7, <1>10, <2>1, <2>2 DEF ChainUp
<1>12. SameModes(starts, starts)
  BY <1>3 DEF SameModes, StartsOK
<1>13. ASSUME NEW t \in Starters PROVE StarterUp(c, starts, more, starter'[t])
  <2>1. CASE t # s
    <3>1. starter'[t] = starter[t]
      BY <1>1, <1>3, <2>1 DEF Moves
    <3>2. StarterOK(starter[t], Len(starts)) /\ StarterUp(c, starts, up, starter[t])
      BY <1>3, <1>4
    <3> QED BY <1>3, <1>10, <1>12, <3>1, <3>2, StillUp
  <2>2. CASE t = s
    <3>1. starter'[t] = r
      BY <1>1, <1>3, <2>2 DEF Moves
    <3>2. r.plan = {p} /\ r.start = q.start /\ r.todo = Tail(todo) /\ Valid(p)
      BY <1>1, <1>2, <1>6
    <3>3. ToSet(r.todo) \subseteq RolesOf(p) /\ RolesOf(p) \subseteq ToSet(r.todo) \cup more
      BY <1>5, <1>6, <1>7, <1>10, <3>2
    <3> QED BY <1>5, <3>1, <3>2, <3>3 DEF StarterUp
  <2> QED BY <2>1, <2>2
<1>14. \A i \in 1 .. Len(starts) : StartUp(c, more, starts[i])
  BY <1>3, <1>4, <1>10, <1>12, StillUp
<1>15. \A k \in DOMAIN clients' : ClientUp(c, k, clients'[k])
  <2>1. CASE Stays(p, role)
    <3>1. PICK k, x : /\ k[2] = role /\ x.plan = p /\ DOMAIN clients' = DOMAIN clients \cup {k}
                      /\ \A j \in DOMAIN clients' : clients'[j] = IF j = k THEN x ELSE clients[j]
      BY <1>1, <2>1
    <3>2. ClientUp(c, k, x)
      BY <1>1, <1>5, <1>8, <3>1 DEF ClientUp
    <3> QED BY <1>4, <3>1, <3>2
  <2>2. CASE ~Stays(p, role)
    BY <1>1, <1>4, <2>2
  <2> QED BY <2>1, <2>2
<1>16. DOMAIN starter' = Starters
  BY <1>1, <1>3 DEF Moves
<1> QED BY <1>11, <1>13, <1>14, <1>15, <1>16 DEF AllUp, more

LEMMA UpInvNext ==
  ASSUME StackTypes, SecretInv, UpInv, StackNext
  PROVE  UpInv'
<1> DEFINE c == stackConfig
           up == UpRoles(clients)
<1> SUFFICES ASSUME Calm' PROVE AllUp(c, starts, clients, starter)'
  BY DEF UpInv
<1>1. DOMAIN starter = Starters /\ StartsOK(starts) /\ ConfigOK(c) /\ rewrites \in Nat
      /\ \A t \in Starters : StarterOK(starter[t], Len(starts))
  BY DEF StackTypes
<1>2. Len(starts) \in Nat
  BY <1>1 DEF StartsOK
<1>3. SameModes(starts, starts)
  BY <1>2 DEF SameModes
<1>4. ASSUME Calm
      PROVE  /\ \A t \in Starters : StarterUp(c, starts, up, starter[t])
             /\ \A k \in DOMAIN clients : ClientUp(c, k, clients[k])
             /\ \A i \in 1 .. Len(starts) : StartUp(c, up, starts[i])
             /\ ChainUp(up)
  BY <1>1, <1>4 DEF UpInv, AllUp
<1>5. CASE Install
  <2>1. UNCHANGED <<stackConfig, starter, clients, starts, rewrites, muddled, lost>>
    BY <1>5 DEF Install
  <2>2. Calm
    BY <2>1 DEF Calm
  <2> QED BY <2>1, <2>2 DEF UpInv
<1>6. ASSUME NEW d \in NewConfigs, WriteConfig(d) PROVE FALSE
  <2>1. rewrites' = rewrites + 1
    BY <1>6 DEF WriteConfig
  <2> QED BY <1>1, <2>1 DEF Calm
<1>7. ASSUME NEW k \in DOMAIN clients, Die(k) PROVE FALSE
  BY <1>7 DEF Die, Calm
<1>8. ASSUME NEW s \in Starters, NEW m \in StartModes, StartStack(s, m) PROVE AllUp(c, starts, clients, starter)'
  <2>1. UNCHANGED <<stackConfig, clients, rewrites, muddled, lost>>
    BY <1>8 DEF StartStack
  <2>2. Calm
    BY <2>1 DEF Calm
  <2>3. /\ Len(starts') = Len(starts) + 1 /\ SameModes(starts, starts')
        /\ starts'[Len(starts')].mode = m /\ starts'[Len(starts')].how \in {"begun", "refused"}
        /\ \A i \in 1 .. Len(starts) : starts'[i] = starts[i]
        /\ \/ starter' = starter
           \/ \E r : /\ Moves(starter, starter', s, r) /\ DOMAIN r = StarterFields /\ r.at = "secret"
                     /\ r.plan = {InMode(stackConfig, m)} /\ Valid(InMode(stackConfig, m))
                     /\ r.todo = Roles(InMode(stackConfig, m)) /\ r.start = Len(starts')
    BY <1>8, StartParts
  <2>4. ASSUME NEW t \in Starters PROVE StarterUp(c, starts', up, starter[t])
    <3>1. StarterOK(starter[t], Len(starts)) /\ StarterUp(c, starts, up, starter[t])
      BY <1>1, <1>4, <2>2
    <3> HIDE DEF up
    <3> QED BY <1>1, <2>3, <3>1, StillUp
  <2>5. DOMAIN starter' = Starters /\ \A t \in Starters : StarterUp(c, starts', up, starter'[t])
    <3>1. CASE starter' = starter
      BY <1>1, <2>4, <3>1
    <3>2. CASE starter' # starter
      <4>1. PICK p : p = InMode(stackConfig, m)
        OBVIOUS
      <4>2. PICK r : /\ Moves(starter, starter', s, r) /\ r.plan = {p} /\ Valid(p)
                     /\ r.todo = Roles(p) /\ r.start = Len(starts')
        BY <2>3, <3>2, <4>1
      <4>3. ToSet(Roles(p)) = RolesOf(p)
        <5>1. Whole(p)
          BY <1>1, <4>1, InModeIs DEF ConfigOK
        <5> QED BY <5>1, RolesAre
      <4>4. StarterUp(c, starts', up, r)
        BY <2>3, <4>1, <4>2, <4>3 DEF StarterUp
      <4> QED BY <1>1, <2>4, <4>2, <4>4 DEF Moves
    <3> QED BY <3>1, <3>2
  <2>6. \A i \in 1 .. Len(starts') : StartUp(c, up, starts'[i])
    <3> TAKE i \in 1 .. Len(starts')
    <3>1. CASE i \in 1 .. Len(starts)
      BY <1>4, <2>2, <2>3, <3>1
    <3>2. CASE i = Len(starts')
      BY <2>3, <3>2 DEF StartUp
    <3> QED BY <1>2, <2>3, <3>1, <3>2
  <2> QED BY <1>4, <2>1, <2>2, <2>5, <2>6 DEF AllUp
<1>9. ASSUME NEW s \in Starters, NEW x, starter[s].at # "away", starter' = [starter EXCEPT ![s].at = x],
             UNCHANGED <<stackConfig, clients, starts>>, Calm
      PROVE  AllUp(c, starts, clients, starter)'
  <2>1. DOMAIN starter[s] = StarterFields
    BY <1>1 DEF StarterOK
  <2>2. AtSet(starter, starter', s, x)
    BY <1>1, <1>9, <2>1 DEF AtSet
  <2>3. AtMoved(starter, starter', s, x)
    BY <2>2, AtMoves
  <2>4. PICK q : q = starter[s]
    OBVIOUS
  <2>5. PICK r : Moves(starter, starter', s, r) /\ Kept(r, q)
    BY <2>3, <2>4 DEF AtMoved
  <2>6. StarterUp(c, starts, up, q) /\ q.at # "away"
    BY <1>4, <1>9, <2>4
  <2>7. StarterUp(c, starts, up, r)
    BY <2>5, <2>6 DEF StarterUp, Kept
  <2>8. DOMAIN starter' = Starters /\ \A t \in Starters : StarterUp(c, starts, up, starter'[t])
    BY <1>1, <1>4, <1>9, <2>5, <2>7 DEF Moves
  <2> QED BY <1>4, <1>9, <2>8 DEF AllUp
<1>10. ASSUME NEW s \in Starters, FindSecret(s) \/ CreateSecret(s) \/ WriteSecret(s) PROVE AllUp(c, starts, clients, starter)'
  <2>1. UNCHANGED <<stackConfig, clients, starts, rewrites, lost>> /\ ~muddled
    <3>1. CASE FindSecret(s)
      BY <3>1 DEF FindSecret, Calm
    <3>2. CASE CreateSecret(s)
      BY <3>2 DEF CreateSecret, Calm
    <3>3. CASE WriteSecret(s)
      BY <3>3 DEF WriteSecret, Calm
    <3> QED BY <1>10, <3>1, <3>2, <3>3
  <2>2. Calm
    BY <2>1 DEF Calm
  <2>3. CASE FindSecret(s)
    <3>1. PICK x : x = IF SecretThere THEN "spawn" ELSE "create"
      OBVIOUS
    <3>2. starter[s].at # "away" /\ starter' = [starter EXCEPT ![s].at = x]
      BY <2>3, <3>1 DEF FindSecret
    <3> QED BY <1>9, <2>1, <2>2, <3>2
  <2>4. CASE CreateSecret(s)
    <3>1. starter[s].at # "away" /\ starter' = [starter EXCEPT ![s].at = "write"]
      BY <2>4 DEF CreateSecret
    <3> QED BY <1>9, <2>1, <2>2, <3>1
  <2>5. CASE WriteSecret(s)
    <3>1. starter[s].at # "away" /\ starter' = [starter EXCEPT ![s].at = "spawn"]
      BY <2>5 DEF WriteSecret
    <3> QED BY <1>9, <2>1, <2>2, <3>1
  <2> QED BY <1>10, <2>3, <2>4, <2>5
<1>11. ASSUME NEW s \in Starters, SpawnClient(s) PROVE AllUp(c, starts, clients, starter)'
  <2>1. UNCHANGED <<stackConfig, starts, rewrites, muddled, lost>>
    BY <1>11 DEF SpawnClient
  <2>2. Calm
    BY <2>1 DEF Calm
  <2>3. AllUp(stackConfig, starts, clients', starter')
    BY <1>11, <2>2, SpawnUp DEF UpInv
  <2> QED BY <2>1, <2>3
<1>12. ASSUME NEW s \in Starters, SpawnRaises(s) \/ StartDone(s) \/ KillStart(s) PROVE AllUp(c, starts, clients, starter)'
  <2>1. UNCHANGED <<stackConfig, clients, rewrites, lost>> /\ ~muddled
    <3>1. CASE SpawnRaises(s)
      BY <3>1 DEF SpawnRaises, Calm
    <3>2. CASE StartDone(s)
      BY <3>2 DEF StartDone, Calm
    <3>3. CASE KillStart(s)
      BY <3>3 DEF KillStart, Calm
    <3> QED BY <1>12, <3>1, <3>2, <3>3
  <2>2. Calm
    BY <2>1 DEF Calm
  <2>3. PICK how \in Hows : EndStart(s, how) /\ (how = "ok" => starter[s].at = "spawn" /\ starter[s].todo = <<>>)
    <3>1. CASE SpawnRaises(s)
      BY <3>1 DEF SpawnRaises, Hows
    <3>2. CASE StartDone(s)
      BY <3>2 DEF StartDone, Hows
    <3>3. CASE KillStart(s)
      BY <3>3 DEF KillStart, Hows
    <3> QED BY <1>12, <3>1, <3>2, <3>3
  <2>4. starter[s].at # "away"
    BY <1>12 DEF SpawnRaises, StartDone, KillStart
  <2>5. /\ Len(starts') = Len(starts) /\ SameModes(starts, starts') /\ Moves(starter, starter', s, Resting)
        /\ \A i \in 1 .. Len(starts) : starts'[i].how = IF i = starter[s].start THEN how ELSE starts[i].how
    BY <2>3, <2>4, EndParts
  <2>6. ASSUME NEW t \in Starters PROVE StarterUp(c, starts', up, starter'[t])
    <3>1. CASE t = s
      <4>1. starter'[t] = Resting
        BY <1>1, <2>5, <3>1 DEF Moves
      <4> QED BY <4>1 DEF StarterUp, Resting
    <3>2. CASE t # s
      <4>1. starter'[t] = starter[t]
        BY <1>1, <2>5, <3>2 DEF Moves
      <4>2. StarterOK(starter[t], Len(starts)) /\ StarterUp(c, starts, up, starter[t])
        BY <1>1, <1>4, <2>2
      <4> HIDE DEF up
      <4> QED BY <1>1, <2>5, <4>1, <4>2, StillUp
    <3> QED BY <3>1, <3>2
  <2>7. ASSUME NEW i \in 1 .. Len(starts) PROVE StartUp(c, up, starts'[i])
    <3>1. starts'[i].mode = starts[i].mode /\ StartUp(c, up, starts[i])
      BY <1>4, <2>2, <2>5 DEF SameModes
    <3>2. CASE i # starter[s].start \/ how # "ok"
      BY <2>5, <3>1, <3>2 DEF StartUp
    <3>3. CASE i = starter[s].start /\ how = "ok"
      <4>1. StarterUp(c, starts, up, starter[s]) /\ starter[s].at # "away" /\ starter[s].todo = <<>>
        BY <1>4, <2>2, <2>3, <2>4, <3>3
      <4>2. ToSet(<<>>) = {}
        BY DEF ToSet
      <4>3. RolesOf(InMode(c, starts[i].mode)) \subseteq up
        BY <3>3, <4>1, <4>2 DEF StarterUp
      <4> QED BY <3>1, <4>3 DEF StartUp
    <3> QED BY <3>2, <3>3
  <2>8. DOMAIN starter' = Starters
    BY <1>1, <2>5 DEF Moves
  <2> QED BY <1>4, <2>1, <2>2, <2>5, <2>6, <2>7, <2>8 DEF AllUp
<1> QED BY <1>5, <1>6, <1>7, <1>8, <1>10, <1>11, <1>12 DEF StackNext
\* The plans in force call their peers where these are served.
LEMMA PeersMeet ==
  ASSUME NEW c, Whole(c), Fits(c), NEW p, NEW q, NEW m, NEW r, p = InMode(c, m), q = InMode(c, r)
  PROVE  /\ EngineCalled(p) = EngineServed(q)
         /\ "validator" \in RolesOf(p) /\ Fits(p) => BeaconCalled(p) \in BeaconServed(q)
<1>1. p.ports = c.ports /\ p.consensus = c.consensus /\ p.validator = c.validator /\ p.enabled \in BOOLEAN
  BY InModeIs DEF Whole
<1>2. q.ports = c.ports /\ q.execution = c.execution /\ q.consensus = c.consensus
  BY InModeIs
<1>3. EngineCalled(p) = EngineServed(q)
  BY <1>1, <1>2 DEF EngineCalled, EngineServed, Fits
<1>4. ASSUME "validator" \in RolesOf(p), Fits(p) PROVE BeaconCalled(p) \in BeaconServed(q)
  <2>1. p.enabled
    BY <1>4 DEF RolesOf
  <2>2. p.validator = "prysm" => p.consensus = "prysm"
    BY <1>4, <2>1 DEF Fits
  <2> QED BY <1>1, <1>2, <2>2 DEF BeaconCalled, BeaconServed
<1> QED BY <1>3, <1>4

\* What the invariants say to whoever starts the stack.
LEMMA StackInvSound ==
  ASSUME StackTypes, SecretInv, UpInv
  PROVE  StackTypeOK /\ OneSecret /\ StackUp
<1>1. DOMAIN starter = Starters /\ StartsOK(starts) /\ ConfigOK(stackConfig)
  BY DEF StackTypes
<1>2. Len(starts) \in Nat /\ DOMAIN starts = 1 .. Len(starts)
  BY <1>1 DEF StartsOK
<1>3. StackTypeOK
  <2>1. secret.value \in 0 .. secretsMade
    BY DEF StackTypes
  <2>2. \A s \in Starters : starter[s].at \in {"away", "secret", "create", "write", "spawn"}
    BY DEF StackTypes, StarterOK
  <2>3. \A k \in DOMAIN clients : k[1] \in DOMAIN starts /\ Valid(clients[k].plan)
    BY <1>2 DEF StackTypes, ClientOK
  <2> QED BY <2>1, <2>2, <2>3 DEF StackTypeOK
<1>4. OneSecret
  <2> SUFFICES ASSUME ~muddled, NEW k \in DOMAIN clients
               PROVE  clients[k].secret = secret.value /\ secret.value # 0
    BY DEF OneSecret
  <2> QED BY DEF SecretInv, SecretFirst
<1>5. ASSUME Calm PROVE StackUp
  <2>1. PICK c : c = stackConfig
    OBVIOUS
  <2>2. Whole(c) /\ Fits(c)
    BY <1>1, <1>5, <2>1 DEF ConfigOK, Calm
  <2>3. PICK up : up = UpRoles(clients)
    OBVIOUS
  <2>4. /\ \A k \in DOMAIN clients : ClientUp(c, k, clients[k])
        /\ \A i \in 1 .. Len(starts) : StartUp(c, up, starts[i])
        /\ ChainUp(up)
    BY <1>5, <2>1, <2>3 DEF UpInv, AllUp
  <2>5. \A role : role \in up <=> {k \in DOMAIN clients : k[2] = role} # {}
    BY <2>3 DEF UpRoles
  <2>6. ASSUME NEW i \in DOMAIN starts, starts[i].how = "ok"
        PROVE  /\ \A role \in ToSet(Roles(InMode(c, starts[i].mode))) : role \in up
               /\ starts[i].mode = "validator" => "validator" \in up
    <3>1. PICK m, p : m = starts[i].mode /\ p = InMode(c, m)
      OBVIOUS
    <3>2. RolesOf(p) \subseteq up
      BY <1>2, <2>4, <2>6, <3>1 DEF StartUp
    <3>3. Whole(p) /\ (m = "validator" => p.enabled)
      BY <2>2, <3>1, InModeIs
    <3>4. ToSet(Roles(p)) = RolesOf(p)
      BY <3>3, RolesAre
    <3>5. m = "validator" => "validator" \in RolesOf(p)
      BY <3>3 DEF RolesOf
    <3> QED BY <3>1, <3>2, <3>4, <3>5
  <2>7. ASSUME NEW k \in DOMAIN clients, k[2] = "consensus"
        PROVE  \E e \in {e \in DOMAIN clients : e[2] = "execution"} :
                 EngineCalled(clients[k].plan) = EngineServed(clients[e].plan) /\ clients[k].secret = clients[e].secret
    <3>1. "consensus" \in up
      BY <2>3, <2>7 DEF UpRoles
    <3>2. "execution" \in up
      BY <2>4, <3>1 DEF ChainUp
    <3>3. PICK e \in DOMAIN clients : e[2] = "execution"
      BY <2>3, <3>2 DEF UpRoles
    <3>4. PICK m, r : clients[k].plan = InMode(c, m) /\ clients[e].plan = InMode(c, r)
      BY <2>4 DEF ClientUp
    <3>5. EngineCalled(clients[k].plan) = EngineServed(clients[e].plan)
      BY <2>2, <3>4, PeersMeet
    <3>6. clients[k].secret = secret.value /\ clients[e].secret = secret.value
      BY <1>5 DEF SecretInv, SecretFirst, Calm
    <3> QED BY <3>3, <3>5, <3>6
  <2>8. ASSUME NEW v \in DOMAIN clients, v[2] = "validator", Fits(clients[v].plan)
        PROVE  \E k \in {k \in DOMAIN clients : k[2] = "consensus"} : BeaconCalled(clients[v].plan) \in BeaconServed(clients[k].plan)
    <3>1. "validator" \in up
      BY <2>3, <2>8 DEF UpRoles
    <3>2. "consensus" \in up
      BY <2>4, <3>1 DEF ChainUp
    <3>3. PICK k \in DOMAIN clients : k[2] = "consensus"
      BY <2>3, <3>2 DEF UpRoles
    <3>4. PICK m, r : clients[v].plan = InMode(c, m) /\ clients[k].plan = InMode(c, r)
      BY <2>4 DEF ClientUp
    <3>5. "validator" \in RolesOf(clients[v].plan)
      BY <2>4, <2>8 DEF ClientUp
    <3>6. BeaconCalled(clients[v].plan) \in BeaconServed(clients[k].plan)
      BY <2>2, <2>8, <3>4, <3>5, PeersMeet
    <3> QED BY <3>3, <3>6
  <2>9. \A i \in DOMAIN starts : starts[i].how = "ok" =>
          \A role \in ToSet(Roles(InMode(stackConfig, starts[i].mode))) : {k \in DOMAIN clients : k[2] = role} # {}
    BY <2>1, <2>5, <2>6
  <2>10. \A i \in DOMAIN starts : starts[i].how = "ok" /\ starts[i].mode = "validator" =>
          {k \in DOMAIN clients : k[2] = "validator"} # {}
    BY <2>5, <2>6
  <2> QED BY <2>7, <2>8, <2>9, <2>10 DEF StackUp
<1>6. CASE ~Calm
  <2>1. ~(~muddled /\ ~lost /\ rewrites = 0 /\ Fits(stackConfig))
    BY <1>6 DEF Calm
  <2> QED BY <1>3, <1>4, <2>1 DEF StackUp
<1> QED BY <1>3, <1>4, <1>5, <1>6
-----------------------------------------------------------------------------
(***************************************************************************)
(* Module ConsensusStack: the three side by side                           *)
(***************************************************************************)
ConsensusInv == ProposerInv /\ ReplicaInv /\ StackTypes /\ SecretInv /\ UpInv

\* What does not step stays as it is.
LEMMA ProposersStay ==
  ASSUME ProposerInv, UNCHANGED proposerVars
  PROVE  ProposerInv'
BY DEF ProposerInv, proposerVars

LEMMA ReplicaStays ==
  ASSUME ReplicaInv, UNCHANGED replicaVars
  PROVE  ReplicaInv'
BY DEF ReplicaInv, replicaVars

LEMMA StackStays ==
  ASSUME StackTypes, SecretInv, UpInv, UNCHANGED stackVars
  PROVE  StackTypes' /\ SecretInv' /\ UpInv'
<1>1. UNCHANGED <<stackConfig, secret, secretsMade, starter, clients, starts, rewrites, muddled, lost>>
  BY DEF stackVars
<1>2. StackTypes'
  BY <1>1 DEF StackTypes
<1>3. SecretInv'
  BY <1>1 DEF SecretInv, SecretAlone, SecretFirst
<1>4. UpInv'
  BY <1>1 DEF UpInv, Calm
<1> QED BY <1>2, <1>3, <1>4

LEMMA ConsensusInvInit ==
  ASSUME ConsensusInit
  PROVE  ConsensusInv
BY ProposerInvInit, ReplicaInvInit, StackTypesInit, SecretInvInit, UpInvInit DEF ConsensusInit, ConsensusInv

LEMMA ConsensusInvNext ==
  ASSUME ConsensusInv, [ConsensusNext]_consensusVars
  PROVE  ConsensusInv'
<1>1. ProposerInv /\ ReplicaInv /\ StackTypes /\ SecretInv /\ UpInv
  BY DEF ConsensusInv
<1>2. CASE ProposerNext /\ UNCHANGED <<replicaVars, stackVars>>
  <2>1. UNCHANGED replicaVars /\ UNCHANGED stackVars
    BY <1>2
  <2>2. PICK b \in {1, 2} : Produce(b)
    BY <1>2 DEF ProposerNext
  <2>3. ProposerInv'
    BY <1>1, <2>2, ProposerInvNext
  <2>4. ReplicaInv'
    BY <1>1, <2>1, ReplicaStays
  <2>5. StackTypes' /\ SecretInv' /\ UpInv'
    BY <1>1, <2>1, StackStays
  <2> QED BY <2>3, <2>4, <2>5 DEF ConsensusInv
<1>3. CASE ReplicaSlot /\ UNCHANGED <<proposerVars, stackVars>>
  <2>1. UNCHANGED proposerVars /\ UNCHANGED stackVars
    BY <1>3
  <2>2. ReplicaInv'
    BY <1>1, <1>3, ReplicaInvNext
  <2>3. ProposerInv'
    BY <1>1, <2>1, ProposersStay
  <2>4. StackTypes' /\ SecretInv' /\ UpInv'
    BY <1>1, <2>1, StackStays
  <2> QED BY <2>2, <2>3, <2>4 DEF ConsensusInv
<1>4. CASE StackNext /\ UNCHANGED <<proposerVars, replicaVars>>
  <2>1. UNCHANGED proposerVars /\ UNCHANGED replicaVars
    BY <1>4
  <2>2. StackTypes' /\ SecretInv' /\ UpInv'
    BY <1>1, <1>4, StackTypesNext, SecretInvNext, UpInvNext
  <2>3. ProposerInv' /\ ReplicaInv'
    BY <1>1, <2>1, ProposersStay, ReplicaStays
  <2> QED BY <2>2, <2>3 DEF ConsensusInv
<1>5. CASE UNCHANGED consensusVars
  <2>1. UNCHANGED proposerVars /\ UNCHANGED replicaVars /\ UNCHANGED stackVars
    BY <1>5 DEF consensusVars
  <2>2. ProposerInv' /\ ReplicaInv'
    BY <1>1, <2>1, ProposersStay, ReplicaStays
  <2>3. StackTypes' /\ SecretInv' /\ UpInv'
    BY <1>1, <2>1, StackStays
  <2> QED BY <2>2, <2>3 DEF ConsensusInv
<1> QED BY <1>2, <1>3, <1>4, <1>5 DEF ConsensusNext

\* For all configurations: every validator proposes as often as it has stake and
\* the longer branch scores more; the duties of the replica go round, and it is
\* final where its committees are large enough; the clients of an Ethereum stack
\* have one secret, and a start that returned ok has left its plan up.
THEOREM ConsensusIsSound == ConsensusSpec => []ConsensusSound
<1>1. ConsensusInit => ConsensusInv
  BY ConsensusInvInit
<1>2. ConsensusInv /\ [ConsensusNext]_consensusVars => ConsensusInv'
  BY ConsensusInvNext
<1>3. ConsensusInv => ConsensusSound
  BY ProposerInvFair, ReplicaInvDuties, StackInvSound DEF ConsensusInv, ConsensusSound
<1> QED BY <1>1, <1>2, <1>3, PTL DEF ConsensusSpec
=============================================================================
