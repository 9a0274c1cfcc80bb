---------------------------- MODULE MCComputations --------------------------
(***************************************************************************)
(* The computations of the code that run alone, one at a time: part says   *)
(* which runs.                                                             *)
(*                                                                         *)
(* Ledger: two accounts, strict accounting.  "a" has 2 and promises 3; "b" *)
(* can pay its first transfer only after a's, deploys over the contract a  *)
(* calls, and sends 1 without a receiver.                                  *)
(*                                                                         *)
(* EVM: account 1 calls 2 and 2 calls 4 in all sixteen ways, 4 does one of *)
(* the things a contract can do, 2 stores; and every instruction is        *)
(* executed on stacks of none, seven, eight and too many words.            *)
(*                                                                         *)
(* The others: each on the small inputs listed below.                      *)
(***************************************************************************)
EXTENDS Ledger, EVMTools, RawTx, ZK, ConsensusStack

VARIABLE part

Row(kind, from, to, value, n) ==
  [kind |-> kind, from |-> from, to |-> to, value |-> value, nonce |-> n]

Rows ==
  "pay"  :> Row("transfer", "a", "b", 2, 0) @@
  "self" :> Row("transfer", "a", "a", 1, 0) @@
  "part" :> Row("transfer", "a", "b", 1, 1) @@
  "call" :> Row("contract_call", "a", "b", 0, 1) @@
  "back" :> Row("transfer", "b", "a", 2, 0) @@
  "code" :> Row("deploy_contract", "b", "b", 0, 1) @@
  "lost" :> Row("transfer", "b", NoTo, 1, 1)

MCAccounts == {"a", "b"}
MCTxs == DOMAIN Rows
MCKind == [t \in MCTxs |-> Rows[t].kind]
MCFrom == [t \in MCTxs |-> Rows[t].from]
MCTo == [t \in MCTxs |-> Rows[t].to]
MCValue == [t \in MCTxs |-> Rows[t].value]
MCNonce == [t \in MCTxs |-> Rows[t].nonce]
MCCallOk == [t \in MCTxs |-> {"code"}]
MCEndowment == "a" :> 2 @@ "b" :> 1
-----------------------------------------------------------------------------
\* PUSH1 v, and PUSH2 with two bytes.
Push(v) == <<96, v>>
Push2(v, w) == <<97, v, w>>

CallTo(kind, to, v) ==
  Push(1) \o Push(0) \o Push(2) \o Push(0)
    \o (IF kind \in {Opcode.CALL, Opcode.CALLCODE} THEN Push(v) ELSE <<>>)
    \o Push(to) \o <<Opcode.GAS, kind>>
Put(k, v) == Push(v) \o Push(k) \o <<Opcode.SSTORE>>
Again == <<Opcode.JUMPDEST>> \o Push(0) \o <<Opcode.JUMP>>

\* What account 4 does when it is called.
Deeds ==
  {Put(1, 5), Push(4) \o <<Opcode.SELFDESTRUCT>>, Push(3) \o <<Opcode.SELFDESTRUCT>>,
   Push(0) \o Push(0) \o Push(1) \o <<Opcode.CREATE>>,
   Push(9) \o Push(0) \o Push(0) \o Push(1) \o <<Opcode.CREATE2>>,
   Push(7) \o Push(0) \o <<Opcode.MSTORE>> \o Push(2) \o Push(0) \o <<Opcode.RETURN>>,
   Put(2, 6) \o Push(0) \o Push(0) \o <<Opcode.REVERT>>, Put(2, 6) \o <<Opcode.INVALID>>,
   Push(2) \o Push(0) \o Push(0) \o <<Opcode.RETURNDATACOPY>>,
   CallTo(Opcode.CALL, 3, 1), CallTo(Opcode.CALL, 4, 1), CallTo(Opcode.CALL, 1, 1),
   CallTo(Opcode.CALL, 1, 9), CallTo(Opcode.DELEGATECALL, 5, 0) \o Put(1, 5)}

CallKinds == {Opcode.CALL, Opcode.CALLCODE, Opcode.DELEGATECALL, Opcode.STATICCALL}

Program(c1, c2, c4, g) ==
  [bytecode |-> c1, address |-> 1, caller |-> 3, value |-> 1, calldata |-> <<1, 2, 3>>, gas |-> g,
   static |-> FALSE,
   codes |-> (2 :> c2) @@ (4 :> c4) @@ [a \in Addresses |-> <<>>],
   balance |-> (1 :> 2) @@ (2 :> 1) @@ (4 :> 1) @@ [a \in Addresses |-> 0],
   room |-> MaxCallDepth + 2, memory |-> 2 * WordMod]

Nested ==
  {Program(CallTo(k, 2, 1) \o <<Opcode.RETURNDATASIZE>>, CallTo(l, 4, 1) \o Put(1, 3), d, g) :
     k \in CallKinds, l \in CallKinds, d \in Deeds, g \in {2900, 60000}}

Endless ==
  {Program(c, Again, <<>>, 1500) :
     c \in {Again, CallTo(Opcode.CALL, 2, 1),
            <<Opcode.JUMPDEST>> \o CallTo(Opcode.CALL, 2, 0) \o <<Opcode.POP>> \o Push(0) \o <<Opcode.JUMP>>}}

\* Jumps into a push's data (the byte 91 is JUMPDEST), to a JUMPDEST, over it.
Jumping ==
  {Program(Push(0) \o Push(Opcode.JUMPDEST) \o Push(v) \o Push(t) \o <<j, Opcode.JUMPDEST, 98, 1>>, <<>>, <<>>, 99) :
     v \in {0, 1}, t \in {3, 9, 10}, j \in {Opcode.JUMP, Opcode.JUMPI}}

Seven == Push(1) \o Push(0) \o Push(2) \o Push(3) \o Push(4) \o Push(250) \o Push(3)
Every == DOMAIN NameOf \cup {12, 96, 97, 127, 128, 130, 143, 144, 146, 159, 160, 162, 164, 249}
OneEach ==
  {Program(s \o <<b, 1>>, <<>>, <<>>, 35000) :
     s \in {<<>>, Seven, Seven \o Push(0), Seven \o Push(0) \o Push(1)}, b \in Every}
Negative ==
  {Program(Push2(255, 240) \o s \o <<b>>, <<>>, <<>>, 99) :
     s \in {Push(0), Push(1), Push(3), Push(15), Push(16), Push2(255, 253)},
     b \in 1 .. 29 \ {Opcode.ADDMOD, Opcode.MULMOD, Opcode.MUL, Opcode.EXP, 12, 13, 14, 15}}

\* Too little room on Python's stack, or for memory.
Cramped ==
  {[Program(CallTo(Opcode.CALL, 2, 1), CallTo(l, 4, 1) \o Put(1, 3), d, 60000) EXCEPT !.room = n] :
     l \in {Opcode.CALL, Opcode.STATICCALL}, d \in Deeds, n \in 0 .. 3}
  \cup {[p EXCEPT !.memory = 2] : p \in OneEach}
  \cup {[Program(CallTo(Opcode.CALL, to, 1), c, <<>>, 2900) EXCEPT !.memory = n] :
          to \in {2, 3}, c \in {Put(1, 3), CallTo(Opcode.CALL, 3, 1)}, n \in {0, 2, 4}}

MCRequests == Nested \cup Endless \cup Jumping \cup OneEach \cup Negative \cup Cramped
MCEnv == [n \in EnvOps |-> 5]

\* Types with values: each base alone and in arrays, one behind the other.
Type(b, n) == [base |-> b, arrays |-> n]
OfType(b) ==
  CASE b = "uint" -> {0, 300, 65535, 65536} [] b = "int" -> {-2, -32768, 32767, 40000} [] b = "bool" -> {0, 1, 2}
    [] b = "address" -> {7, 8, 1003, -1} [] b = "bytes" -> {<<9>>, <<9, 9>>}
    [] b = "bytes32" -> {<<>>, <<9>>, <<0, 9>>, <<9, 9, 9>>} [] b = "bool text" -> {<<>>, <<"false">>}
    [] b = "string" -> {<<>>, <<7>>, <<7, 8>>, <<0, 8, 9>>}
Arrays(S) == {<<>>} \cup {<<v>> : v \in S} \cup {<<v, w>> : v \in S, w \in S}
Flat == UNION {{<<Type(b, 0), v>> : v \in OfType(b)} : b \in {"uint", "int", "bool", "bool text", "address", "bytes", "bytes32", "string"}}
Listings == UNION {{<<Type(b, 1), v>> : v \in Arrays(OfType(b))} : b \in {"uint", "bytes", "address", "string"}}
Nestings == {<<Type("string", 2), v>> : v \in Arrays({<<>>, <<<<7>>, <<7, 8, 9>>>>})}
Some == {<<Type("uint", 0), 300>>, <<Type("string", 0), <<7, 8, 9>>>>, <<Type("uint", 1), <<1, 2>>>>}
Called(S) == {[types |-> [i \in DOMAIN q |-> q[i][1]], values |-> [i \in DOMAIN q |-> q[i][2]]] : q \in S}
MCCalldata ==
  Called({<<p, q>> : p \in Flat \cup Listings \cup Nestings, q \in Some})
    \cup Called({<<q, p>> : p \in Flat \cup Listings \cup Nestings, q \in Some})
    \cup {[types |-> <<Type("bool", 0), Type("bool", 0)>>, values |-> <<1>>]}
MCKeccak(bs) == Word(Len(bs) + ToWord(bs))
\* A new account each time: 1, 2 and 4 create at most once each.
MCNewAddress(a, n, salt, init) == CASE a = 1 -> 5 [] a = 2 -> 6 [] OTHER -> 7
-----------------------------------------------------------------------------
UpTo(S, m, n) == UNION {[1 .. k -> S] : k \in m .. n}

\* Zeros, numbers of one and of two bytes, data on both sides of ShortLength.
Draft(f, c, ns, to, d) == [family |-> f, chain |-> c, numbers |-> ns, to |-> to, data |-> d]
MCDrafts ==
  {Draft(f, c, ns, to, d) : f \in {"legacy", "old"}, c \in {5, 6},
     ns \in {<<0, 1, 15, 0>>, <<3, 4, 200, 14>>},
     to \in {<<>>, <<0, 9>>}, d \in {<<>>, <<3>>, <<4>>, <<0, 0>>, <<5, 5, 13>>}}
  \cup
  {Draft("typed", c, ns, to, d) : c \in {0, 5, 6},
     ns \in {<<3, 1, 15, 0>>, <<3, 4, 7, 200, 14>>, <<0, 9, 6, 15, 1>>},
     to \in {<<>>, <<0, 9>>}, d \in {<<>>, <<4>>, <<5, 5, 13>>}}
MCGenerator == <<2, 22>>
MCDigest(bs) == FoldLeft(LAMBDA n, b : (n * 31 + b + 1) % 157, 7, bs)
MCSeeds == {1, 2, 3, 39, 40, 77, 78}

MCClaims == {"l1", "l2", "l3"}
MCLeafLists == UpTo(MCClaims, 1, 3) \cup UpTo({"l1", "l2"}, 5, 5) \cup UpTo({"l1", "l2"}, 7, 7)

Delegation(who, n) == [delegate |-> who, stake |-> n]
MCConfigs ==
  [mode : {"pos", "dpos", "dev"}, validators : [{"a", "b"} -> 0 .. 3],
   delegations : {<<>>, <<Delegation("c", 2), Delegation("a", 1), Delegation("c", 1)>>,
                  <<Delegation("b", 0)>>, <<Delegation("a", 1), Delegation("b", 3)>>},
   delegates : {{}, {"a", "c"}}, minimum : {0, 2}]
-----------------------------------------------------------------------------
MCDefaultPort ==
  [rpc |-> 8545, auth |-> 8551, ws |-> 8546, beacon |-> 5052, metrics |-> 9101, validator |-> 5062, prysm |-> 4000]
\* Stacks that hold together, and ones that are refused or do not.
StackOf(e, c, v, m) ==
  [execution |-> e, consensus |-> c, validator |-> v, mode |-> m,
   enabled |-> m \in {"validator", "all"}, exposed |-> {}, ports |-> MCDefaultPort]
MCStackConfigs ==
  {StackOf("geth", "lighthouse", "lighthouse", "full"), StackOf("besu", "prysm", "prysm", "all"),
   [StackOf("nethermind", "nimbus", "prysm", "validator") EXCEPT !.exposed = {"ws"}],
   [StackOf("geth", "teku", "teku", "archive") EXCEPT !.ports["auth"] = 8552],
   [StackOf("besu", "teku", "lighthouse", "validator") EXCEPT !.ports["auth"] = 8552],
   [StackOf("geth", "lighthouse", "lighthouse", "full") EXCEPT !.ports["beacon"] = 8551],
   [StackOf("geth", "lodestar", "lighthouse", "all") EXCEPT !.exposed = {"validator"}],
   StackOf("reth", "lighthouse", "lighthouse", "full")}
MCNewConfigs == {[StackOf("geth", "teku", "teku", "archive") EXCEPT !.ports["auth"] = 8552]}
MCUninstalled == {{}, {"lighthouse", "validator"}}
-----------------------------------------------------------------------------
EVMIdle ==
  /\ request = Program(<<0, 1>>, <<>>, <<>>, 35000)
  /\ frames = <<>> /\ result = [NoResult EXCEPT !.used = 0]
  /\ balance = request.balance /\ nonce = [a \in Addresses |-> 0]
  /\ code = request.codes /\ storage = [a \in Addresses |-> <<>>]
RawIdle ==
  /\ draft = CHOOSE d \in MCDrafts : TRUE
  /\ key = 1 /\ seed = 1 /\ signed = Raised /\ raw = <<>>
  /\ answer = Refusal("not sent") /\ gateway = Refusal("not sent")
AbiIdle == abi = [types |-> <<>>, values |-> <<>>] /\ encoded = Refusing /\ decoded = NotYet
ZKIdle == leaves = <<"l1">> /\ levels = <<<<LeafHash("l1")>>>> /\ path = NoPath /\ knower = Nothing
ProposerIdle ==
  /\ config = [mode |-> "dev", validators |-> "a" :> 1, delegations |-> <<>>, delegates |-> {}, minimum |-> 0]
  /\ drawn = 0 /\ picked = <<>>
  /\ branches = [b \in {1, 2} |-> [height |-> 0, score |-> 0, proposer |-> "genesis"]]
ReplicaIdle == replica = Replica(1)
StackIdle ==
  /\ stackConfig = StackOf("geth", "lighthouse", "lighthouse", "full") /\ missing = {}
  /\ secret = [there |-> FALSE, value |-> 0] /\ secretsMade = 0
  /\ starter = [s \in Starters |-> Resting]
  /\ clients = <<>> /\ starts = <<>> /\ rewrites = 0 /\ muddled = FALSE /\ lost = FALSE

MCInit ==
  /\ part \in {"ledger", "evm", "rawtx", "abi", "merkle", "schnorr", "proposers", "replica", "stack"}
  /\ Init
  /\ IF part = "evm" THEN EVMInit ELSE EVMIdle
  /\ IF part = "rawtx" THEN RawInit ELSE RawIdle
  /\ IF part = "abi" THEN AbiInit ELSE AbiIdle
  /\ IF part = "merkle" THEN ZKInit ELSE ZKIdle
  /\ IF part = "proposers" THEN ProposerInit ELSE ProposerIdle
  /\ IF part = "replica" THEN ReplicaInit ELSE ReplicaIdle
  /\ IF part = "stack" THEN StackInit ELSE StackIdle

others == <<rawVars, abiVars, zkVars, proposerVars, replicaVars, stackVars>>

MCNext ==
  /\ UNCHANGED part
  /\ \/ part = "ledger" /\ Next /\ UNCHANGED <<evmVars, others>>
     \/ part = "evm" /\ EVMNext /\ UNCHANGED <<vars, others>>
     \/ part = "rawtx" /\ RawNext /\ UNCHANGED <<vars, evmVars, abiVars, zkVars, proposerVars, replicaVars, stackVars>>
     \/ part = "abi" /\ AbiNext /\ UNCHANGED <<vars, evmVars, rawVars, zkVars, proposerVars, replicaVars, stackVars>>
     \/ /\ (part = "merkle" /\ MerkleNext) \/ (part = "schnorr" /\ SchnorrNext)
        /\ UNCHANGED <<vars, evmVars, rawVars, abiVars, proposerVars, replicaVars, stackVars>>
     \/ part = "proposers" /\ ProposerNext /\ UNCHANGED <<vars, evmVars, rawVars, abiVars, zkVars, replicaVars, stackVars>>
     \/ part = "replica" /\ ReplicaSlot /\ UNCHANGED <<vars, evmVars, rawVars, abiVars, zkVars, proposerVars, stackVars>>
     \/ part = "stack" /\ StackNext /\ UNCHANGED <<vars, evmVars, rawVars, abiVars, zkVars, proposerVars, replicaVars>>

MCSpec ==
  /\ MCInit /\ [][MCNext]_<<vars, evmVars, others, part>>
  /\ WF_evmVars(EVMNext)
-----------------------------------------------------------------------------
\* Signed transactions and proofs are accepted for what they say, and for
\* nothing else, by both servers; call data and programs are read as they were
\* written.
SignaturesSound ==
  /\ RawTypeOK /\ ZKTypeOK /\ SignedIsRecovered /\ ServersAgree /\ ProofsVerify /\ ProofsAccepted
  /\ CallDataKept /\ ToolsAgree
=============================================================================
