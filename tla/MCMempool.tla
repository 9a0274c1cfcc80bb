----------------------------- MODULE MCMempool -----------------------------
(***************************************************************************)
(* Eight transactions of two accounts: two of a's compete for nonce 0, two *)
(* of b's for nonce 1, and both go on to nonce 2.  The pool holds four.    *)
(***************************************************************************)
EXTENDS Rpc

MCAccounts == {"a", "b"}
MCTxs == {"a0", "a0x", "a1", "a2", "b0", "b1", "b1x", "b2"}
MCFrom == [t \in MCTxs |-> IF t \in {"b0", "b1", "b1x", "b2"} THEN "b" ELSE "a"]
MCNonce == [t \in MCTxs |-> CASE t \in {"a0", "a0x", "b0"} -> 0
                              [] t \in {"a1", "b1", "b1x"} -> 1
                              [] t \in {"a2", "b2"} -> 2]
MCGasPrice == [t \in MCTxs |-> CASE t \in {"a0x", "b1", "b2"} -> 2 [] OTHER -> 1]
MCGasLimit == [t \in MCTxs |-> CASE t = "a1" -> 3 [] t = "b0" -> 2 [] OTHER -> 1]
MCHashOrder == [t \in MCTxs |-> CASE t = "a0" -> 1 [] t = "a0x" -> 2 [] t = "a1" -> 3
                                  [] t = "a2" -> 4 [] t = "b0" -> 5 [] t = "b1" -> 6
                                  [] t = "b1x" -> 7 [] t = "b2" -> 8]
MCFallible == {"a0", "b0"}
MCNoFallible == {}

\* the single transaction of tests/test_v19_blockchain.py:34
FirstTx == {"first"}
FirstFrom == [t \in FirstTx |-> "alice"]
FirstNonce == [t \in FirstTx |-> 1]
FirstOne == [t \in FirstTx |-> 1]
FirstAccounts == {"alice"}

\* Batches of raw transactions that wait, compete, fail or go over the nonce, of
\* sends without a nonce, and of calls that are not understood.
Method(m, ts) == [method |-> m, txs |-> ts]
Raw(t) == Method("eth_sendRawTransaction", {t})
Send(ts) == Method("eth_sendTransaction", ts)
MCPosts ==
  {<<Raw("a1")>>, <<Raw("b0")>>, <<Raw("a0"), Method("malformed", {})>>, <<Raw("a2"), Raw("a0x")>>,
   <<Send({"a0x", "a2"}), Method("unknown", {}), Send({"b1x", "b2"})>>}
NoCalls == {}
Body(n, calls) == [length |-> n, calls |-> calls]
MCBodies ==
  {Body("ok", <<"eth_chainId", "eth_sendTransaction", "eth_foo">>), Body("ok", <<"garbled">>),
   Body("ok", <<"eth_chainId", "malformed">>), Body("large", <<>>), Body("no number", <<>>)}

VARIABLE part     \* the pool of a node in a network, or that of a node that mines
                  \* alone, or either front

MCInit ==
  /\ part \in {"pool", "alone", "service", "gateway"}
  /\ Init /\ ServiceInit /\ GatewayInit
  /\ part = "service" \/ ~autoMine
MCNext ==
  /\ UNCHANGED part
  /\ \/ part = "pool" /\ Next /\ UNCHANGED <<serviceVars, gatewayVars>>
     \/ part = "alone" /\ MinerNext /\ UNCHANGED <<serviceVars, gatewayVars>>
     \/ part = "service" /\ ServiceNext /\ UNCHANGED gatewayVars
     \/ part = "gateway" /\ GatewayNext /\ UNCHANGED <<vars, serviceVars>>

MCSpec ==
  /\ MCInit /\ [][MCNext]_<<vars, serviceVars, gatewayVars, part>>
  /\ WF_vars(part = "alone" /\ Mining)
  /\ WF_<<vars, serviceVars>>(part = "service" /\ Handles)

\* Liveness of the node that mines alone, see RunnableIsMined, and what the two
\* fronts promise.
NodesServe ==
  /\ part = "alone" => RunnableIsMined
  /\ part = "service" => PostsEnd
  /\ [](part = "service" => SendsAreKept)
  /\ []WindowKept
-----------------------------------------------------------------------------
(* A block built from a pool that fits in it leaves the pool empty, as     *)
(* tests/test_v19_blockchain.py:46 asserts after submitting the first      *)
(* transaction of an account with nonce 1.                                 *)
BlockEmptiesPool == [][EndBlock => txs' = {}]_vars
=============================================================================
