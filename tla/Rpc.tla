-------------------------------- MODULE Rpc --------------------------------
(***************************************************************************)
(* The two JSON-RPC fronts of a node.  EthJsonRpcService is called on the  *)
(* thread of the node: its calls work on the pool and the blocks of module *)
(* Mempool.  The server of serve_project_rpc answers on a thread for each  *)
(* connection, and SQLite refuses the node's connection there: every call  *)
(* that touches the node fails, and what its threads share is the list of  *)
(* the times at which a client called.                                     *)
(***************************************************************************)
EXTENDS Mempool

CONSTANTS
  Posts           \* the batches of calls: [method, txs], what a send may submit

VARIABLES
  autoMine,       \* auto_mine
  post,           \* the calls of the POST under way, from the one being handled on
  answers,        \* its answers so far
  sent,           \* the transaction _mine_pending runs for, as a set
  rounds,         \* blocks it has made
  told,           \* transactions whose hash was answered, or lost with its POST
  found           \* transactions of the chain: does eth_getTransactionReceipt say 0x1?

serviceVars == <<autoMine, post, answers, sent, rounds, told, found>>

Sends == {"eth_sendRawTransaction", "eth_sendTransaction"}

ServiceInit ==
  /\ autoMine \in BOOLEAN
  /\ post = <<>> /\ answers = <<>> /\ sent = {} /\ rounds = 0
  /\ told = {} /\ found = [t \in {} |-> TRUE]

call == Head(post)
Handling == post # <<>> /\ ~producing

\* handle_many takes one call after the other.
Post(calls) ==
  /\ post = <<>> /\ ~producing
  /\ post' = calls /\ answers' = <<>> /\ sent' = {} /\ rounds' = 0
  /\ UNCHANGED <<vars, autoMine, told, found>>

Hashes(replies) == {replies[i] : i \in DOMAIN replies} \cap Txs

\* The answer of the call; with the last one the POST is answered.
Answer(reply) ==
  LET all == Append(answers, reply) IN
  /\ post' = Tail(post) /\ sent' = {} /\ rounds' = 0
  /\ answers' = IF Tail(post) = <<>> THEN <<>> ELSE all
  /\ told' = IF Tail(post) = <<>> THEN told \cup Hashes(all) ELSE told

\* What a send submits: eth_sendTransaction without a nonce takes the sender's
\* confirmed one, whatever the pool holds.  (Bound: it may be among no txs.)
Sent(c) ==
  CASE c.method = "eth_sendRawTransaction" -> c.txs
    [] c.method = "eth_sendTransaction" -> {t \in c.txs : Nonce[t] = confirmed[From[t]]}
    [] OTHER -> {}

Accepted(t) ==
  /\ Strict => Nonce[t] - confirmed[From[t]] <= ConfigGap
  /\ PoolAccepts(t) /\ Nonce[t] >= confirmed[From[t]] /\ Nonce[t] - confirmed[From[t]] <= PoolGap

\* submit_tx accepts: with auto_mine the answer comes after _mine_pending.
SendAccepted(t) ==
  /\ Handling /\ sent = {} /\ t \in Sent(call)
  /\ Submit(t)
  /\ IF autoMine THEN sent' = {t} /\ UNCHANGED <<post, answers, rounds, told>> ELSE Answer(t)
  /\ UNCHANGED <<autoMine, found>>

\* A refusal is raised with the report of submit_tx, and answered as -32000.
SendRefused ==
  /\ Handling /\ sent = {}
  /\ call.method \in Sends /\ \A t \in Sent(call) : ~Accepted(t)
  /\ Answer("-32000")
  /\ UNCHANGED <<vars, autoMine, found>>

UnknownMethod ==
  /\ Handling /\ call.method = "unknown"
  /\ Answer("-32601")
  /\ UNCHANGED <<vars, autoMine, found>>

\* An item that is no object: request.get raises outside of the try, and the
\* answers of the items before it are lost with the POST.
Malformed ==
  /\ Handling /\ call.method = "malformed"
  /\ told' = told \cup Hashes(answers)
  /\ post' = <<>> /\ answers' = <<>> /\ sent' = {} /\ rounds' = 0
  /\ UNCHANGED <<vars, autoMine, found>>

\* the rounds of _mine_pending
MinesOn == rounds < MaxBlockTxs /\ ready # {}

\* One of them, and the answer behind the last.
MineRound ==
  /\ Handling /\ sent # {} /\ MinesOn
  /\ StartBlock
  /\ rounds' = rounds + 1
  /\ UNCHANGED <<autoMine, post, answers, sent, told, found>>

MinedAnswer ==
  /\ Handling /\ ~MinesOn
  /\ \E t \in sent : Answer(t)
  /\ UNCHANGED <<vars, autoMine, found>>

\* Without auto_mine a loop as validator_once makes the blocks, between POSTs.
LoopMines == post = <<>> /\ ~autoMine /\ MineReady /\ UNCHANGED serviceVars

\* The block of either.  _find_receipt reads the chain from its beginning, and
\* finds the first receipt of a transaction that was executed twice.
ServiceBlock ==
  /\ EndBlock
  /\ found' = [t \in DOMAIN found \cup sel.taken |->
                 IF t \in DOMAIN found THEN found[t] ELSE t \in executed']
  /\ UNCHANGED <<autoMine, post, answers, sent, rounds, told>>

ServiceSelects == (\E t \in Txs : SelectNext(t)) /\ UNCHANGED serviceVars

CallHandled ==
  (\E t \in Txs : SendAccepted(t)) \/ SendRefused \/ UnknownMethod \/ Malformed \/ MineRound \/ MinedAnswer

Handles == CallHandled \/ ServiceSelects \/ ServiceBlock

ServiceNext ==
  \/ \E calls \in Posts : Post(calls)
  \/ LoopMines
  \/ Handles
-----------------------------------------------------------------------------
CONSTANTS
  Handlers,       \* the server's threads, each with a request of one client
  Bodies,         \* of requests: [length, calls]
  RateLimit,      \* rate_limit_per_minute
  Minute,
  MaxClock        \* bound of the clock

ASSUME RpcAssumption == RateLimit \in Nat /\ Minute \in Nat /\ MaxClock \in Nat

VARIABLES
  clock,
  window,         \* request_windows[client]
  handler,        \* of each thread: where it is, and its now
  admitted,       \* when requests were let through
  together,       \* has a thread been in rate_limited while another changed the window?
  reply           \* the last one: its answers, or what kept it from being sent

gatewayVars == <<clock, window, handler, admitted, together, reply>>

Replied(all) == [raised |-> "no", answers |-> all]
Unanswered(why) == [raised |-> why, answers |-> <<>>]

Away == [at |-> "away", now |-> 0]

GatewayInit ==
  /\ clock = 0 /\ window = <<>> /\ handler = [h \in Handlers |-> Away]
  /\ admitted = <<>> /\ together = FALSE /\ reply = Replied(<<>>)

Passes == clock < MaxClock /\ clock' = clock + 1 /\ UNCHANGED <<window, handler, admitted, together, reply>>

Go(h, at) == handler' = [handler EXCEPT ![h].at = at]

Arrives(h) ==
  /\ handler[h].at = "away"
  /\ handler' = [handler EXCEPT ![h] = [at |-> "while", now |-> clock]]
  /\ UNCHANGED <<clock, window, admitted, together, reply>>

\* while window and ...
WindowEmpty(h) ==
  /\ handler[h].at = "while"
  /\ Go(h, IF window = <<>> THEN "count" ELSE "oldest")
  /\ UNCHANGED <<clock, window, admitted, together, reply>>

\* IndexError: the connection is closed without an answer.
NothingThere(h) ==
  /\ handler[h].at \in {"oldest", "popleft"} /\ window = <<>>
  /\ Go(h, "away") /\ reply' = Unanswered("IndexError")
  /\ UNCHANGED <<clock, window, admitted, together>>

Expired(t, now) == now - t > Minute

\* ... now - window[0] > 60
Oldest(h) ==
  /\ handler[h].at = "oldest" /\ window # <<>>
  /\ Go(h, IF Expired(Head(window), handler[h].now) THEN "popleft" ELSE "count")
  /\ UNCHANGED <<clock, window, admitted, together, reply>>

Others(h) == together \/ \E g \in Handlers \ {h} : handler[g].at \notin {"away", "body"}

PopLeft(h) ==
  /\ handler[h].at = "popleft" /\ window # <<>>
  /\ window' = Tail(window) /\ Go(h, "while") /\ together' = Others(h)
  /\ UNCHANGED <<clock, admitted, reply>>

\* At the limit the answer is 429, with nothing read.
Limited(h) ==
  /\ handler[h].at = "count"
  /\ Go(h, IF Len(window) >= RateLimit THEN "away" ELSE "append")
  /\ reply' = IF Len(window) >= RateLimit THEN Replied(<<"-32005">>) ELSE reply
  /\ UNCHANGED <<clock, window, admitted, together>>

LetThrough(h) ==
  /\ handler[h].at = "append"
  /\ window' = Append(window, handler[h].now) /\ admitted' = Append(admitted, handler[h].now)
  /\ Go(h, "body") /\ together' = Others(h)
  /\ UNCHANGED <<clock, reply>>

\* _handle: by the class of the method.  What touches the node raises.
GatewayAnswer(method) ==
  CASE method \in {"eth_chainId", "net_version", "eth_call"} -> "result"
    [] method \in {"eth_blockNumber", "eth_getBalance", "eth_sendTransaction"} -> "-32000"
    [] OTHER -> "-32601"

\* do_POST behind the limit.  What int() or an item that is no object raises is
\* not caught.
Reply(body) ==
  CASE body.length = "no number" -> Unanswered("ValueError")
    [] body.length = "large" -> Replied(<<"-32600">>)
    [] body.calls = <<"garbled">> -> Replied(<<"-32700">>)
    [] \E i \in DOMAIN body.calls : body.calls[i] = "malformed" -> Unanswered("AttributeError")
    [] OTHER -> Replied([i \in DOMAIN body.calls |-> GatewayAnswer(body.calls[i])])

Served(h) ==
  /\ handler[h].at = "body"
  /\ Go(h, "away")
  /\ \E body \in Bodies : reply' = Reply(body)
  /\ UNCHANGED <<clock, window, admitted, together>>

GatewayNext ==
  \/ Passes
  \/ \E h \in Handlers : \/ Arrives(h) \/ WindowEmpty(h) \/ NothingThere(h) \/ Oldest(h)
                         \/ PopLeft(h) \/ Limited(h) \/ LetThrough(h) \/ Served(h)
-----------------------------------------------------------------------------
\* What a client was told, or was not told because a later item of its POST was
\* malformed, is in the pool or on the chain.  A receipt that says 0x1 is that of
\* a transaction that was executed, and of one nonce of an account there is at
\* most one such; what was executed has a receipt.  With auto_mine a POST leaves
\* nothing behind that a block could take.
SendsAreKept ==
  /\ told \subseteq txs \cup DOMAIN found
  /\ txs \cap {t \in DOMAIN found : found[t]} = {}
  /\ \A t, u \in DOMAIN found : found[t] /\ found[u] /\ Key(t) = Key(u) => t = u
  /\ \A t \in DOMAIN found : found[t] => t \in executed
  /\ \A t \in executed : t \in DOMAIN found
  /\ autoMine /\ post = <<>> => ready = {}

\* As long as no two requests are in rate_limited together, no more than the
\* limit are let through within a minute, none is refused before as many were,
\* and no request goes unanswered on account of the window.  (For what it
\* holds itself one may: a length that is no number, an item that is no object.)
LetIn(from, to) == {k \in DOMAIN admitted : admitted[k] \in from .. to}
Overrun == \E i \in DOMAIN admitted : Cardinality(LetIn(admitted[i] - Minute, admitted[i])) > RateLimit
RefusedEarly == \E h \in Handlers :
  /\ handler[h].at = "count" /\ Len(window) >= RateLimit
  /\ Cardinality(LetIn(handler[h].now - Minute, handler[h].now)) < RateLimit
WindowKept == ~together => ~Overrun /\ ~RefusedEarly /\ reply.raised # "IndexError"

\* Every POST is handled to its end.
PostsEnd == post # <<>> ~> post = <<>>
=============================================================================
