# Specifications of AGILANG

AGILANG (`src/agilang`) is a language toolchain with a large runtime: a blockchain node with its
network, JSON-RPC fronts and beacon layer, a web framework with real-time transports, a contract
interpreter, small machine learning libraries, and the compiler that programs for all of this go
through. These TLA+ modules model them, TLC checks the models on small instances, and TLAPS proves the
properties of the blockchain's core, its consensus and Ethereum clients, of the concurrent services and of the
application framework for every value of the constants.

Paths below are relative to `src/agilang` unless they begin with `docs/` or `tests/`, which are beside
it. *The patch* is `blockchain_nonce_mempool_patch.py`: `agilang/__init__.py` installs it, so it is the
code that runs, and it replaces the pool, transaction execution, submission, block production and
import of `blockchain.py` and the server of the gateway.

1. [The system](#1-the-system)
2. [Modules and code](#2-modules-and-code)
3. [What the runs show](#3-what-the-runs-show)
4. [What is proved](#4-what-is-proved)
5. [Where the code departs from its documents](#5-where-the-code-departs-from-its-documents)
6. [What else was observed](#6-what-else-was-observed)
7. [What is not modelled](#7-what-is-not-modelled)
8. [Plan](#8-plan)

To run everything: `tlc -config <cfg> <module>` for each row of the table in section 3, and
`tlapm <module>Proofs.tla` for each proof module. Every definition's lines in the code, every
property's mutant and every hazard with the properties that answer for it are in `PROJECT.json`.

## 1. The system

### The blockchain

| Component | State | Operations | Correct when |
|---|---|---|---|
| Transaction pool (the patch) | `_txs`, `ready_pool`, `queued_pool`, `_by_sender_nonce` | `add`, `remove_many`, `promote_queued`, `select_for_block` | the four views agree; what is executable next is ready; what was executed never comes back; every selection executes |
| Execution and replay (the patch, `blockchain.py`) | `balances`, `nonces`, `contracts`; receipts in the blocks | `validate_tx_against_state`, `_execute_transactions`, `_apply_block_to_state` | value is neither made nor lost, nobody overdraws, a nonce is spent once, replay ends where execution did |
| Block store (`ChainDatabase`, `BlockchainNode`) | SQLite tables `blocks` (flags `canonical`, `finalized`) and `state` | `put_block`, `apply_fork_choice`, `_rebuild_canonical_state`, each with commits of its own | after every commit and crash the canonical rows are one path, it only grows, finality stays, a completed import leaves all tables in agreement |
| Network of nodes, `Devnet` | `peers`, per node a chain and a pool | `connect_peer`, gossip, `produce_and_import_block`, `sync_from`, `Devnet.step` | producers keep what they sent out, pools stay fresh, nonces run in order, a devnet agrees |
| JSON-RPC (`rpc.py`), gateway (the patch's `serve_project_rpc`) | the node; times of calls per client | POSTs of one call or several, `_mine_pending`, receipts, the rate window | what was answered is kept; a receipt tells the outcome; the limit holds |
| Raw transactions (`rpc.py`, `evm.py`, the patch) | none | signing, RLP, two decoders | the sender is who signed; both servers read the same |
| Beacon layer (`beacon.py`, `cli_runtime.py`) | `BeaconState` in `storage/beacon.sqlite` | `agi beacon produce-block`, `attest`, `finalize`, `fork-choice`, the loop | one block per slot, votes on one line, finality in order and never taken back |
| Consensus engines and replica (`blockchain.py`, `ethereum_consensus_replica.py`) | stake table; replica's slots | proposer, score, committees, justification | proposers follow the stake; finality is ordered |
| Supervisor (`inhouse_chain.py`) | threads, lock, stop event | `start`, loops, `stop` | start returns once asked to; `--once` bridges the block it made |
| Ethereum clients (`ethereum_clients.py`) | config file, JWT secret, child processes | config, plan, `start_ethereum_stack` | all clients have one secret and reach each other |

### Applications and services

| Component | State | Operations | Correct when |
|---|---|---|---|
| Web application (`web.py`, `security.py`) | sessions in cookies, server threads | `handle` with hooks, middleware, guards; `run_background`, `stop` | guards run in order before the handler; a session is the one that logged in; stop ends |
| Records and migrations (`web.py`, `cli.py`) | SQLite rows; MySQL schema and its migration table | `save`, `delete`, `get`; migrate, rollback, refresh | rows whole; the schema is that of the recorded files |
| Job queue (`web.py`) | `_queue`, `_threads`, `_started`, `jobs` | `start`, `enqueue`, `stop`, workers | a job runs once; stop drains; nothing is left behind |
| `RateLimiter` (`security.py`) | hits per key | `allow` | never more than the limit in a window; nobody refused without cause |
| HTTP calls (`http_query.py`) | the attempt | tries, delays | the answer returned is the server's; an attempt starts where it was validated to |
| Bus, channels, WebSocket (`realtime.py`) | subscribers; clients; frames | publish, subscribe; send, receive, close; stop | each handler once; frames read as written; stop disconnects |
| WebRTC signaling (`webrtc.py`) | rooms, index of sockets | join, disconnect | rooms follow the connections |
| TCP server, gossip (`lowlevel_network.py`) | clients; peers, seen | broadcast, accept, stop; publish, receive | a broadcast reaches who is there; each event is handled once and everywhere |
| Native WebSocket server (C) | peers, flags, one mutex | accept, broadcast, close, stop | no walk comes to a freed peer; broadcasts do not tear each other; a thread keeps to its own connection; stop returns |
| Distributed training (`distributed_runtime.py`) | vector files | `allreduce_average` | every rank gets one step's vectors |
| Package manager (`pkg.py`) | `agilang.toml`, `agilang.lock` | add, remove, install | the lock follows the manifest |
| Project making (`smart_chain_cli.py`, `scaffold.py`, …) | a directory | `agi new`, `make:page`, `hosting scaffold`, `mobile native-bridge` | a project made can be used; the user's text stays |

### The language and its libraries

| Component | State | Operations | Correct when |
|---|---|---|---|
| Lexer, parser | position, tokens; open blocks | `tokenize`, `parse` | positions true; blocks follow the indentation |
| Type checker, `checker.py` | scopes | statements | what passes does not raise; scopes are lexical |
| Translator, C backend | import flags, module cache | `translate`, `emit` | the header is complete; C computes what Python does |
| EVM (`evm.py`) | world, frames | every instruction, the ABI codec | value kept, static frames write nothing, gas nests, every program ends |
| Zero knowledge (`zk.py`) | none | Merkle and Schnorr proofs | what is proved verifies, nothing else does |
| Tensors, vision, tokenizer | graphs, weights, merges | `backward`, convolution, Adam, BPE | gradients are derivatives; two forward passes agree; text comes back |

**How they interact.** A wallet calls `submit_tx`, directly or through one of the JSON-RPC fronts: the
node compares the transaction with table `state`, the pool files it as ready or queued, and gossip calls
the same on every peer, on the same thread, before the first call returns. A producer selects from its
pool by the confirmed nonces, executes on table `state`, imports its own block like any other and then
hands it to its direct peers. `import_block` refuses any block that is not on the head
(`stale_parent_hash`), commits the row, lets fork choice rewrite the flags, rebuilds `state` from the
receipts of the whole chain, drops the block's transactions from the pool and promotes. The beacon layer
shares no state with the node: commands and the loop load a file, change a copy and write the whole file
back; the supervisor runs both and an RPC server in threads of one process. The web framework, the
real-time transports and the trainers share nothing with the chain and little with each other: signaling
runs on the WebSocket server, web handlers on the threads of the HTTP server.

**What is hard here.**
- *Crashes between commits or writes.* `import_block` commits the row, the flags and each of three state
  keys separately; migrations run and are recorded in two commits (on MySQL each statement on the schema
  commits by itself); manifest and lock, secrets and project files are written one after the other.
- *Lost, repeated and reordered messages.* A missed block has to come by `sync_from`; blocks come again;
  gossip is UDP; frames arrive in any pieces.
- *Threads with few locks.* Job queue, rate limiter, bus, socket servers and the native server change
  shared lists in several steps, `stop` runs beside them.
- *Several views of one thing*: four of a pool, execution and replay, two decoders of a transaction, an
  index and its rooms, forward passes written for training and again for inference.
- *Files shared by processes* that do not know of each other: the beacon's, the allreduce directory, the
  manifest, the JWT secret.
- *Languages nested in each other*: scopes, imports, call frames, blocks.

## 2. Modules and code

The modules of the blockchain's core form a stack: each takes from the one below what that one
establishes, so none models everything at once.

```
Beacon                                     (independent file)

ChainNetwork   one sequence per node is enough ........ by ChainNode: the chain only grows
ChainNode      the effect of a block is a set of keys .. by Ledger: replay ends where execution did
Ledger         next nonce of each sender ............... as Mempool's selection plans it
Mempool        outcome of execution is a parameter       (Rpc: the fronts that call it)
               AppendOnlyChain: what ChainNode implements
```

For each of these modules `M`: `M.tla` is the specification with, next to the definition each one
varies, the mutants its properties are tried against, and at its end the properties and the invariants
that make them inductive; `MProofs.tla` has the theorems; `MCM.tla` and its `.cfg` files the finite
instances. `Rpc` extends `Mempool`; `Beacon` needs no instance of its own, its `.cfg` has all values.

All other modules stand alone. They have their properties at their end and are instantiated together:
`MCServices`, `MCComputations` and `MCApplications` have a variable `part` that says which of their
modules runs, while the others stay as they begin. Nothing is composed by that except where a module
composes components itself (`Rpc` with `Mempool`, `Signaling` with its WebSocket server, `Supervisor`
with the node's connection and the beacon bridge; `ConsensusStack` puts `Proposers` and `EthereumStack` side by side); it keeps one run per group of components. The theorems
about services are in `ServicesProofs` (`JobQueue`, `RateLimiter`, `Database`, `AllReduce`, `LowLevelNetwork`,
`NativeWS`, `Signaling`, `Supervisor`), those about applications in `ApplicationsProofs` (`WebApp` with the HTTP
call, `PubSub` with the WebSocket, `Manifest`, `Workspace`), those about the EVM in `EVMProofs`, those about
`ConsensusStack` with `Ledger`'s in `LedgerProofs`, each with the invariants that make their properties inductive.

### Mempool
The pool of one node and the two node operations that use it. `Add` is `mempool_add` after
`mempool_validate_tx` (`PoolAccepts`), `RemoveAndPromote` the end of `import_block`, and the loop of
`select_for_block` is unrolled into `StartBlock`, `SelectNext` (the dearest transaction at its sender's
next nonce that fits) and `EndBlock`. Balances are not in this module: which of a block's transactions
fail is chosen from `Receipts`, which knows that under strict accounting a failure takes the sender's
later ones with it. `ImportFromPeer` imports any block another node may have selected from a pool of
its own. The promotion loop is one expression: per sender, the unbroken run of queued nonces from the
confirmed one.

### Ledger
Balances, nonces and contracts. Producing and validating a block execute the same function from the
same state, so the module executes once and beside it runs the other function, replay from receipts,
transaction by transaction: `Begin`, `Execute(t)`, `End`. `work` is what execution has made of the
state, `replay` what an importer makes of the receipts; `End` stores the block, claims `work` in it and
serves `replay`. `Succeeds` is the receipt, `Applied` the effect, `Counted` the nonce. A transfer
without a `to` key credits the account `"None"` when executed and `""` when replayed; both names exist
in the model. `_rebuild_canonical_state` replays the whole chain from genesis: that ends where
replaying the last block on the state replayed before ends, which is how the module does it. The
interpreter behind a contract call is a parameter: on which code the call succeeds.

### ChainNode and AppendOnlyChain
The tables of one node's file. Each commit is an action: `PutGenesis`, `PutBlock`, `ForkChoice`
(`set_canonical_chain` clears and rewrites all flags in one commit), `PutState` (one per key), with
`Crash` possible between any two and `Start` as the only recovery. `kv[k]` is the set of blocks whose
effect key `k` shows. `Receive` is a peer's block, `Produce` the node's own, which additionally needs
`kv` to be the state of the head, since `validate_block` computes that state from the blocks and not
from the table. `Redeliver` (of the second node, see the runs) is a stored block that comes again. The blocks honest
nodes may build form a constant tree with scores and hash order as parameters.
`AppendOnlyChain` is the promise to readers: it starts at genesis and grows at its tip. `ChainNode`
implements it with `log <- canonical`.

### ChainNetwork
Several nodes in one process. A block is the sequence of payloads that leads to it. `Submit` floods: a
transaction reaches every node connected through nodes that accept it (`Reached`, the least such set).
`Produce` is taken by the producer and by the direct peers on the same head (`Takers`); nobody passes a
block on. `SyncFrom` moves pooled transactions only: the blocks `canonical_chain` returns carry two
extra keys, so their hash does not check and none is imported. `DevnetStep` is `Devnet.step`, the block
and then `sync_from` at every other node. Pools have room and transactions succeed in this module.

### Beacon
`disk` is the file, `mem[p]` the copy of process `p`. `Start`, `ReadBlocks`, `ReadVotes` are the three
SELECTs of `load_state`; the four commands change the copy and `Finish` (save, exit); `LoopSlot` is one
turn of `agi start --continuous` and of the supervisor's `beacon_once`; `Stop` ends or kills a process
anywhere. No code changes a validator's status and the committee is all of them, so one attestation
stands for the votes of the whole stake. A root is the place of its block in `made`; fork choice
between equal weights and slots may pick any of them. No lock keeps a process from saving a copy that is older
than the file. The module lets it, and two history variables tell when it has happened: `behind`, who runs and has
not read the last save of another, and `overwrites`, how often one of them has saved.

### Rpc
`EthJsonRpcService` on the node's thread: `Post` takes a batch, `handle_many` one call after the other;
a send submits, and with `auto_mine` mines (`Mempool`'s steps, one block per round) before it answers; a
malformed item raises outside the `try` and loses the answers so far. Beside it the gateway the patch
puts in place (`serve_project_rpc`): its handler threads run the rate limit deque by deque operation,
`Arrives` to `LetThrough`, and fail at everything that touches the node, whose connection belongs to
another thread.

### RawTx
Signing, RLP and recovery over a curve `y^2 = x^3 + 7` of 79 points: bytes are digits of a small base and
"long" begins at a small length, so every branch of the encoders and decoders is met. `Decode` is
rpc.py's reading of a raw transaction, `GatewayDecode` the patch's, each field by field with its own
defaults.

### EVM
`EVMInterpreter.execute` and `_run`. Python's recursion is the sequence `frames`; one action per group
of instructions that share their shape, with gas, stack limits and jump checks in front (`Charged`).
Words have `WordBytes` bytes. The exceptions `execute` catches are one failure, as each of them ends it alike
(`Raise`). Those it does not catch (`evm.py:696-702`) leave it without a result (`Escape`, `Escaped`): memory that
cannot grow (`evm.py:637`, which grows it before the gas is taken; `TooLarge`, `Outgrows`) and a recursion of `_run`
(`evm.py:919`) that Python's own limit ends, in a frame that begins or in a helper the last one calls. How many frames
and how much memory there is for is part of a request (`room`, `memory`). The
arithmetic of the interpreter, its gas and the results of calls were compared with the real `evm.py` on
953 executions, its constants scaled down likewise, and agreed in all of them; where the code departs from
Ethereum (section 6) the module follows the code. `EVMTools` has the ABI codec (`evm_abi_encode`,
`evm_abi_decode`) and the bytecode builder and disassembler; their recursive operators stay out of the module
that is proved about. What `EVM` itself computes by recursion (a jump table, a word read from bytes, a power)
are functions.

### Proposers, EthereumStack, ConsensusStack
`Proposers` has `select_proposer` and the validator sets of the PoS, DPoS and developer engines, drawing
once for each remainder of the seed, the score of blocks on two branches, and the replica's duties,
committees, justification and finality. `EthereumStack` has the clients' configuration, the checks of it,
the plan of commands and ports, `ensure_jwt_secret` in its three steps and `start_ethereum_stack` client by
client, by two processes that may be killed. The three share no state; `ConsensusStack` lets them step one at a
time.

### ZK
The Merkle tree level by level and the proof's climb, with hashes as terms; Schnorr proofs over a group
small enough for exponents to wrap, for every challenge.

### Services
- `JobQueue`: `_started`, the list of threads, the queue; `start`, `enqueue` and `stop` as steps that
  others come between; jobs that may leave their thread by `SystemExit`.
- `RateLimiter`: `allow` takes the time, reads the hits, and decides and writes them back, each a step.
- `Database`: active records over rows that other sessions change; `MigrationManager.run` in several
  processes with its two commits; `agi db` on MySQL, statement by statement, with what MySQL commits by
  itself, the locks that rows hold, refresh and kills.
- `AllReduce`, `Rendezvous`: vector files as they are created, written and read; `AllReduce` implements
  `Rendezvous` for step names used once.
- `LowLevelNetwork`: gossip datagrams that get lost, doubled and reordered; the TCP server's list of
  clients under broadcasts, disconnects and `stop`.
- `Signaling`: the WebSocket server's connection threads, the room table and the index, `stop` from a
  thread of its own and a server that is run again.
- `NativeWS`: the C server: accept thread, peer threads, broadcasts and `stop` with the one mutex. A peer
  has the number of its descriptor (`fd`), and `names` says which connection a number stands for: a number
  closed is given again by the next `accept`, while the peer that had it may still read, write or close by it.
- `Supervisor`: main thread, validator, beacon and RPC threads, the lock they share and the connection
  that answers one thread only.

### Applications
- `WebApp`: a request through before handlers, static mounts, route, middleware, handler and after
  handlers; signed cookies, sessions and CSRF; the server's threads while it is started and stopped. The
  same module has the retried HTTP call, with redirects and errors that leave it at once.
- `PubSub`: publish over a copied list while others subscribe and leave; the frames of a WebSocket read
  from pieces, over a timeout, after a handshake.
- `Manifest`: the toml and lock files under overlapping and killed commands, with the keys of `[project]` that
  `write` knows and one it does not.
- `Workspace`: templates as sequences of files with what each needs when it is used; the functions `agi
  new` can reach; refusals, `--force`, edits and kills. The file lists were compared with what the real
  generators write.

### The language
- `Parser`: `tokenize` over classes of characters; blocks by indentation, with their error codes.
- `Checkers`: the type checker's scopes beside Python's execution of the same program; the scopes of
  `checker.py`.
- `Compiler`: the translation of files that import each other by one object with flags and a cache; the C
  backend's expressions, printed, read by C's precedence and evaluated in machine integers.
- `Learning`: the graph of `ndtensor.py` and `backward`; byte-pair training, encoding and decoding.
- `Vision`: convolution, pooling and the classifier in each of their copies, the training loops'
  gradients, Adam, and which device a kernel is sent to.

## 3. What the runs show

| Run | Module, cfg | Distinct states | Expected |
|---|---|---|---|
| `mempool` | `MCMempool`, `MCMempool.cfg` | 416 045 | holds |
| `mempool_first_nonce` | `MCMempool`, `MCMempoolFirstNonce.cfg` | | violated |
| `chain_node` | `MCChainNode`, `MCChainNode.cfg` | 7 619 | holds |
| `chain_node_crash` | `MCChainNode`, `MCChainNodeCrash.cfg` | | violated |
| `chain_network` | `MCChainNetwork`, `MCChainNetwork.cfg` | 657 022 | holds |
| `chain_network_sync` | `MCChainNetwork`, `MCChainNetworkSync.cfg` | | violated |
| `computations` | `MCComputations`, `MCComputations.cfg` | 882 358 | holds |
| `beacon` | `Beacon`, `MCBeacon.cfg` | 9 664 696 | holds |
| `services` | `MCServices`, `MCServices.cfg` | 322 531 | holds |
| `supervisor` | `Supervisor`, `MCSupervisor.cfg` | | violated |
| `applications` | `MCApplications`, `MCApplications.cfg` | 822 351 | holds |
| `workspace_new` | `Workspace`, `MCWorkspace.cfg` | | violated |

The violated runs are findings; they are in section 5. Each property of a run that holds has a mutant:
one definition of the model changed the way a plausible bug would change that code, under which TLC finds
the property violated. A property that is a conjunction over several components has a mutant for one of
them; the other conjuncts were tried against changes of their own modules as they were written.

**mempool.** Four parts.
- *A node in a network.* Two accounts, eight transactions, a pool of four, blocks of at most three
  transactions and three units of gas. Two transactions of each sender compete for one nonce, both
  senders go on to nonce 2, and the first ones may fail. Each limit is met: the pool fills when a
  transaction has gone stale beside its rival, the gas limit passes over one transaction and takes the
  next, the gap refuses one, a peer's block mines the rival of a pooled transaction. `PoolConsistent` is
  about the four views; `HeadOfLineReady` is what the mining loops rely on when they skip a turn because
  `ready_pool` is empty; `NoReplay` says that what was executed can never be pooled again;
  `SelectionExecutable` says at every round of the loop that what has been taken will pass the nonce rule
  when it is executed.
- *A node that mines alone.* A loop starts a block while `ready_pool` is not empty. `RunnableIsMined`: a
  pooled transaction whose predecessors are all pooled is mined. Fairness: the mining steps together,
  weakly, because `_mine_pending` and `validator_once` are loops that run on whatever else happens; none
  for submission, which clients may stop.
- *JSON-RPC.* POSTs of one to three calls, with and without `auto_mine`. `SendsAreKept`: what was
  answered, or lost with its POST, is pooled or mined, one receipt per nonce says `0x1`, and with
  `auto_mine` nothing executable is left. `PostsEnd`: every POST is handled to its end, given that its
  thread runs (`Handles`).
- *The gateway's window.* Two threads, a limit of two within one unit of a clock of three. `WindowKept`:
  as long as no two requests are in `rate_limited` together, no more than the limit get through, none is refused
  before as many have, and the window is never the reason why one goes unanswered; that this is all that can be said is
  the race in section 6. (What a request holds may be such a reason: `int()` of its length and `get` of an item that is
  no object are outside the `try`, `Reply`.)

**chain_node.** A tree of eight blocks, three of which compete at height 1, and a finality depth of
one, so that blocks become final and a crash can leave one or two siblings of the next block behind.
Crashes are unlimited. `RowsConsistent` holds after every single commit; `AtRest` says that an import
that completed leaves flags, finality and the three state keys in agreement, however many crashes
preceded it; `NothingTakenBack` that the canonical chain only grows and finality stays;
`ImportMakesHead` is what `import_block`'s answer `ok` suggests, with the exception a sibling makes;
`ImplementsLog` is the refinement of `AppendOnlyChain`. A second node, in the same run, also gets stored
blocks again: `put_block` resets the flags of such a block, so in the middle of an import its canonical
rows have a gap and finality is withdrawn for a moment; `AtRestAgain` is what remains, and it does.

**chain_network.** Three nodes connected one by one in any order, three transactions of one sender (two
compete for nonce 0), chains of two blocks: enough for nodes that part at height 1 and go on
separately, for a node connected after a block it missed, and for a transaction that one chain has and
the other's pool still offers. `HoldingsConsistent` says that pools stay fresh and nonces run in order
on every chain. `SplitIsFinal` states the other side of the rule that a block must be on the head: once
two chains differ, nothing a node receives brings them together. The same run has the devnet, all nodes
connected before the first block and blocks made by `Devnet.step`: `DevnetAgreement`, all chains and
pools are equal after every call.

**beacon.** Two processes beside each other (interchangeable: `ProcSymmetry`), two slots per epoch, four blocks
(the fewest with which a checkpoint of a later epoch than genesis is final), the four commands and the loop in any
order, killed anywhere, their reading and saving interleaved. `FileConsistent` holds whatever they do, torn reads and
lost updates included. The others hold until one process saves over what it has not read (`overwrites = 0`), which two
commands at the same moment can do: then both propose the same slot, and nothing more can be said. What they say of
two processes is that this is the only way: a command beside a running loop does no harm as long as it begins after the
loop's last save and ends before the next. `MaxOverwrites` lets one such save happen, for what others read of it.
`VotesOnOneLine` and `FinalOnHead` matter because fork choice weighs votes only: a block
without votes is abandoned for an older one and production goes on from there, so branches do arise.
`LoopFinalizes`: as long as the loop takes the turns, every epoch's first block is justified in its own
slot and final one epoch later, whatever commands ran in between and wherever it was stopped.

**computations.** Nine parts.
- *Ledger.* Two accounts under strict accounting, seven transactions, three blocks of up to three, own
  and peers' in any order. `a` has 2 and promises 3 in two transfers, `b` can pay its first only after
  `a`'s, one transfer pays its own sender, one has no receiver, a call succeeds only on the code a
  deployment puts in place. Transactions that fail come again. `AccountsSound` keeps the supply
  (`SupplyConserved` counts the two names nobody holds) and has no negative balance although `submit` compares each
  pooled transfer with the whole balance and selection looks at none, every nonce spent once over all
  blocks, and deployments that fail only after a failure of their sender; `ReplayAgrees` is the agreement
  of execution and replay.
- *EVM.* Programs for each instruction on stacks of several depths, loops, jumps, and nested calls of
  every kind in which a contract does everything it can, to a depth of three. `FramesContained`: the
  counter is at an instruction, gas nests, delegation keeps the root's address, nobody owes money;
  `StaticReadOnly`; `ValueConserved`, up to what CREATE and SELFDESTRUCT do in this code; `ExecutionEnds` under weak fairness
  of the interpreter: gas bounds every program, and without a result it ends only where Python has less room for
  calls than `MAX_CALL_DEPTH` asks for or less memory than two words can address. The cramped requests have room for
  one to four frames and memory for none to some words, so that an exception leaves from every depth, before, in
  and behind a call, a creation and a return.
- *ABI and bytecode* (`CallDataKept`, `ToolsAgree`), *raw transactions* (`SignedIsRecovered`: what is read is what was
  signed and the sender is who signed, with every exception the code makes named; `ServersAgree`: the
  gateway reads what rpc.py reads, where both accept), *Merkle* and *Schnorr* (`ProofsVerify`,
  `ProofsAccepted`), all by enumeration over small inputs.
- *Proposers* (`ProposersFair`: over as many seeds as there is stake each validator proposes as often as it has stake;
  the longer branch scores more), the *replica* with one to five validators (`ReplicaDuties`,
  `ReplicaFinality`: four or fewer finalize, five never), and the *Ethereum stack* (`OneSecret`,
  `StackUp`, with two starts, a rewritten configuration and missing programs).

**services.** Eleven parts.
- `MessagesWhole`: gossip of two events among three nodes in a ring, one of whose handlers raises, with
  loss and repetition (`HandledOnce`); two TCP broadcasts to two clients (`CastComplete`,
  `RaisesOnlyOverlapped`); two connections on two numbers of
  the native server, two broadcasts and a handler that hangs up (`NoFreedPeer`; `BroadcastsWhole`, which holds of
  broadcasts whatever their numbers name; `OnlyClosedTwice`: a thread uses another connection than its own
  only once a handler or `stop` may have closed its number before it does).
- `RoomsAndTurns`: two connections, two rooms, one id for both (`GoneLeaveNothing`, `JoinedReachable`),
  and `--once` of the supervisor (`OnceBridges`).
- `HistoryKept`: jobs (`TakenOnce`, `StopDrains`, `NoRevival`), hits (`WithinLimit` while no call has changed
  the hits under another, `RefusedForCause` always), migrations (`InOrder`, `SettledStays`), records
  (`RowsWhole`, `SameRow`).
- `AveragesWhole`: two workers, four rounds of which two share a name; refinement of `Rendezvous` for the
  named ones (`ImplementsRendezvous`), and what is left of it for the others (`OneOfEach`).
- `ServicesStop` and `AskedIsDone` are liveness; the second also has the schema follow the records of the
  migrations on MySQL (`SchemaFollowsRecords`). *Fairness:* the operating system schedules
  the threads (`JobFairness`, `AllReduceFairness`, `SupervisorFairness`, `GossipFairness`, `SignalFairness`,
  `WSFairness`); no fairness is about a step that waits for a client or runs the application's code. What such a
  step needs is the hypothesis of the property, on the states that wait: that jobs end (`JobsEnd`), that no client
  keeps a thread of the WebSocket server waiting in a handshake, a read or a send, which have no timeout
  (`ClientsAnswer`), nor one of the native server (`NoneWaits`); and for `StopFrees` that `accept` returns
  (`AcceptReturns`), for which no code provides: without one more connection the accept thread does not look at
  `running` and `stop` waits for ever. Without these hypotheses the three stops do not end what they stop.

**applications.** Sixteen parts.
- `CompilerSound`: files that import each other, in rings and diamonds, one missing (`HeadersComplete`,
  the header has what the output needs; `CyclesRefused` in `ApplicationsEnd`); programs of up to three
  statements and three blocks for the type checker (`AcceptedRuns`); walks through scopes
  (`ScopesLexical`); all sequences of lines of some kinds (`TreeFollowsIndentation`), all short texts
  (`PositionsTrue`, `Longest`); C expressions on four-bit integers (`MeaningKept`, within the fragment
  that C and Python share, which the module states).
- `LearningExact`: graphs of up to five tensors, two calls of `backward` (`GradientExact`, against
  tangents taken forward from the leaves); texts with and
  without rare words left out (`RoundTrip`); images up to 4 by 4 with
  strides (`PlainSlopes`, `FeatureSlopes`, `ClassifierSlopes` compare the training loops' gradients with
  the difference quotient, `ForwardsAgree` the copies of the forward pass, `DispatchedWhereItRuns`);
  five steps of Adam (`MomentsUnbiased`).
- `FrameworkSound`: two server threads, two browsers, a session that expires, a server stopped and run
  again (`PipelineInOrder`, `SessionsSound`); a call with two retries and a redirect (`AnswersTrue`: a private host is
  reached only where a redirect leads); three package
  commands of two processes (`NothingInvented`); two publishers and three handlers (`DeliveredOnce`);
  frames of every length class in any pieces (`FramesRead`); two commands in one directory with edits and
  kills (`ProjectUsable`, `EditsKept`).
- `LockMatches`: whenever a command completed with none beside it, the lock has the manifest's dependencies and its
  project, except that the lock after `agi add` or `agi remove` still has the keys (`template`) that writing the
  manifest has just dropped; after `agi install` the two are the same. Projects of `init_project` and of `agi new`.
- `ApplicationsEnd`. *Fairness:* the translator, the parser and the HTTP client run on
  (`TranslatorFairness`, `ParserFairness`; `HTTPFairness` assumes that a wait ends, though urllib's timeout is of one
  operation of the socket), and the
  server's loop and the thread that stops it are scheduled (`WebFairness`); no request need end and
  nobody need stop the server.

**Deadlock.** The runs of the pool, the computations, the services and the applications allow the system
to stop: the chain has its height, a program ends, a queue is stopped. The others are checked for it.

**Bounds.** Those in guards are named `Max...` (`MaxHeight`, `MaxBlocks`, `MaxCalls`, `MaxJoins`, `MaxTime`,
…) and commented where they are declared; all else is the finite sets of the instances. They are as small
as the run lets every action happen, and each limit of the code itself (a full pool, a rate limit, a
stack, a recursion limit, a frame's length class) is met inside them. The theorems have no bound beyond
an arbitrary natural number.

## 4. What is proved

The proofs are in `MempoolProofs`, `LedgerProofs`, `ChainNodeProofs`, `ChainNetworkProofs`, `BeaconProofs`,
`ServicesProofs`, `ApplicationsProofs` and `EVMProofs`, over arbitrary constants that satisfy the named assumptions of the
modules: parameters are functions of the right type, bounds are natural numbers, hash orders are injective, a
block tree is a tree with heights, scores come from stakes not above the total, a migration is listed once,
threads have names of their own, accounts and handlers are finitely many, a route has known middleware and a name for
what it does, a frame has a size, the wildcard is no topic, stakes are integers and the staked finitely many, a replica has a
validator and an epoch a slot, the default ports differ, powers of 2 and of 256 are natural numbers greater
than their exponents (true, but the provers do not know `^`). Nothing else is assumed, with one exception
marked below (`Hashes`). `TemplatesAssumption` is no assumption on a parameter: it reads five facts off the thirteen file
lists of `Workspace`, which have no parameters, and TLC evaluates it in full in every run of the module.

| Theorem | States |
|---|---|
| `PoolAlwaysConsistent` | types, partition, index and capacity of the pool |
| `HeadOfLine`, `NoReplayEver`, `SelectionAlwaysExecutable` | the three properties that other code relies on |
| `AccountsAlwaysSound` | no value made or lost (`ValueNeitherMadeNorLost`, strict or not); strict accounting: no overdraft, no nonce twice |
| `ReplayAlwaysAgrees` | claimed state is served state, strict or not; deployments fail only after a failure |
| `ConsensusIsSound` | shares of proposers, scores of branches, duties and finality of the replica; one secret, and a stack that is up when a start says so |
| `CanonicalAlwaysPath`, `AlwaysAtRest` | with a crash possible after every commit |
| `NothingEverTakenBack`, `ChainImplementsLog` | action properties and the refinement |
| `ImportedIsHead` | what an import reports is the head, unless a crash left a sibling |
| `RedeliveryLeavesRest` | the same rest when stored blocks come again |
| `NetworkTyped`, `ProducersKeepBlocks`, `HoldingsAlwaysConsistent`, `SplitsAreFinal` | any number of nodes |
| `DevnetsAgree`, `DevnetsAlwaysAgree` | one chain and one pool in a devnet |
| `FileAlwaysConsistent` | any number of processes on one beacon file |
| `NoSlotTwice`, `VotesStayOnOneLine`, `FinalIsOnHead`, `FinalNeverTakenBack` | the same, until one saves over what it has not read |
| `HistoriesAreKept` | jobs, rate limit, rows and migrations (`JobsAreKept`, `LimitIsKept`, `RowsStayWhole`, `MigrationsAreSettled`) |
| `ServicesAverageWhole` | the allreduce implements the rendezvous (`AllReduceGivesRendezvous`) |
| `MessagesAreWhole` | gossip, TCP broadcasts, the native server (`FloodHandledOnce`, `CastsReachTheListed`) |
| `RoomsAndTurnsKept` | signaling's rooms, `--once` (`SignalingKeepsRooms`, `OnceIsOnce`) |
| `FrameworkIsSound` | requests and sessions, HTTP calls, the manifest, publications, WebSocket frames, generated projects |
| `LockFollowsManifest` | the lock is the manifest, up to keys dropped from it, after a command that ran alone |
| `ProjectsUsable` | projects of `Workspace` alone |
| `EVMFramesContained` | any word size, stack, depth and program: instructions, gas, delegation, bounds, debts |
| `EVMStaticReadOnly`, `EVMValueConserved` | the action properties of the EVM |

The theorems about services and applications are stated for the specification the runs check, by projection of each
step of `MCServices` or `MCApplications` on the component's variables; those about services also for the
specification of each component.

**Mempool.** The properties of the selection are not inductive: that each nonce taken is the next needs
to know that `sel.next` is exactly one past what was taken of each sender and that the selection is
drawn from the pool (`SelectionInv`). `HeadOfLineReady` needs the index, since only one pooled
transaction can have the sender's next nonce.

**Ledger.** Execution and replay are the same for every *account* although not for the names nobody
holds: `Same(work, replay)`, kept because both are one effect up to the name that is credited
(`AppliedParts`, `SameStep`). That no nonce is spent twice carries, beside the chain, what the block in
the making has spent: exactly the nonces between those of the state below it and those execution has
reached (`BlockSpends`). That deployments only follow a failure rests on `InStep`: until something of an
account has failed in the block, selection's next nonce is execution's. The supply is a fold over a set; that
the recursive function behind it exists, and that it changes by as much as one balance does (`SumChanges`),
follow from the smallest set for which they would fail (`LeastNumber`), which needs no induction theorem.

**Consensus.** *Proposers* (`ProposerInv`): who has proposed is who is selected for each seed so far (`Picks`), and the last
block of a branch scores what its height and proposer say (`Scored`). That shares are stakes is a fact about
numbers: the cursors of the sorted validators grow by their weights (`Growing`) and cut the range of the total into
one stretch each, as long as the weight, in which exactly that validator is drawn (`BetweenCursors`, `DrawnThere`,
`TurnsByWeight`). A set sorted is a sequence without repetition and its total a sum of natural numbers, whatever the order
(`SortedIs`, `SumMapped`, `SameSum`); that sums over a finite set exist and change as they should follows, as for the
supply, from the smallest set for which they would not (`LeastSet`). *Replica* (`ReplicaInv`): duties and finality are
functions of the slot (`DutiesAre`, `FinalityIs`); in as many slots as there are validators a remainder comes once
(`Residues`), so that each validator sits in three committees (`SitsThrice`). *Ethereum stack* (`StackTypes`, `SecretInv`,
`UpInv`): unless two starts met at the secret, one start at most makes it, the file is empty only while that one writes, and no client
runs before it is there (`SecretAlone`, `SecretFirst`); what of its plan a start has no longer to do runs
(`StarterUp`), be it because its own client stayed or because the same client of an earlier start is in the way (`OneIsUp`),
every plan is that of the one configuration in some mode (`ClientUp`), and roles come up in order (`ChainUp`). That
holds as long as nothing has happened that no start can make good (`Calm`), which is the property's own condition.

**ChainNode.** The argument is that fork choice can never leave the head. Every stored block is a child
of a canonical block (`StoredInv`), so a leftover sibling is at most as high as the block being
imported and the head's parent, and the score grows with the height faster than with any stake
(`HigherWins`): the best candidate is always a child of the old head (`ForkChoiceExtends`). `FlagsInv`
ties the flags to one path, `StepInv` says where an import stands and `StateInv` which keys it has
written. `ImportMakesHead` follows at the fork choice step: with no leftover sibling the best candidate above the
old head is the block itself (`ImportWins`). When stored blocks may come again the canonical rows have a gap in
the middle of an import, so `AgainInv` has another argument: fork choice takes the repeated block `t`, a
child of it, or, when `t` was a leftover itself, the stored sibling that stands in its place (`AgainStepInv`,
`TakenLast`), and each of them leads to the same chain up to its tip.

**ChainNetwork.** `ProducerKeepsIt` is inductive with types. `SplitsAreFinal` follows since every step
appends one and the same block to chains that are equal. Freshness of a pool and order of a chain's
nonces hold one another up, node by node (`HoldInv`): a block selected from a fresh pool continues the
nonces (`BlockInOrder`), and what a node accepts is neither pooled nor mined there (`AcceptedIsNew`). `DevnetsAgree` needs the complete graph: a
flood reaches all or none (`FloodAllOrNone`).

**Beacon.** `FileConsistent` holds for any number of processes since it is a property of each copy that
no operation disturbs, so torn reads and lost updates cannot either. The other four are about any number of
processes too, up to the first save over what was not read; after it
`NoDoubleProposal` is violated within a few steps: both load, both produce the next slot, and a third
load may see the blocks of one save with the votes of another. The invariant `SeqInv` says that lines
are closed (`Lines`), that head, votes and checkpoints of the file are on lines as they should be
(`Sound`), and that what a process that is not behind has read so far is still what the file holds (`OneReader`): a save
puts all others behind (`FinishSeq`), and who saves without being counted was not (`NotBehind`).

**Services.** *Jobs* (`JobInv`): the queue is first in first out, each worker's job is out of it, and a thread
that a `stop` has joined without a timeout has ended (`JoinedGone`); the sentinels stand behind
every job put before the first stop (`EarlyFirst`). *Hits* (`LimiterInv`): as long as no call has written under another, a call that
has read knows exactly the window's hits (`Undisturbed`), and a window's hits are those of the last one
admitted, counted when it was admitted. *Rows* (`OrmInv`): no object has an id that is still
to be given (`IdsGiven`), where the next id exists by induction on numbers (`LeastNumber`). *Migrations*
(`MigrationInv`): a process stands behind recorded migrations only, and one that is to record has taken effect
(`InPlace`). *Allreduce* (`AllReduceInv`): a file of a
step holds a vector that belongs to the step and to its worker, and a round returns only what it has read so;
`Brought` and `Result` map it to `Rendezvous`.

**Peers.** *Gossip* (`GossipInv`): an event was handled at most once and only where it has been seen. *TCP*
(`TCPInv`): a broadcast that runs alone has dealt with its copy of the list up to its index, and everyone
behind that is still listed (`AloneOK`). *Native server* (`WSInv`): listed peers are alive, who walks the list
holds the mutex (`LockedWalk`), a number names the connection that got it last (`NumbersOK`), so that a broadcast
with half a frame out in an open connection is about to send the rest by the same number (`HeadersOK`) and holds
the mutex; and until a peer may be closed by another than its own thread each thread's number names its own
connection (`OwnNumbers`). *Signaling* (`RoomInv`): an entry whose id one socket alone has used is that socket's from its join to its
thread's leave (`OwnPeers`). *Supervisor* (`SupervisorInv`): how far `--once` is decides height and
bridge (`OnceSoFar`).

**Applications.** *Manifest* (`ManifestInv`): what is in the files, or held by a command to be written, was asked for,
and a command that runs alone and comes to the lock holds what the file has and the keys it has dropped (`AloneInStep`).
*HTTP* (`HTTPInv`): what has been sent was made by the call at or before the place where it is (`BeenSent`), so that no
request is sent twice, and each was led there (`Led`); that a second error of the server is not reported early needs
that a pause is only taken before the last attempt.
*Publications* (`PubInv`): for each handler that was there from the start and has not left, the calls it has had and
those still in the copied list (`ToCome`) are the rounds so far; that lists have no handler twice is kept when
one list is appended to another without its members (`DistinctJoin`), and what a publish returns counts a finite
set of calls (`CallsFinite`).
*Web* (`WebInv`): how far a request has come says which guards and hooks have run, in order (`RequestInv`); a guard
that answers leaves a prefix of them (`CalledUpTo`), a hook that raises leaves one with the after handlers behind
it, and the route is the same for the whole request (`RouteFound`). A cookie that names a user was made at a login
known to the server (`LoginKnown`), so a session is as old as that login whatever is replayed.
*WebSocket* (`SocketInv`): as long as nothing was swallowed and the reader is in step, what stands in the buffer and on the
wire is the rest of the frames from the piece the reader is at (`StandsAt`): there are two functions, from places in
the buffer and the wire to frames and to the pieces of a frame, that go on by one piece at a time. The encoding's three forms of
the length enter once (`Encoded`: what is written is what the reader asks for next, in number and size of pieces),
and arrival in any pieces not at all, since only the concatenation counts.
*Workspace* (`WorkspaceInv`): at step *n* of a script, the files its earlier steps leave and no later one removes
(`LeftBy`) are there and whole, as this template writes them (`Underway`), whatever was there before; and while a
command writes that is not forced, no text the user has kept is in its way (`NoneInTheWay`), without which
`EditsKept` is not inductive.

**EVM.** `EVMInv` is a property of every frame by itself (`FrameOK`: it is at an instruction, and what it
keeps is bytes, words and a stack with room), of any two of them, adjacent or not (`FramesOK`: who is called has no
more gas, and is static if the caller is), and of the accounts. An instruction changes the last frame only and
leaves alone what the others go by (`Continues`, `TopChanged`), a call adds a frame, an end removes one and moves
its caller on: to be able to, a frame that waits for a call has room for the answer (`Len(stack) < MaxStack`), the
conjunct without which the invariant is not inductive. That jumps and pushes stay at instructions rests on the
table that `_valid_jumpdests` walks: behind an instruction begins the next (`StartTable`). The total of the
balances is a recursive function of the addresses; it exists (`RecursionExists`) and a transfer leaves it alone,
one to oneself included (`TransferConserves`). The three theorems have a hypothesis, `Hashes`: Keccak answers a
word and a new address is an address. It is a hypothesis because TLC cannot enumerate all sequences of
bytes; the run's `MCKeccak` and `MCNewAddress` satisfy it.

**Only model-checked.** All liveness (`NodesServe`, `LoopFinalizes`, `ExecutionEnds`, `ServicesStop`,
`AskedIsDone`, `ApplicationsEnd`) with what is stated beside it (`SchemaFollowsRecords`), which is out of the
prover's reach; what recursive operators compute of data (RLP, the ABI, the curve, C expressions, gradients:
`SignaturesSound`, `CompilerSound`, `LearningExact`).

## 5. Where the code departs from its documents

- **`mempool_first_nonce`** (`BlockEmptiesPool`). A new account's next nonce is 0 in the patch;
  `tests/test_v19_blockchain.py:35` submits nonce 1 and asserts an empty pool after the block. The
  transaction stays queued.
- **`chain_node_crash`** (`StateFollowsHead`). A crash after `set_canonical_chain` and before the last
  `put_state` leaves state of an older head; `_ensure_genesis` returns at once. The node then produces
  blocks that fail its own validation until a peer's block makes it rebuild. Confirmed on the running
  code. `docs/BLOCKCHAIN_FRAMEWORK_V19.md:63` says that state is replayed after fork-choice updates.
- **`chain_network_sync`** (`SyncCatchesUp`). `sync_from` imports no block, because
  `list_canonical` adds two keys to each and its hash no longer checks. Confirmed on the running code.
  `docs/BLOCKCHAIN_FRAMEWORK_V19.md:3` promises peer-to-peer sync.
- **`supervisor`** (`ValidatorProduces`). The validator thread of a supervisor that runs for ever uses the
  connection of the main thread and gets an exception in every turn. Only `--once` and what runs on the
  main thread work. `docs/UNIFIED_INHOUSE_NODE.md:50` says that the service produces blocks.
- **`workspace_new`** (`NewMakesProject`). `agi new` with any template but the smart chain's calls itself
  until Python's recursion limit: `smart_chain_cli.main` has rebound the function that
  `smart_chain_scaffold.create_project` delegates to. Confirmed on the running code. `cli.py:1129`
  promises a full web starter by default.

## 6. What else was observed

Behaviour the models had to follow and a reader of the properties should know of; where a property has
an exception, it is one of these.

**Chain and network.** A dearer transaction with the nonce of a pooled one is refused, while
`docs/MAINTENANCE_TUNING_V19_1.md:21` speaks of replacement. A gossiped block is not passed on, while
`docs/BLOCKCHAIN_FRAMEWORK_V19.md:17` speaks of gossip of blocks. A transfer without a `to` key makes
claimed and served state differ in the entries `"None"` and `""`. `produce_and_import_block` gossips
while it holds the node's chain lock (patch:395): two connected nodes that produce in two threads could
wait for each other; the modules run calls between nodes to their end, as one thread does. The node has
no `close()`, so the supervisor's `stop` leaves the database open.

**Beacon and consensus.** Two processes on one file propose one slot twice, while
`smart_chain_scaffold.py:122` rejects double proposals. Validators that run the loop vote in every slot
and are double voters by the rule of `detect_slashable_events` from the second slot of an epoch on. In
the replica five or more validators never justify, since a committee of three is less than two thirds.

**JSON-RPC and gateway.** A failed transaction submitted again and executed still shows `0x0`, as the
first receipt is found. A malformed item of a batch loses the answers of sends before it that took
effect. `eth_sendTransaction` is not guarded by the expose flag. A transaction too large for a block
makes `auto_mine` produce `max_block_txs` empty blocks per send. The gateway's rate window has no lock:
overlapping requests may raise `IndexError` and go unanswered, or over-admit. A `Content-Length` that is no number, or an item
that is no object, also leaves a request without an answer (patch:589, 607). `serve_project_rpc`
answers -32000 to everything that touches the node, whose connection is another thread's
(`tests/test_blockchain_rpc_methods.py` fails on that). Its decoder makes every raw transaction a
transfer (patch:508), so that deployments and calls never run code through it; it takes pre-EIP-155
transactions and typed ones with an empty chain id for its own chain, which `rpc.py` refuses; and it
prices by `max(fee, tip, 1)`. `docs/JSON_RPC_METAMASK_V19_6.md:40-45` still says that signed raw
transactions are rejected. An unsigned legacy transaction with an empty `to` is encoded with 20 zero
bytes. An RLP item may run over its list's end.

**EVM.** Operands of `SUB`, `DIV`, `MOD`, `LT`, `GT` and `EXP` are in the other order than Ethereum's.
`REVERT` and exceptions undo nothing. A callee's gas is not charged to its caller. `CREATE` runs no init
code and mints what it endows. A `CALL` with value is allowed in a static context; `CALLVALUE` in
`STATICCALL` is the caller's. Memory that `MLOAD`, calls and returns expand is not paid for; logs of
callees are lost. `SDIV` goes through floats and is inexact above 2^53 (`evm.py:781`). Memory grows before its
gas is taken (`evm.py:637`), so that an address near 2^256 is an `OverflowError` or a `MemoryError` and no lack of gas; and
`MAX_CALL_DEPTH` is 1024 where Python's own limit is 1000 frames, so that deep calls end in a `RecursionError`. Neither is
an `EVMExecutionError`: both leave `execute` without a result (`evm.py:696-702`), with what was done to the accounts
done. ABI arrays of dynamic values decode to empty values (`evm.py:385-390`), and integers wrap silently. The
encoder takes an address of any length and keeps its last 40 digits (`evm.py:196-204`), pads a `bytes32` that is
short (`evm.py:265-269`), and encodes the text `false` as a true `bool` (`evm.py:298-299`): what is read back is
another value, and `KeptAs` says which.

**Zero knowledge.** `verify` of a Merkle proof ignores the index. `zk_range_constraints` checks nothing.

**Ethereum clients.** The `agi chain ethereum-…` commands of the documents do not exist in the command
line. Besu's command does not name the engine port. Prysm's validator speaks only to port 4000 of a prysm
node, while validation accepts other mixes. `start_ethereum_stack` ignores the answer of
`ensure_jwt_secret`: an empty file left by a kill stays; two first starts may draw two secrets; a missing
program raises and leaves the clients before it running. `validate_chain_services` reports a service
missing from the file as off, while `start` runs it.

**Web.** Static files, middleware that answers and 404 skip the after handlers, `security_headers` among
them; exceptions in hooks go unanswered. `set_cookie` twice folds two cookies into one header
(`web.py:72-95`). A server run again after `stop` serves a closed socket. `save` writes all columns (a
lost update) and is silent when the row is gone; the id of a deleted newest row is given again. The HTTP
client repeats requests that are not idempotent. It validates the URL it is given and no redirect
(`http_query.py:162`), so an answer from outside can lead it to a private destination that `http_query.py:72` says is
blocked; an error while the body of an error is read (`http_query.py:175`) leaves the call without a retry. Keys of `RateLimiter` are never purged.

**Migrations and packages.** On MySQL, a run killed between a statement on the schema and its record
leaves an `ALTER` that can never run again; files written in one second sort by action, `add_` before
`create_`; a killed refresh leaves records of dropped tables; `_split_sql` takes quotes in comments for
strings. The manifest is truncated and written, and the lock written after it: a kill leaves an empty
`agilang.toml`; writing drops its other sections and all keys of `[project]` but three, which the lock keeps until
the next command.

**Realtime.** `server.channel(name).publish` delivers to local subscribers twice (`realtime.py:296-300`).
`stop` waits for every client that does not read, as `close` sends a frame, and ends no thread that is in a
handshake or a read, which have no timeout (`realtime.py:176-186, 208-236`). The native server closes a descriptor
that its handler or `stop` has closed once more when the peer's thread ends (`agilang_net_runtime.c:277, 395, 310`):
if `accept` has given the number to another connection meanwhile, that one is closed, or its frames are read and
answered by the first peer's thread; and a broadcast whose peer leaves during its turn goes to whoever gets the
number. `pthread_detach` reads a peer that its thread may have freed (`:340`), `stop` frees the server under the
peers' threads (`:404`), a failed `pthread_create` leaves a peer that nobody serves, and a send to a client that is
gone raises `SIGPIPE`. The Python client loses frames that arrive in one piece with the handshake's answer, and a timeout in the middle
of a frame, or a frame too large, leaves the stream out of step.

**Making projects.** Beside the finding: the AI runtime app gets a `run.agi` whose includes do not exist,
and its configuration has `[app] entry` where `config.py` reads `[project]`; scripts of the smart chain
import two modules that do not exist; a kill while the frontend is written leaves `api-contract.json`, after
which `--force` never completes it; `tests/test_main.agi` calls `create_app`, which three templates
lack; `agi hosting scaffold --force` is the default (`cli.py:1311`); `--template blockchain` as two words
gives another project than `--template=blockchain`; the AI generator with `--force` removes the whole
directory. A test that raises `SystemExit` ends a test run as passed.

**Language.** A struct before a fresh import loses its header, and a diamond import is put in twice
(which `HeadersComplete` allows for). `checker.py`'s rule for `const` ignores scopes, and parameters of lambdas
and names of `except … as` give false warnings. `list[any]` as the type of a variable, a field or a result is emitted
as `list[Any]` without `from typing import Any` (`translator.py:293, 320, 382`), which `HeadersComplete` excepts. Lines after joined bracket lines are reported with wrong
numbers. A backslash before a line end does not advance the lexer's `line`. The C backend prints a chained
comparison without parentheses, truncates `/`, has C's `%` for negatives, no `//` or `**`, and gives
`and`/`or` as 0 or 1.

**Learning.** A second `backward` over shared inner nodes counts them again. `conv2d_multi_channel`, used
for inference, divides an image with a value above 1 by 255; the training loop's forward pass does not.
Adam's state is not saved with a model. With cupy installed and a torch without CUDA, "auto" sends kernels
to a device torch does not have (`gpu_kernel_registry.py:108-111`). The tokenizer reads letters it has not
seen as `<unk>`, those of words below `min_frequency` among them.

## 7. What is not modelled

Within the modelled parts:
- **Signatures of blocks, hashes, timestamps, gas prices as fees.** Blocks and transactions are honest and
  named by their hash; no fee is charged in this code. Two beacon blocks made from one state within a
  second have one root in the code and two in the model.
- **Gas in blocks.** A limit in `Mempool`; the gas an execution reports changes no state.
- **Strictness.** One constant stands for `strict_accounting` with `enforce_nonce_order`, which is on by
  default and in the mainnet profile. Strict accounting with the nonce rule turned off is left out.
- **Pool limits in the network.** `ChainNetwork` has pools with room; full pools are `Mempool`'s.
- **Threads on one node.** A node's connection answers one thread, so calls from others raise before they
  change anything; `Supervisor` and `Rpc` model that, the other modules run calls one after the other. Two
  processes on one `chain.sqlite` (`blockchain.py:266`) are left out, as each would need the tables of the other
  and its own memory of them.
- **Beacon.** `beacon init` over an existing file, a changed `config/beacon.json` (`inhouse_chain.py:231`:
  `SlotsPerEpoch` is a constant), validators' status, since no code changes it.
- **RPC.** Read-only methods, fee formulas, the gateway's methods that report.
- **Type checker.** Loops, nested functions, comparisons of a string with something else; arguments of
  calls, which it does not check either. **Lexer.** Quotes that span lines.
- **Native server.** A `pthread_create` that fails, signals, and what the peers' threads do once `stop` has freed
  the server: they are then where they are.
- **Vision and learning.** Softmax, logarithms and square roots: the slope of the loss is a parameter, and
  Adam's moments are kept rather than its step. Integers stand for floats.
- **Web.** Templates, forms, uploads, TLS; **WebSocket** handshake text and masks; **MySQL** isolation
  beyond locks of tables with pending rows.

Whole components: facades that re-export; the standard library `std.py`, formatter, language server,
datasets, documentation AI, language models, exporters and mobile and hosting generators other than the
files they write, which are formats, numerics and text in one thread without state between calls; arithmetic
constraint systems and commitments of `zk.py`; the native HTTP listener, SHA-1 and base64; the text of all
generated files. External programs (Ethereum clients, browsers, MySQL) appear as far as the code relies on them.

Of the hazards, one has no property: two producers in two threads and their locks (patch:395), since one
node answers one thread only. Besides the forty listed, the code is exposed to a changed beacon
configuration and two processes on one chain file (above). What looks like a hazard and is none: the reply
to a close frame is sent without the send lock (`realtime.py:222`), but the other side has closed by then.

## 8. Plan

Done: the core and the services with their theorems, and the modules of section 2. Next, in this order:

1. **Locks of nodes in threads**, should connections be opened with `check_same_thread=False`: `ChainNetwork`
   with calls between nodes as steps, and the deadlock of two producers.
2. **Beacon**: `init` over an existing file and a changed configuration.
