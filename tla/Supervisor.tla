----------------------------- MODULE Supervisor -----------------------------
(***************************************************************************)
(* InHouseChainSupervisor: the main thread makes the node, and start puts  *)
(* a validator, a beacon loop and an RPC server beside it, each in a       *)
(* thread of its own.  The node's sqlite connection (blockchain.py:266)    *)
(* answers only the thread that opened it.                                 *)
(*                                                                         *)
(* What a turn does to the chain is in ChainNode, what it does to the      *)
(* beacon file in Beacon: here a block is one more, and the beacon shows   *)
(* the height it last took over.                                           *)
(***************************************************************************)
EXTENDS Integers

CONSTANTS
  MaxBlocks,   \* bound: blocks produced
  MaxPosts     \* bound: requests to the RPC server

ASSUME SupervisorAssumption == MaxBlocks \in Nat \ {0} /\ MaxPosts \in Nat

VARIABLES
  mode,        \* "none" yet, "once" (--once), "slots" (--max-slots), "forever"
  enabled,     \* services of config/chain-services.json
  main,        \* where the main thread is
  stopped,     \* stop_event
  lock,        \* holder of _lock, or "free"
  turn,        \* per loop thread: "off", "check", "lock", "work", "wait", "ended"
  server,      \* "none", "made", "serving", "down"
  asked,       \* has shutdown been called?
  posts,       \* requests so far
  height,
  shown        \* execution height in the newest beacon block, 0 before it

supervisorVars == <<mode, enabled, main, stopped, lock, turn, server, asked, posts, height, shown>>

Loops == {"validator", "beacon", "post"}   \* "post" is a request handler
Services == {"validator", "beacon", "rpc"}

SupervisorInit ==
  /\ mode = "none" /\ enabled = {} /\ main = "new"
  /\ stopped = FALSE /\ lock = "free" /\ asked = FALSE
  /\ turn = [t \in Loops |-> "off"]
  /\ server = "none"
  /\ posts = 0 /\ height = 0 /\ shown = 0
-----------------------------------------------------------------------------
\* start_inhouse_chain, with any configuration of the services
Command ==
  /\ main = "new"
  /\ mode' \in {"once", "slots", "forever"} /\ enabled' \in SUBSET Services
  /\ main' = IF mode' = "once" THEN "validate" ELSE "start"
  /\ UNCHANGED <<stopped, lock, turn, server, asked, posts, height, shown>>

\* node.head() and everything behind it, called on thread t, does not raise
Usable(t) == t = "main"

ProducedBy(t) == height' = IF Usable(t) /\ height < MaxBlocks THEN height + 1 ELSE height
BridgedBy(t) == shown' = IF Usable(t) THEN height ELSE shown

\* --once: validator_once, beacon_once, stop
OnceValidator ==
  /\ main = "validate"
  /\ main' = "bridge"
  /\ IF "validator" \in enabled THEN ProducedBy("main") ELSE UNCHANGED height
  /\ UNCHANGED <<mode, enabled, stopped, lock, turn, server, asked, posts, shown>>

OnceBeacon ==
  /\ main = "bridge"
  /\ main' = "stop"
  /\ IF "beacon" \in enabled THEN BridgedBy("main") ELSE UNCHANGED shown
  /\ UNCHANGED <<mode, enabled, stopped, lock, turn, server, asked, posts, height>>

\* start: the enabled threads, then sleep
StartThreads ==
  /\ main = "start"
  /\ main' = "sleep"
  /\ turn' = [t \in Loops |-> IF t \in enabled THEN "check" ELSE "off"]
  /\ UNCHANGED <<mode, enabled, stopped, lock, server, asked, posts, height, shown>>

\* the slots are over, or KeyboardInterrupt
Wake ==
  /\ main = "sleep"
  /\ main' = "stop"
  /\ UNCHANGED <<mode, enabled, stopped, lock, turn, server, asked, posts, height, shown>>

StopEvent ==
  /\ main = "stop"
  /\ main' = "shutdown" /\ stopped' = TRUE
  /\ UNCHANGED <<mode, enabled, lock, turn, server, asked, posts, height, shown>>

HasServer == server # "none"

\* rpc_server.shutdown(), which waits for serve_forever to end; the node has no
\* close(), and the exception of calling it is swallowed
Shutdown ==
  /\ main = "shutdown"
  /\ IF HasServer THEN asked' = TRUE /\ main' = "await"
                  ELSE main' = "returned" /\ UNCHANGED asked
  /\ UNCHANGED <<mode, enabled, stopped, lock, turn, server, posts, height, shown>>

Returned ==
  /\ main = "await" /\ server = "down"
  /\ main' = "returned"
  /\ UNCHANGED <<mode, enabled, stopped, lock, turn, server, asked, posts, height, shown>>
-----------------------------------------------------------------------------
\* the port is free, or not: then the thread ends
MakeServer ==
  /\ server = "none" /\ "rpc" \in enabled /\ main \notin {"new", "validate", "bridge", "start"}
  /\ mode # "once" /\ turn["post"] = "off"
  /\ \E bound \in BOOLEAN :
       /\ server' = IF bound THEN "made" ELSE "none"
       /\ turn' = [turn EXCEPT !["post"] = IF bound THEN "idle" ELSE "ended"]
  /\ UNCHANGED <<mode, enabled, main, stopped, lock, asked, posts, height, shown>>

\* serve_forever begins, and ends once shutdown has been called
Serve ==
  /\ \/ server = "made" /\ server' = "serving"
     \/ server = "serving" /\ asked /\ server' = "down"
  /\ UNCHANGED <<mode, enabled, main, stopped, lock, turn, asked, posts, height, shown>>

Request ==
  /\ server = "serving" /\ turn["post"] = "idle" /\ posts < MaxPosts
  /\ posts' = posts + 1
  /\ turn' = [turn EXCEPT !["post"] = "lock"]
  /\ UNCHANGED <<mode, enabled, main, stopped, lock, server, asked, height, shown>>

\* while not stop_event.is_set()
CheckStop(t) ==
  /\ turn[t] = "check"
  /\ turn' = [turn EXCEPT ![t] = IF stopped THEN "ended" ELSE
                                 IF t = "beacon" THEN "work" ELSE "lock"]
  /\ UNCHANGED <<mode, enabled, main, stopped, lock, server, asked, posts, height, shown>>

\* with self._lock: a block in the validator, a call in a request handler
TakeLock(t) ==
  /\ turn[t] = "lock" /\ lock = "free"
  /\ lock' = t
  /\ turn' = [turn EXCEPT ![t] = "work"]
  /\ UNCHANGED <<mode, enabled, main, stopped, server, asked, posts, height, shown>>

\* the turn itself; an exception is printed, or answered, and the loop goes on
Work(t) ==
  /\ turn[t] = "work"
  /\ IF t = "validator" THEN ProducedBy(t) ELSE UNCHANGED height
  /\ IF t = "beacon" THEN BridgedBy(t) ELSE UNCHANGED shown
  /\ lock' = IF lock = t THEN "free" ELSE lock
  /\ turn' = [turn EXCEPT ![t] = IF t = "post" THEN "idle" ELSE "wait"]
  /\ UNCHANGED <<mode, enabled, main, stopped, server, asked, posts>>

\* stop_event.wait(slot_seconds)
Slept(t) ==
  /\ turn[t] = "wait"
  /\ turn' = [turn EXCEPT ![t] = "check"]
  /\ UNCHANGED <<mode, enabled, main, stopped, lock, server, asked, posts, height, shown>>

LoopRuns(t) == CheckStop(t) \/ TakeLock(t) \/ Work(t) \/ Slept(t)

MainRuns ==
  OnceValidator \/ OnceBeacon \/ StartThreads \/ StopEvent \/ Shutdown \/ Returned

SupervisorNext ==
  \/ Command \/ MainRuns \/ Wake \/ MakeServer \/ Serve \/ Request
  \/ \E t \in Loops : LoopRuns(t)

(***************************************************************************)
(* The main thread and the one that serves are scheduled, and              *)
(* sleep(max_slots) comes to an end.  Nobody has to interrupt a node that  *)
(* is to run for ever, and no thread waits for the loops or for a request. *)
(***************************************************************************)
SupervisorFairness ==
  /\ WF_supervisorVars(MainRuns)
  /\ WF_supervisorVars(mode = "slots" /\ Wake)
  /\ WF_supervisorVars(MakeServer \/ Serve)

SupervisorSpec == SupervisorInit /\ [][SupervisorNext]_supervisorVars /\ SupervisorFairness
-----------------------------------------------------------------------------
SupervisorTypeOK ==
  /\ main \in {"new", "validate", "bridge", "start", "sleep", "stop", "shutdown", "await", "returned"}
  /\ lock \in {"free"} \cup Loops
  /\ turn \in [Loops -> {"off", "idle", "check", "lock", "work", "wait", "ended"}]
  /\ server \in {"none", "made", "serving", "down"}
  /\ posts \in 0 .. MaxPosts /\ height \in 0 .. MaxBlocks /\ shown \in 0 .. MaxBlocks

\* start and --once come back once they are to stop, whether the RPC server was
\* there by then, was about to serve, or could not bind its port.
StartReturns == main = "stop" ~> main = "returned"

\* --once with both services produces one block and bridges that block.
OnceBridges ==
  mode = "once" /\ main = "returned" /\ {"validator", "beacon"} \subseteq enabled
    => height = 1 /\ shown = 1

(***************************************************************************)
(* "The in-house validator service produces canonical blocks."             *)
(* (docs/UNIFIED_INHOUSE_NODE.md:50)                                       *)
(***************************************************************************)
ValidatorProduces ==
  mode = "forever" /\ "validator" \in enabled ~> height > 0 \/ stopped
=============================================================================
