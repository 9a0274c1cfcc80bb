----------------------------- MODULE Signaling -----------------------------
(***************************************************************************)
(* The WebSocket server with the WebRTC signaling handlers on it.  Every   *)
(* connection has a thread; room tables, the client set and the index have *)
(* locks of their own, or none, so that a join and a disconnect are        *)
(* several steps.  stop() runs on a thread of its own.                     *)
(***************************************************************************)
EXTENDS Integers

CONSTANTS
  Conns,
  Rooms,        \* the rooms of config, or all there are
  PeerIds,      \* ids the clients give themselves
  MaxJoins,     \* bound: joins of each connection
  MaxReruns     \* bound: run_background after stop

ASSUME SignalingAssumption ==
  /\ MaxJoins \in [Conns -> Nat] /\ MaxReruns \in Nat
  /\ "nobody" \notin Conns

Nobody == "nobody"
NoEntry == <<>>

Entries == Rooms \X PeerIds

VARIABLES
  running,      \* _running
  accepting,    \* is _sock open?
  sockets,      \* clients (_clients)
  conn,         \* per connection: where its thread is, its socket, the peer it is busy with
                \* and the one it joined as last
  table,        \* per room and peer: the socket (_sockets; peers has the same keys)
  index,        \* peer_index
  halt,         \* how far stop() is, and the clients it has yet to close
  reruns,
  usedBy        \* connections that have joined as this peer, ever

signalVars == <<running, accepting, sockets, conn, table, index, halt, reruns, usedBy>>

NotYet == [at |-> "out", open |-> FALSE, entry |-> NoEntry, last |-> NoEntry, joins |-> 0]

SignalInit ==
  /\ running = TRUE /\ accepting = TRUE
  /\ sockets = {}
  /\ conn = [c \in Conns |-> NotYet]
  /\ table = [e \in Entries |-> Nobody]
  /\ index = [c \in Conns |-> NoEntry]
  /\ halt = [at |-> "no", left |-> {}]
  /\ reruns = 0
  /\ usedBy = [e \in Entries |-> {}]
-----------------------------------------------------------------------------
\* _accept_loop; accept may still answer after _running is cleared
Connect(c) ==
  /\ conn[c].at = "out" /\ accepting
  /\ conn' = [conn EXCEPT ![c].at = "handshake"]
  /\ UNCHANGED <<running, accepting, sockets, table, index, halt, reruns, usedBy>>

\* the handshake, and the new peer in _clients; or an exception
Handshake(c) ==
  /\ conn[c].at = "handshake"
  /\ \/ /\ conn' = [conn EXCEPT ![c].at = "turn", ![c].open = TRUE]
        /\ sockets' = sockets \cup {c}
     \/ conn' = [conn EXCEPT ![c].at = "gone"] /\ UNCHANGED sockets
  /\ UNCHANGED <<running, accepting, table, index, halt, reruns, usedBy>>

\* while running and connected
Turn(c) ==
  /\ conn[c].at = "turn"
  /\ conn' = [conn EXCEPT ![c].at = IF running /\ conn[c].open THEN "receive" ELSE "close"]
  /\ UNCHANGED <<running, accepting, sockets, table, index, halt, reruns, usedBy>>

\* what a receive does that brings no message: the other side closes or breaks
\* off, or answers when this side has closed
Hangup(c) ==
  /\ conn[c].at = "receive"
  /\ conn' = [conn EXCEPT ![c].at = "close", ![c].open = FALSE]
  /\ UNCHANGED <<running, accepting, sockets, table, index, halt, reruns, usedBy>>

\* close() from another thread, a broadcast that found the socket broken, or
\* from the handler of an unauthorized message
ClosedBy(c) ==
  /\ c \in sockets /\ conn[c].open
  /\ conn' = [conn EXCEPT ![c].open = FALSE]
  /\ UNCHANGED <<running, accepting, sockets, table, index, halt, reruns, usedBy>>
-----------------------------------------------------------------------------
\* room.join: whoever had the id before is overwritten
JoinRoom(c, e) ==
  /\ conn[c].at = "receive" /\ conn[c].open
  /\ conn[c].joins < MaxJoins[c]
  /\ table' = [table EXCEPT ![e] = c]
  /\ usedBy' = [usedBy EXCEPT ![e] = @ \cup {c}]
  /\ conn' = [conn EXCEPT ![c].at = "index", ![c].entry = e, ![c].last = e, ![c].joins = @ + 1]
  /\ UNCHANGED <<running, accepting, sockets, index, halt, reruns>>

\* peer_index[client]
Indexed(c) == conn[c].entry

\* ... and the notice to the room, whose failures are ignored, and the answer,
\* whose failure is not
IndexPeer(c) ==
  /\ conn[c].at = "index"
  /\ index' = [index EXCEPT ![c] = Indexed(c)]
  /\ conn' = [conn EXCEPT ![c].at = "answer"]
  /\ UNCHANGED <<running, accepting, sockets, table, halt, reruns, usedBy>>

\* send raises on a socket that is closed
Answer(c) ==
  /\ conn[c].at = "answer"
  /\ conn' = [conn EXCEPT ![c].at = IF conn[c].open THEN "turn" ELSE "close"]
  /\ UNCHANGED <<running, accepting, sockets, table, index, halt, reruns, usedBy>>

\* a signal to one peer: an unknown one is answered for; a socket that is closed
\* raises, and that ends the connection of the sender
Signal(c, e) ==
  /\ conn[c].at = "receive" /\ conn[c].open
  /\ conn' = [conn EXCEPT ![c].at =
                CASE table[e] = Nobody -> "answer"
                  [] table[e] # Nobody -> IF conn[table[e]].open THEN "turn" ELSE "close"]
  /\ UNCHANGED <<running, accepting, sockets, table, index, halt, reruns, usedBy>>
-----------------------------------------------------------------------------
\* finally: connected = False, out of _clients
Discard(c) ==
  /\ conn[c].at = "close"
  /\ conn' = [conn EXCEPT ![c].at = "unindex", ![c].open = FALSE]
  /\ sockets' = sockets \ {c}
  /\ UNCHANGED <<running, accepting, table, index, halt, reruns, usedBy>>

\* peer_index.pop
Unindex(c) ==
  /\ conn[c].at = "unindex"
  /\ index' = [index EXCEPT ![c] = NoEntry]
  /\ conn' = [conn EXCEPT ![c].at = IF index[c] = NoEntry THEN "gone" ELSE "leave",
                          ![c].entry = index[c]]
  /\ UNCHANGED <<running, accepting, sockets, table, halt, reruns, usedBy>>

\* Mutant of Emptied: the peer id leaves every room.
EmptiedAll(c) == [e \in Entries |-> IF e[2] = conn[c].entry[2] THEN Nobody ELSE table[e]]

\* room.leave(peer_id), whosever socket that is by now
Emptied(c) == [table EXCEPT ![conn[c].entry] = Nobody]

LeaveRoom(c) ==
  /\ conn[c].at = "leave"
  /\ table' = Emptied(c)
  /\ conn' = [conn EXCEPT ![c].at = "gone"]
  /\ UNCHANGED <<running, accepting, sockets, index, halt, reruns, usedBy>>
-----------------------------------------------------------------------------
ClearRunning ==
  /\ halt.at = "no"
  /\ running' = FALSE
  /\ halt' = [at |-> "cleared", left |-> {}]
  /\ UNCHANGED <<accepting, sockets, conn, table, index, reruns, usedBy>>

\* the socket is closed, then the clients are copied
ListClients ==
  /\ halt.at = "cleared"
  /\ accepting' = FALSE
  /\ halt' = [at |-> "closing", left |-> sockets]
  /\ UNCHANGED <<running, sockets, conn, table, index, reruns, usedBy>>

CloseClient ==
  /\ halt.at = "closing"
  /\ \E c \in halt.left :
       /\ halt' = [halt EXCEPT !.left = @ \ {c}]
       /\ conn' = [conn EXCEPT ![c].open = FALSE]
  /\ UNCHANGED <<running, accepting, sockets, table, index, reruns, usedBy>>

\* run_background once the accepting thread has ended: _sock is not None, so the
\* closed socket stays and the new thread ends at once
RunAgain ==
  /\ halt.at = "closing" /\ halt.left = {}
  /\ reruns < MaxReruns
  /\ reruns' = reruns + 1
  /\ running' = TRUE
  /\ halt' = [at |-> "no", left |-> {}]
  /\ UNCHANGED <<accepting, sockets, conn, table, index, usedBy>>

\* what a connection's thread does without waiting for a client
ConnRuns(c) == Turn(c) \/ Discard(c) \/ Unindex(c) \/ LeaveRoom(c)

SignalNext ==
  \/ \E c \in Conns :
       \/ Connect(c) \/ Handshake(c) \/ ConnRuns(c) \/ IndexPeer(c) \/ Answer(c) \/ Hangup(c) \/ ClosedBy(c)
       \/ \E e \in Entries : JoinRoom(c, e) \/ Signal(c, e)
  \/ ClearRunning \/ ListClients \/ CloseClient \/ RunAgain

(***************************************************************************)
(* The threads are scheduled.  Nothing is said of what waits for a client: *)
(* the handshake and the receive, which have no timeout and which a close  *)
(* of the socket on this side does not wake, and whatever sends.           *)
(***************************************************************************)
SignalFairness == (\A c \in Conns : WF_signalVars(ConnRuns(c))) /\ WF_signalVars(ListClients)

SignalSpec == SignalInit /\ [][SignalNext]_signalVars /\ SignalFairness
-----------------------------------------------------------------------------
SignalTypeOK ==
  /\ sockets \subseteq Conns /\ halt.left \subseteq Conns
  /\ \A e \in Entries : table[e] \in usedBy[e] \cup {Nobody}
  /\ \A c \in Conns : /\ index[c] \in Entries \cup {NoEntry}
                       /\ conn[c].at \in {"out", "handshake", "turn", "receive", "index", "answer",
                                          "close", "unindex", "leave", "gone"}
                       /\ conn[c].joins \in 0 .. MaxJoins[c]

\* A connection whose thread has ended is in no list; of the rooms it may have
\* joined, the one it joined last has it no more.  (One it joined before, as
\* another peer or in another room, keeps the dead socket for ever.)
GoneLeaveNothing ==
  \A c \in Conns : conn[c].at = "gone" =>
    /\ c \notin sockets /\ index[c] = NoEntry
    /\ \A e \in Entries : table[e] = c => conn[c].last # e

\* The peer a connection joined as last can be reached there, as long as its
\* thread serves it, unless another connection has joined as the same peer in
\* the same room: then the end of either takes the peer from the room.
JoinedReachable ==
  \A c \in Conns :
    /\ conn[c].at \in {"turn", "receive", "answer", "close", "unindex"}
    /\ index[c] # NoEntry /\ usedBy[index[c]] = {c}
    => table[index[c]] = c

\* No client keeps a thread waiting for ever: by not sending, breaking off or
\* answering a close frame, or by not reading what is sent to it.
ClientsAnswer ==
  /\ \A c \in Conns : []<>(conn[c].at \notin {"handshake", "receive", "index", "answer"})
  /\ []<>(halt.at # "closing" \/ halt.left = {})

\* After stop, whatever was in the handshake or in a join by then and so not
\* closed by it, every connection ends, unless the server is run again first; if
\* clients answer, because stop itself ends no thread that waits for one.
StopDisconnects ==
  ClientsAnswer =>
    (halt.at # "no" /\ reruns = 0 ~> reruns > 0 \/ \A c \in Conns : conn[c].at \in {"out", "gone"})
\* Rooms and index follow the connections that come and go.
RoomsFollow == SignalTypeOK /\ GoneLeaveNothing /\ JoinedReachable
=============================================================================
