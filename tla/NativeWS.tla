------------------------------ MODULE NativeWS ------------------------------
(***************************************************************************)
(* The WebSocket server of the native C runtime: a thread that accepts, a  *)
(* detached thread per peer, broadcasts from threads of the application,   *)
(* and stop.  server->lock guards the list of peers, nothing else: running *)
(* and connected are plain ints that everybody reads, and a peer is read,  *)
(* written and closed by the number of its descriptor, which may have been *)
(* closed before and name another connection by then.                      *)
(***************************************************************************)
EXTENDS Integers, FiniteSets

CONSTANTS
  WSPeers,       \* the connections that may come, each once
  Numbers,       \* descriptor numbers that accept may answer
  Speakers,      \* threads that call agi_ws_server_broadcast, once each
  Hangers        \* peers whose on_message closes them

ASSUME WSAssumption ==
  /\ Hangers \subseteq WSPeers /\ WSPeers \cap Speakers = {}
  /\ Numbers \subseteq Nat \ {0}
  /\ (WSPeers \cup Speakers) \cap {"nobody", "accept", "exited", "idle", "walk", "done", "stop"} = {}

VARIABLES
  accepts,       \* server->running
  phase,         \* how far agi_ws_server_stop is
  sweeping,      \* the peers it has yet to close
  holder,        \* who holds server->lock
  acceptor,      \* what ws_accept_thread does: the peer it is making, ...
  peers,         \* the list server->peers
  thread,        \* per connection: where ws_client_thread is
  connected,     \* peer->connected
  fd,            \* peer->fd, whether it is open or not
  names,         \* the connection that a number stands for
  half,          \* per connection: who has sent a header and not its payload
  speaker        \* per broadcast: where it is, in which frame, and the peers still to come

wsServer == <<accepts, phase, sweeping, holder, acceptor, peers>>
wsFiles == <<fd, names>>
wsVars == <<wsServer, thread, connected, wsFiles, half, speaker>>

NoOne == "nobody"
Waiting == "accept"
Exited == "exited"

WSInit ==
  /\ accepts = TRUE /\ phase = "up" /\ sweeping = {} /\ holder = NoOne
  /\ acceptor = Waiting
  /\ peers = {} /\ connected = {}
  /\ thread = [p \in WSPeers |-> "none"]
  /\ fd = [p \in WSPeers |-> 0] /\ names = [n \in Numbers |-> NoOne]
  /\ half = [p \in WSPeers |-> NoOne]
  /\ speaker = [b \in Speakers |-> [at |-> "idle", part |-> "check", todo |-> {}]]

At(p, from, to) == thread[p] = from /\ thread' = [thread EXCEPT ![p] = to]
-----------------------------------------------------------------------------
(* Descriptors *)

\* The connection that the number of p's descriptor stands for.
Connection(p) == names[fd[p]]

\* AGI_CLOSE(peer->fd)
Close(p) == names' = [names EXCEPT ![fd[p]] = NoOne] /\ UNCHANGED fd
-----------------------------------------------------------------------------
(***************************************************************************)
(* ws_accept_thread.  accept() answers the lowest number that is free.  It *)
(* also returns after stop has closed the listening socket under it, but   *)
(* only with the next connection.                                          *)
(***************************************************************************)
AcceptConnection(p) ==
  /\ acceptor = Waiting
  /\ At(p, "none", "handshake")
  /\ acceptor' = p
  /\ \E n \in Numbers :
       /\ names[n] = NoOne /\ \A m \in Numbers : m < n => names[m] # NoOne
       /\ fd' = [fd EXCEPT ![p] = n] /\ names' = [names EXCEPT ![n] = p]
  /\ UNCHANGED <<accepts, phase, sweeping, holder, peers, connected, half, speaker>>

\* while (server->running)
Onwards == IF accepts THEN Waiting ELSE Exited

\* accept() fails on the closed socket if it was not yet called.
AcceptFails ==
  /\ acceptor = Waiting /\ ~accepts
  /\ acceptor' = Onwards
  /\ UNCHANGED <<accepts, phase, sweeping, holder, peers, thread, connected, wsFiles, half, speaker>>

\* ws_handshake fails, ...
Reject(p) ==
  /\ acceptor = p
  /\ At(p, "handshake", "freed")
  /\ Close(p)
  /\ acceptor' = Onwards
  /\ UNCHANGED <<accepts, phase, sweeping, holder, peers, connected, half, speaker>>

\* ... or the peer is listed under the lock, ...
Register(p) ==
  /\ acceptor = p /\ holder = NoOne
  /\ At(p, "handshake", "listed")
  /\ peers' = peers \cup {p}
  /\ connected' = connected \cup {p}
  /\ UNCHANGED <<accepts, phase, sweeping, holder, acceptor, wsFiles, half, speaker>>

\* ... its thread is made ...
StartThread(p) ==
  /\ acceptor = p
  /\ At(p, "listed", "loop")
  /\ UNCHANGED <<wsServer, connected, wsFiles, half, speaker>>

\* ... and is detached: by a field of the peer, which its thread may have freed.
\* The memory has what it had, as freed memory mostly has; or else the process ends.
DetachThread(p) ==
  /\ acceptor = p /\ thread[p] \notin {"handshake", "listed"}
  /\ acceptor' = Onwards
  /\ UNCHANGED <<accepts, phase, sweeping, holder, peers, thread, connected, wsFiles, half, speaker>>
-----------------------------------------------------------------------------
(***************************************************************************)
(* ws_write_frame: one send for the header, one for the payload.  A header *)
(* that comes between the two of somebody else tears the stream.           *)
(***************************************************************************)
Header(p, w) == half' = [half EXCEPT ![Connection(p)] = w]
Payload(p, w) == half' = [c \in WSPeers |-> IF c = Connection(p) /\ half[c] = w THEN NoOne ELSE half[c]]

\* ws_client_thread: the loop goes on, ...
EnterLoop(p) ==
  /\ accepts /\ p \in connected /\ phase # "freed"
  /\ At(p, "loop", "reading")
  /\ UNCHANGED <<wsServer, connected, wsFiles, half, speaker>>

\* ... reads a frame of whoever has the number now ...
ReadFrame(p) ==
  /\ At(p, "reading", IF p \in Hangers THEN "hang" ELSE "echo")
  /\ Connection(p) # NoOne /\ phase # "freed"
  /\ UNCHANGED <<wsServer, connected, wsFiles, half, speaker>>

\* ... which the handler answers (echo_handler, and the pong of a ping) ...
EchoHeader(p) ==
  /\ At(p, "echo", "echoing") /\ Connection(p) # NoOne
  /\ Header(p, p)
  /\ UNCHANGED <<wsServer, connected, wsFiles, speaker>>
EchoPayload(p) ==
  /\ At(p, "echoing", "loop") /\ Connection(p) # NoOne
  /\ Payload(p, p)
  /\ UNCHANGED <<wsServer, connected, wsFiles, speaker>>

\* ... unless the peer has been closed, or closes it for, with a close frame,
\* which is all header (agi_ws_peer_close).
EchoFails(p) ==
  /\ thread[p] \in {"echo", "echoing"} /\ thread' = [thread EXCEPT ![p] = "loop"]
  /\ Connection(p) = NoOne \/ (thread[p] = "echo" /\ p \notin connected)
  /\ UNCHANGED <<wsServer, connected, wsFiles, half, speaker>>
HangUp(p) ==
  /\ At(p, "hang", "loop")
  /\ connected' = connected \ {p} /\ Close(p)
  /\ UNCHANGED <<wsServer, half, speaker>>

\* The loop ends: it sees running or connected cleared, ...
Leaving(p, from) == phase # "freed" /\ At(p, from, "leaving") /\ connected' = connected \ {p}
LeaveLoop(p) ==
  /\ ~accepts \/ p \notin connected
  /\ Leaving(p, "loop")
  /\ UNCHANGED <<wsServer, wsFiles, half, speaker>>

\* ... or the client is gone, or sends what is refused, or the read fails.
ReadFails(p) == Leaving(p, "reading") /\ UNCHANGED <<wsServer, wsFiles, half, speaker>>

CloseSocket(p) ==
  /\ At(p, "leaving", "closed")
  /\ Close(p)
  /\ UNCHANGED <<wsServer, connected, half, speaker>>

\* agi_lock(server)
MayUnlink == holder = NoOne

\* The peer is unlinked under the lock, then freed.
Unlink(p) ==
  /\ MayUnlink /\ phase # "freed"
  /\ At(p, "closed", "freed")
  /\ peers' = peers \ {p}
  /\ UNCHANGED <<accepts, phase, sweeping, holder, acceptor, connected, wsFiles, half, speaker>>
-----------------------------------------------------------------------------
\* Mutant of Locked: the list is walked without the lock.
LockedNot(b) == holder

\* agi_lock(server)
Locked(b) == b

\* agi_ws_server_broadcast
LockList(b) ==
  /\ speaker[b].at = "idle" /\ holder = NoOne /\ phase # "freed"
  /\ holder' = Locked(b)
  /\ speaker' = [speaker EXCEPT ![b] = [at |-> "walk", part |-> "check", todo |-> peers]]
  /\ UNCHANGED <<accepts, phase, sweeping, acceptor, peers, thread, connected, wsFiles, half>>

Passed(b, p) == speaker' = [speaker EXCEPT ![b] = [at |-> "walk", part |-> "check", todo |-> @.todo \ {p}]]

\* A peer's turn comes; it is passed over if it is not connected, ...
SpeakTo(b, p) ==
  /\ speaker[b].at = "walk" /\ p \in speaker[b].todo
  /\ IF p \in connected THEN speaker' = [speaker EXCEPT ![b].at = p, ![b].part = "header"] ELSE Passed(b, p)
  /\ UNCHANGED <<wsServer, thread, connected, wsFiles, half>>

\* ... and what is sent then fails if the number is closed.
SpeakHeader(b, p) ==
  /\ speaker[b].at = p /\ speaker[b].part = "header"
  /\ IF Connection(p) # NoOne
     THEN Header(p, b) /\ speaker' = [speaker EXCEPT ![b].part = "payload"]
     ELSE Passed(b, p) /\ UNCHANGED half
  /\ UNCHANGED <<wsServer, thread, connected, wsFiles>>

SpeakPayload(b, p) ==
  /\ speaker[b].at = p /\ speaker[b].part = "payload"
  /\ Payload(p, b) /\ Passed(b, p)
  /\ UNCHANGED <<wsServer, thread, connected, wsFiles>>

\* agi_unlock(server)
Unlocked == NoOne

UnlockList(b) ==
  /\ speaker[b].at = "walk" /\ speaker[b].todo = {}
  /\ speaker' = [speaker EXCEPT ![b].at = "done"]
  /\ holder' = Unlocked
  /\ UNCHANGED <<accepts, phase, sweeping, acceptor, peers, thread, connected, wsFiles, half>>
-----------------------------------------------------------------------------
\* agi_ws_server_stop: running is cleared and the listening socket closed, ...
ClearFlag ==
  /\ phase = "up"
  /\ phase' = "stopping" /\ accepts' = FALSE
  /\ UNCHANGED <<sweeping, holder, acceptor, peers, thread, connected, wsFiles, half, speaker>>

\* ... the listed peers are closed under the lock one by one, ...
LockSweep ==
  /\ phase = "stopping" /\ holder = NoOne
  /\ phase' = "sweeping" /\ holder' = "stop" /\ sweeping' = peers
  /\ UNCHANGED <<accepts, acceptor, peers, thread, connected, wsFiles, half, speaker>>
Sweep(p) ==
  /\ phase = "sweeping" /\ p \in sweeping
  /\ sweeping' = sweeping \ {p}
  /\ connected' = connected \ {p} /\ Close(p)
  /\ UNCHANGED <<accepts, phase, holder, acceptor, peers, thread, half, speaker>>
UnlockSweep ==
  /\ phase = "sweeping" /\ sweeping = {}
  /\ phase' = "swept" /\ holder' = NoOne
  /\ UNCHANGED <<accepts, sweeping, acceptor, peers, thread, connected, wsFiles, half, speaker>>

\* ... and the server is freed when the accept thread has ended, whatever the
\* detached threads of the peers still do.  A thread that looks at the server
\* after that reads freed memory; what it does then is not modelled.
FreeServer ==
  /\ phase = "swept" /\ acceptor = Exited
  /\ phase' = "freed"
  /\ UNCHANGED <<accepts, sweeping, holder, acceptor, peers, thread, connected, wsFiles, half, speaker>>
-----------------------------------------------------------------------------
\* What a peer's thread, a broadcast and stop do without waiting for a client;
\* a send waits for one that does not read.
PeerRuns(p) == EnterLoop(p) \/ LeaveLoop(p) \/ EchoFails(p) \/ CloseSocket(p) \/ Unlink(p)
SpeakerRuns(b) == UnlockList(b) \/ \E p \in WSPeers : SpeakTo(b, p)
StopRuns == LockSweep \/ UnlockSweep \/ FreeServer \/ \E p \in WSPeers : Sweep(p)
AcceptRuns(p) == StartThread(p) \/ DetachThread(p)

WSNext ==
  \/ \E p \in WSPeers : AcceptConnection(p) \/ Reject(p) \/ Register(p) \/ AcceptRuns(p)
  \/ \E p \in WSPeers : PeerRuns(p) \/ ReadFrame(p) \/ ReadFails(p) \/ EchoHeader(p) \/ EchoPayload(p) \/ HangUp(p)
  \/ \E b \in Speakers : LockList(b) \/ SpeakerRuns(b) \/ \E p \in WSPeers : SpeakHeader(b, p) \/ SpeakPayload(b, p)
  \/ AcceptFails \/ ClearFlag \/ StopRuns

\* The threads are scheduled.  Nothing is said of clients: whether one connects,
\* sends, reads or goes away.
WSFairness ==
  /\ \A p \in WSPeers : WF_wsVars(PeerRuns(p)) /\ WF_wsVars(AcceptRuns(p))
  /\ \A b \in Speakers : WF_wsVars(SpeakerRuns(b))
  /\ WF_wsVars(StopRuns)
-----------------------------------------------------------------------------
WSTypeOK ==
  /\ accepts \in BOOLEAN
  /\ phase \in {"up", "stopping", "sweeping", "swept", "freed"}
  /\ holder \in Speakers \cup {NoOne, "stop"}
  /\ acceptor \in WSPeers \cup {Waiting, Exited}
  /\ peers \subseteq WSPeers /\ connected \subseteq WSPeers /\ sweeping \subseteq WSPeers
  /\ thread \in [WSPeers -> {"none", "handshake", "listed", "loop", "reading", "echo", "echoing", "hang", "leaving",
                             "closed", "freed"}]
  /\ fd \in [WSPeers -> Numbers \cup {0}] /\ names \in [Numbers -> WSPeers \cup {NoOne}]
  /\ half \in [WSPeers -> WSPeers \cup Speakers \cup {NoOne}]

\* A walk over the list, a broadcast's or stop's, never comes to a peer whose
\* thread has freed it.  Who may is the accept thread, which detaches the thread
\* of a peer it has listed (agilang_net_runtime.c:340).
NoFreedPeer ==
  /\ \A p \in peers \cup sweeping : thread[p] # "freed"
  /\ \A b \in Speakers : speaker[b].at \in WSPeers => thread[speaker[b].at] # "freed"
  /\ \A b \in Speakers : \A p \in speaker[b].todo : thread[p] # "freed"

\* Some peer may have been closed by another than its own thread, which closes
\* it again when it ends: by its handler or by stop (agilang_net_runtime.c:277,
\* 310, 395).
ClosedTwice == phase # "up" \/ \E p \in Hangers : thread[p] # "none"

\* Only then does a peer's thread read, answer or close another connection, one
\* that got the number of its own.
OnlyClosedTwice ==
  \A p \in WSPeers :
    thread[p] \in {"loop", "reading", "echo", "echoing", "leaving"} /\ Connection(p) # p => ClosedTwice

\* A broadcast's header never comes between header and payload of another
\* broadcast's frame, whatever becomes of the numbers they are sent on; and, until
\* then, of no other frame but an answer of the connection's own thread, which is
\* sent without the lock.  (To which connection the frame comes is another matter:
\* one whose peer leaves during its turn comes to whoever gets the number.)
BroadcastsWhole ==
  \A b \in Speakers : \A p \in WSPeers :
    speaker[b].at = p /\ speaker[b].part = "header" /\ Connection(p) # NoOne =>
      /\ half[Connection(p)] \notin Speakers
      /\ half[Connection(p)] \in {NoOne, Connection(p)} \/ ClosedTwice

\* No client keeps a thread waiting for ever in a read or a send, ...
NoneWaits ==
  /\ \A p \in WSPeers : []<>(thread[p] \notin {"reading", "echo", "echoing", "hang"})
  /\ \A b \in Speakers : []<>(speaker[b].at \notin WSPeers)

\* ... or the accept thread in a handshake or in accept().
AcceptReturns == []<>(acceptor # Waiting) /\ []<>(acceptor = Waiting \/ acceptor = Exited)

\* If no client keeps a thread waiting, a peer that its handler has closed, and
\* after stop every peer, is unlinked, unless the server is freed first: there is
\* always a time to come when none is left.
ClosedAreFreed ==
  NoneWaits => []<>(IF phase = "up" THEN peers \subseteq connected ELSE peers = {} \/ phase = "freed")

\* Stop returns if no client keeps a thread waiting and, what no code provides,
\* one more connection comes.
StopFrees == NoneWaits /\ AcceptReturns => (phase = "stopping" ~> phase = "freed")
=============================================================================
