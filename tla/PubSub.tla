------------------------------- MODULE PubSub -------------------------------
(***************************************************************************)
(* PubSubBus and RealtimeChannel of agilang/realtime.py.  publish copies   *)
(* the topic's and the wildcard's handlers under the lock and calls them   *)
(* outside it, while other threads subscribe and unsubscribe; a handler    *)
(* that raises ends the publish.  A channel of a server publishes to the   *)
(* bus twice: itself, and through the server.                              *)
(***************************************************************************)
EXTENDS Integers, SequencesExt, FiniteSets

CONSTANTS Publishers, Topics, Handlers, RaisingHandlers, OnServer

Wild == "*"
ASSUME PubSubAssumption == Wild \notin Topics /\ IsFiniteSet(Handlers)

VARIABLES subscribers, publish, got, since, left
pubVars == <<subscribers, publish, got, since, left>>
-----------------------------------------------------------------------------
NewPublish(p) == [pc |-> "new", topic |-> Wild, todo |-> <<>>, round |-> 0, count |-> 0]
Rounds(p) == IF p \in OnServer THEN 2 ELSE 1

PubInit ==
  /\ subscribers = [t \in Topics \cup {Wild} |-> <<>>]
  /\ publish = [p \in Publishers |-> NewPublish(p)]
  /\ got = [p \in Publishers |-> [h \in Handlers |-> 0]]
  /\ since = [p \in Publishers |-> {}] /\ left = {}

Everywhere == UNION {ToSet(subscribers[t]) : t \in DOMAIN subscribers}

\* each handler once
Subscribe(h) ==
  /\ h \notin Everywhere \cup left
  /\ \E t \in DOMAIN subscribers : subscribers' = [subscribers EXCEPT ![t] = Append(@, h)]
  /\ UNCHANGED <<publish, got, since, left>>

Unsubscribe(h) ==
  /\ \E t \in DOMAIN subscribers : \E i \in DOMAIN subscribers[t] :
       subscribers[t][i] = h /\ subscribers' = [subscribers EXCEPT ![t] = RemoveAt(@, i)]
  /\ left' = left \cup {h} /\ UNCHANGED <<publish, got, since>>

\* the snapshot, under the lock
Listeners(t) == subscribers[t] \o subscribers[Wild]
Publish(p) ==
  /\ publish[p].pc \in {"new", "again"}
  /\ \E t \in IF publish[p].pc = "new" THEN Topics ELSE {publish[p].topic} :
       /\ publish' = [publish EXCEPT ![p] = [pc |-> "calls", topic |-> t, todo |-> Listeners(t), round |-> @.round + 1,
                                             count |-> @.count + Len(Listeners(t))]]
       /\ since' = [since EXCEPT ![p] = IF publish[p].pc = "new" THEN ToSet(Listeners(t)) ELSE @]
  /\ UNCHANGED <<subscribers, got, left>>

CallNext(p) ==
  /\ publish[p].pc = "calls"
  /\ LET q == publish[p] IN
     IF q.todo = <<>>
     THEN /\ publish' = [publish EXCEPT ![p].pc = IF q.round < Rounds(p) THEN "again" ELSE "end"]
          /\ UNCHANGED got
     ELSE /\ publish' = [publish EXCEPT ![p].todo = Tail(@),
                                        ![p].pc = IF Head(q.todo) \in RaisingHandlers THEN "raised" ELSE @]
          /\ got' = [got EXCEPT ![p][Head(q.todo)] = @ + 1]
  /\ UNCHANGED <<subscribers, since, left>>

PubNext ==
  \/ \E p \in Publishers : Publish(p) \/ CallNext(p)
  \/ \E h \in Handlers : Subscribe(h) \/ Unsubscribe(h)
-----------------------------------------------------------------------------
Calls(p) == {c \in Handlers \X (1 .. Rounds(p)) : c[2] <= got[p][c[1]]}

\* A publish that ends has called every handler that was subscribed when it
\* began and has not left, once for each time it goes to the bus; no handler is
\* called more often; and what it returns for the bus is the number of its
\* calls (realtime.py:272-278, 296-300).
DeliveredOnce ==
  \A p \in Publishers :
    /\ \A h \in Handlers : got[p][h] <= Rounds(p)
    /\ publish[p].pc = "end" => \A h \in since[p] \ left : got[p][h] = Rounds(p)
    /\ publish[p].pc = "end" => publish[p].count = Cardinality(Calls(p))
-----------------------------------------------------------------------------
(***************************************************************************)
(* One direction of a WebSocket of agilang/realtime.py: the frames a peer  *)
(* sends, as what _read_exact asks for, and the handshake, receive and the *)
(* timeouts of the other.  TCP carries them in pieces of any size; the     *)
(* payload is cut in two.                                                  *)
(***************************************************************************)
CONSTANTS
  FrameLists,        \* frames to send: sequences of [op, size]
  MaxFrameBytes,
  MaxTimeouts        \* bound

ASSUME SocketAssumption ==
  /\ MaxFrameBytes \in Nat /\ MaxTimeouts \in Nat
  /\ \A fs \in FrameLists : fs \in Seq({fs[i] : i \in DOMAIN fs}) /\ \A i \in DOMAIN fs : fs[i].size \in Nat

VARIABLES
  frames,        \* what this socket is to carry
  masked,        \* from the client?
  sent,          \* how many of the frames are on their way
  wire, buffer,  \* pieces not yet arrived, and arrived
  reader,        \* the receiving peer
  received,      \* what receive has returned: the numbers of the frames
  ponged,
  swallowed,     \* did bytes behind the handshake go with it?
  outOfStep,     \* did receive stop within a frame?
  timeouts

socketVars == <<frames, masked, sent, wire, buffer, reader, received, ponged, swallowed, outOfStep, timeouts>>

Piece(kind, op, value, n) == [kind |-> kind, op |-> op, value |-> value, of |-> n]

\* Which sizes stand in the head itself, and which in two bytes behind it?
Short(size) == size < 126
TwoBytes(size) == size <= 65535

\* _encode_frame
EncodeFrame(f, n, mask) ==
  LET inHead == Short(f.size)
      inTwo == TwoBytes(f.size)
      half == f.size \div 2
  IN  <<Piece("head", f.op, IF inHead THEN f.size ELSE IF inTwo THEN 126 ELSE 127, n)>>
        \o (IF inHead THEN <<>> ELSE <<Piece("size", f.op, IF inTwo THEN f.size % 65536 ELSE f.size, n)>>)
        \o (IF mask THEN <<Piece("key", f.op, 0, n)>> ELSE <<>>)
        \o (IF half > 0 THEN <<Piece("data", f.op, half, n)>> ELSE <<>>)
        \o (IF f.size > 0 THEN <<Piece("data", f.op, f.size - half, n)>> ELSE <<>>)

Listening == [pc |-> "out", op |-> "none", left |-> 0, timed |-> FALSE, connected |-> TRUE]

\* _server_handshake; a client sends only when it has read the answer.
HandshakeAnswer == Piece("answer", "none", 0, 0)

SocketInit ==
  /\ frames \in FrameLists /\ masked \in BOOLEAN
  /\ sent = 0 /\ buffer = <<>> /\ received = <<>> /\ ponged = <<>>
  /\ wire = IF masked THEN <<>> ELSE <<HandshakeAnswer>>
  /\ reader = [Listening EXCEPT !.pc = IF masked THEN "out" ELSE "handshake"]
  /\ swallowed = FALSE /\ outOfStep = FALSE /\ timeouts = 0

\* send, under the send lock; a server may send as soon as it has answered
SendFrame ==
  /\ sent < Len(frames) /\ sent' = sent + 1
  /\ wire' = wire \o EncodeFrame(frames[sent'], sent', masked)
  /\ UNCHANGED <<frames, masked, buffer, reader, received, ponged, swallowed, outOfStep, timeouts>>

Arrive ==
  /\ wire # <<>>
  /\ buffer' = Append(buffer, Head(wire)) /\ wire' = Tail(wire)
  /\ UNCHANGED <<frames, masked, sent, reader, received, ponged, swallowed, outOfStep, timeouts>>

\* _read_http_header: what came in one recv with the end of the header is not kept.
ReadHandshake ==
  /\ reader.pc = "handshake" /\ buffer # <<>>
  /\ \E k \in DOMAIN buffer :
       /\ buffer' = SubSeq(buffer, k + 1, Len(buffer))
       /\ swallowed' = (k > 1)
  /\ reader' = [reader EXCEPT !.pc = "out"]
  /\ UNCHANGED <<frames, masked, sent, wire, received, ponged, outOfStep, timeouts>>

CallReceive ==
  /\ reader.pc = "out" /\ reader.connected
  /\ \E timed \in BOOLEAN : reader' = [reader EXCEPT !.pc = "head", !.timed = timed]
  /\ UNCHANGED <<frames, masked, sent, wire, buffer, received, ponged, swallowed, outOfStep, timeouts>>

\* How receive goes on behind a frame: a message, a close, a ping, a pong, and
\* operations it does not know.
Handled(op, n) ==
  /\ reader' = [reader EXCEPT !.left = 0, !.pc = IF op \in {"ping", "pong"} THEN "head" ELSE "out",
                              !.connected = (op # "close")]
  /\ received' = IF op \in {"text", "binary"} THEN Append(received, n) ELSE received
  /\ ponged' = IF op = "ping" THEN Append(ponged, n) ELSE ponged

\* _read_frame, from one _read_exact to the next.  Bytes that are not what is
\* asked for are taken for it, whatever comes of that.
AfterHead(code) == IF code >= 126 THEN "size" ELSE IF masked THEN "key" ELSE "data"
Wanted(kind) == reader.pc = kind /\ buffer # <<>> /\ buffer' = Tail(buffer)
TooLarge(size) == size > MaxFrameBytes

ReadHead ==
  /\ Wanted("head") /\ Head(buffer).kind = "head"
  /\ LET p == Head(buffer) IN
     IF p.value = 0 /\ ~masked
     THEN Handled(p.op, p.of)
     ELSE /\ reader' = [reader EXCEPT !.op = p.op, !.left = p.value, !.pc = AfterHead(p.value)]
          /\ UNCHANGED <<received, ponged>>
  /\ UNCHANGED <<frames, masked, sent, wire, swallowed, outOfStep, timeouts>>

ReadSize ==
  /\ Wanted("size") /\ Head(buffer).kind = "size"
  /\ LET size == Head(buffer).value IN
     IF TooLarge(size)
     THEN reader' = [reader EXCEPT !.pc = "out", !.left = 0] /\ outOfStep' = TRUE
     ELSE /\ reader' = [reader EXCEPT !.left = size, !.pc = IF masked THEN "key" ELSE "data"]
          /\ UNCHANGED outOfStep
  /\ UNCHANGED <<frames, masked, sent, wire, received, ponged, swallowed, timeouts>>

ReadKey ==
  /\ Wanted("key") /\ Head(buffer).kind = "key"
  /\ IF reader.left = 0
     THEN Handled(reader.op, Head(buffer).of)
     ELSE reader' = [reader EXCEPT !.pc = "data"] /\ UNCHANGED <<received, ponged>>
  /\ UNCHANGED <<frames, masked, sent, wire, swallowed, outOfStep, timeouts>>

ReadData ==
  /\ Wanted("data") /\ Head(buffer).kind = "data" /\ Head(buffer).value <= reader.left
  /\ IF Head(buffer).value = reader.left
     THEN Handled(reader.op, Head(buffer).of)
     ELSE reader' = [reader EXCEPT !.left = @ - Head(buffer).value] /\ UNCHANGED <<received, ponged>>
  /\ UNCHANGED <<frames, masked, sent, wire, swallowed, outOfStep, timeouts>>

Misread ==
  /\ reader.pc \in {"head", "size", "key", "data"} /\ buffer # <<>>
  /\ Head(buffer).kind # reader.pc \/ (reader.pc = "data" /\ Head(buffer).value > reader.left)
  /\ reader' = [reader EXCEPT !.pc = "misread"]
  /\ UNCHANGED <<frames, masked, sent, wire, buffer, received, ponged, swallowed, outOfStep, timeouts>>

\* socket.timeout: what has been read of a frame is gone.
TimesOut ==
  /\ reader.timed /\ buffer = <<>> /\ reader.pc \in {"head", "size", "key", "data"} /\ timeouts < MaxTimeouts
  /\ timeouts' = timeouts + 1
  /\ outOfStep' = (outOfStep \/ reader.pc # "head")
  /\ reader' = [reader EXCEPT !.pc = "out", !.left = 0]
  /\ UNCHANGED <<frames, masked, sent, wire, buffer, received, ponged, swallowed>>

SocketNext ==
  \/ SendFrame \/ Arrive \/ ReadHandshake \/ CallReceive
  \/ ReadHead \/ ReadSize \/ ReadKey \/ ReadData \/ Misread \/ TimesOut
-----------------------------------------------------------------------------
\* The numbers of the first n frames that have one of these operations, in order
Lists(s, n, ops) ==
  /\ \A i, j \in DOMAIN s : i < j => s[i] < s[j]
  /\ ToSet(s) = {i \in 1 .. n : frames[i].op \in ops}
Handed(n) == Lists(received, n, {"text", "binary"}) /\ Lists(ponged, n, {"ping"})

\* Every message is received once, whole and in order, and every ping answered,
\* whatever pieces they come in, up to a close; and nothing is taken for what it
\* is not, unless the first frames came in one piece with the handshake
\* (realtime.py:176-185), or a timeout or a frame too large left the rest of a
\* frame unread (:206, :154).
FramesRead ==
  LET atRest == wire = <<>> /\ buffer = <<>> /\ reader.pc \in {"out", "head"} /\ reader.connected IN
  ~swallowed /\ ~outOfStep =>
    /\ reader.pc # "misread" /\ \E n \in 0 .. sent : Handed(n)
    /\ atRest => Handed(sent)
=============================================================================
