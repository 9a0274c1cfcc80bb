-------------------------- MODULE LowLevelNetwork ---------------------------
(***************************************************************************)
(* GossipNode: an event is a UDP datagram that each node hands to its      *)
(* handlers and sends on, once, to the peers it knows.  It knows its seeds *)
(* and whoever has sent it anything.  Datagrams may get lost or arrive     *)
(* twice, in any order.                                                    *)
(***************************************************************************)
EXTENDS Integers, FiniteSets, Sequences, SequencesExt

CONSTANTS
  GNodes,
  Seeds,        \* per node: the peers it is made with
  Events,
  Origin,       \* who publishes each event
  Throws        \* <<node, event>> pairs whose handlers raise

ASSUME GossipAssumption ==
  /\ Seeds \in [GNodes -> SUBSET GNodes]
  /\ Origin \in [Events -> GNodes]

VARIABLES
  lossy,        \* does the network lose and repeat datagrams?
  published,
  flight,       \* datagrams under way
  gpeers,       \* peers
  seen,         \* _seen
  handled,      \* how often a node's handlers were given each event
  loop          \* is the receiving thread running?

gossipVars == <<lossy, published, flight, gpeers, seen, handled, loop>>

Datagram == [to : GNodes, from : GNodes, event : Events]

GossipInit ==
  /\ lossy \in BOOLEAN
  /\ published = {} /\ flight = {}
  /\ gpeers = Seeds
  /\ seen = [n \in GNodes |-> {}]
  /\ handled = [n \in GNodes |-> [e \in Events |-> 0]]
  /\ loop = [n \in GNodes |-> TRUE]
-----------------------------------------------------------------------------
\* one sendto per peer; an OSError is ignored
SentTo(n, ps, e) == {[to |-> p, from |-> n, event |-> e] : p \in ps}

OwnSeen(e) == [seen EXCEPT ![Origin[e]] = @ \cup {e}]

Publish(e) ==
  /\ e \notin published
  /\ published' = published \cup {e}
  /\ seen' = OwnSeen(e)
  /\ flight' = flight \cup SentTo(Origin[e], gpeers[Origin[e]], e)
  /\ UNCHANGED <<lossy, gpeers, handled, loop>>

Fresh(d) == d.event \notin seen[d.to]

Thrown(d) == Fresh(d) /\ <<d.to, d.event>> \in Throws

\* Mutant of Onward: an event is sent on to nobody.
OnwardNever(d) == {}

\* a fresh event goes to all peers but the one it came from, unless a handler
\* has raised
Onward(d) ==
  IF Fresh(d) /\ ~Thrown(d) THEN SentTo(d.to, gpeers[d.to] \ {d.from}, d.event) ELSE {}

(***************************************************************************)
(* One turn of _loop.  The sender becomes a peer; a fresh event is noted   *)
(* and handled; an exception of a handler ends the thread.                 *)
(***************************************************************************)
Receive(d) ==
  /\ loop[d.to]
  /\ \E again \in {FALSE, lossy} : flight' = (IF again THEN flight ELSE flight \ {d}) \cup Onward(d)
  /\ gpeers' = [gpeers EXCEPT ![d.to] = @ \cup {d.from}]
  /\ seen' = [seen EXCEPT ![d.to] = @ \cup {d.event}]
  /\ handled' = IF Fresh(d) THEN [handled EXCEPT ![d.to][d.event] = @ + 1] ELSE handled
  /\ loop' = [loop EXCEPT ![d.to] = ~Thrown(d)]
  /\ UNCHANGED <<lossy, published>>

Lose(d) ==
  /\ lossy
  /\ flight' = flight \ {d}
  /\ UNCHANGED <<lossy, published, gpeers, seen, handled, loop>>

\* stop(), here only where datagrams may get lost as well
Stop(n) ==
  /\ loop[n] /\ lossy
  /\ loop' = [loop EXCEPT ![n] = FALSE]
  /\ UNCHANGED <<lossy, published, flight, gpeers, seen, handled>>

GossipNext ==
  \/ \E e \in Events : Publish(e)
  \/ \E d \in flight : Receive(d) \/ Lose(d)
  \/ \E n \in GNodes : Stop(n)

\* a thread that runs receives something as long as something is there for it;
\* its sends are datagrams, which wait for nobody, and its handlers return
GossipFairness ==
  \A n \in GNodes : WF_gossipVars(\E d \in flight : d.to = n /\ Receive(d))

GossipSpec == GossipInit /\ [][GossipNext]_gossipVars /\ GossipFairness
-----------------------------------------------------------------------------
GossipTypeOK ==
  /\ flight \subseteq Datagram
  /\ gpeers \in [GNodes -> SUBSET GNodes] /\ seen \in [GNodes -> SUBSET Events]
  /\ handled \in [GNodes -> [Events -> Nat]]
  /\ loop \in [GNodes -> BOOLEAN] /\ published \subseteq Events

\* Whatever is repeated, overtaken or routed in circles: a node hands an event
\* to its handlers at most once, and never one of its own.
HandledOnce ==
  \A n \in GNodes, e \in Events : handled[n][e] <= IF Origin[e] = n THEN 0 ELSE 1

\* nodes that an event reaches along the seeds, through nodes whose handlers
\* never raise
Reliable == {n \in GNodes : \A e \in Events : <<n, e>> \notin Throws}
Reach(e) ==
  LET within[k \in Nat] ==
        IF k = 0 THEN {Origin[e]}
        ELSE within[k - 1] \cup UNION {Seeds[n] \cap Reliable : n \in within[k - 1]}
  IN  within[Cardinality(GNodes)]

\* On a network that loses nothing every event gets to all the nodes of
\* reliable handlers that seeds lead to, although nobody knows them all; and the
\* flood dies out, in circles too: in the end nothing is under way but datagrams
\* for nodes whose thread has ended.
FloodReaches ==
  ~lossy =>
    <>[](/\ \A e \in published : Reach(e) \ {Origin[e]} \subseteq {n \in GNodes : handled[n][e] = 1}
         /\ \A d \in flight : ~loop[d.to])
-----------------------------------------------------------------------------
(***************************************************************************)
(* The client list of TCPServer: one thread accepts, any thread may        *)
(* broadcast, stop closes everything.  There is no lock.                   *)
(***************************************************************************)

CONSTANTS
  Clients,
  Casters       \* threads that broadcast, one call each

ASSUME CastersAssumption == "stop" \notin Casters

VARIABLES
  listed,       \* _clients
  alive,        \* clients whose socket both sides hold open
  accepted,     \* clients that have ever been accepted
  pending,      \* accepted and not listed yet
  cast,         \* per thread: its call of broadcast
  stopping      \* how far stop() is

tcpVars == <<listed, alive, accepted, pending, cast, stopping>>

NoCast == [at |-> "idle", copy |-> <<>>, i |-> 0, sent |-> {}, alone |-> TRUE]

TCPInit ==
  /\ listed = <<>> /\ alive = {} /\ accepted = {} /\ pending = {}
  /\ cast = [b \in Casters |-> NoCast]
  /\ stopping = "no"
-----------------------------------------------------------------------------
\* accept() answers, as long as _stop is not seen
Accept(c) ==
  /\ stopping = "no" /\ pending = {}
  /\ c \notin accepted
  /\ accepted' = accepted \cup {c} /\ alive' = alive \cup {c}
  /\ pending' = {c}
  /\ UNCHANGED <<listed, cast, stopping>>

\* _clients.append(conn), perhaps after stop has cleared the list
ListClient(c) ==
  /\ c \in pending
  /\ pending' = {}
  /\ listed' = Append(listed, c)
  /\ UNCHANGED <<alive, accepted, cast, stopping>>

\* the peer goes away, or the handler returns and closes the connection: the
\* list keeps it
Drop(c) ==
  /\ c \in alive
  /\ alive' = alive \ {c}
  /\ UNCHANGED <<listed, accepted, pending, cast, stopping>>

Running(b) == cast[b].at = "send"

\* another call that changes the list while this one runs
Overlap(b) == [d \in Casters |-> IF d # b /\ Running(d) THEN [cast[d] EXCEPT !.alone = FALSE]
                                                        ELSE cast[d]]

\* list(self._clients)
Copy(b) ==
  /\ cast[b].at = "idle"
  /\ cast' = [Overlap(b) EXCEPT ![b] =
                [NoCast EXCEPT !.at = "send", !.copy = listed, !.i = 1,
                               !.alone = \A d \in Casters \ {b} : ~Running(d)]]
  /\ UNCHANGED <<listed, alive, accepted, pending, stopping>>

Clientele(b) == cast[b].copy

\* _clients after remove(c)
Without(c) == RemoveFirst(listed, c)

\* send to the next client; one that is gone is closed and removed, and if it
\* is not in the list any more, remove raises ValueError
SendNext(b) ==
  /\ Running(b) /\ cast[b].i <= Len(Clientele(b))
  /\ LET c == Clientele(b)[cast[b].i] IN
     IF c \in alive
     THEN /\ cast' = [cast EXCEPT ![b].i = @ + 1, ![b].sent = @ \cup {c}]
          /\ UNCHANGED listed
     ELSE IF Contains(listed, c)
     THEN /\ cast' = [cast EXCEPT ![b].i = @ + 1]
          /\ listed' = Without(c)
     ELSE /\ cast' = [cast EXCEPT ![b].at = "raised"]
          /\ UNCHANGED listed
  /\ UNCHANGED <<alive, accepted, pending, stopping>>

CastReturns(b) ==
  /\ Running(b) /\ cast[b].i > Len(Clientele(b))
  /\ cast' = [cast EXCEPT ![b].at = "returned"]
  /\ UNCHANGED <<listed, alive, accepted, pending, stopping>>

\* _stop.set() and the listed clients closed; that they are closed one by one
\* is what Drop before this step stands for
CloseAll ==
  /\ stopping = "no"
  /\ stopping' = "closed"
  /\ alive' = alive \ Range(listed)
  /\ cast' = Overlap("stop")
  /\ UNCHANGED <<listed, accepted, pending>>

ClearList ==
  /\ stopping = "closed"
  /\ stopping' = "cleared"
  /\ listed' = <<>>
  /\ cast' = Overlap("stop")
  /\ UNCHANGED <<alive, accepted, pending>>

TCPNext ==
  \/ \E c \in Clients : Accept(c) \/ ListClient(c) \/ Drop(c)
  \/ \E b \in Casters : Copy(b) \/ SendNext(b) \/ CastReturns(b)
  \/ CloseAll \/ ClearList

TCPSpec == TCPInit /\ [][TCPNext]_tcpVars
-----------------------------------------------------------------------------
TCPTypeOK ==
  /\ listed \in Seq(Clients)
  /\ alive \subseteq accepted /\ accepted \subseteq Clients /\ pending \subseteq accepted
  /\ \A b \in Casters : /\ cast[b].at \in {"idle", "send", "returned", "raised"}
                         /\ cast[b].sent \subseteq Range(cast[b].copy)
  /\ stopping \in {"no", "closed", "cleared"}

\* A broadcast that returns has sent to every client that was in the list when
\* it began and is still there, and has taken those it could not send to off
\* the list, whatever others did to the list meanwhile.
CastComplete ==
  \A b \in Casters : cast[b].at = "returned" =>
    \A c \in Range(cast[b].copy) \ cast[b].sent : c \notin alive /\ ~Contains(listed, c)

\* broadcast raises ValueError only when another broadcast or stop has changed
\* the list while it ran.
RaisesOnlyOverlapped == \A b \in Casters : cast[b].at = "raised" => ~cast[b].alone
=============================================================================
