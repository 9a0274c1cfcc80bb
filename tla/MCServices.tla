----------------------------- MODULE MCServices -----------------------------
(***************************************************************************)
(* The services share nothing, so one run checks them one after the other: *)
(* part says which of them runs, the others stay as they begin.            *)
(***************************************************************************)
EXTENDS JobQueue, RateLimiter, Database, AllReduce, LowLevelNetwork,
        Signaling, Supervisor, NativeWS

VARIABLE part

MCSeeds == ("g1" :> {"g2"}) @@ ("g2" :> {"g3"}) @@ ("g3" :> {"g1"})
MCOrigin == ("e1" :> "g1") @@ ("e2" :> "g2")
MCThrows == {<<"g1", "e2">>}
MCMigrations == <<"m1", "m2", "m3">>
\* Files for two tables: of one statement and of three, with rows, and with a
\* semicolon in quotes.
MCSqlOf ==
  [create |-> <<"create accounts", ";">>, add |-> <<"add c to accounts">>,
   seed |-> <<"insert into accounts", "'", ";", "'", ";">>,
   two |-> <<"create posts", ";", "insert into posts", ";", "add d to posts", ";">>]
SqlMeans(v, t, c) == [verb |-> v, table |-> t, column |-> c]
MCMeaning ==
  ("create accounts" :> SqlMeans("create", "accounts", "")) @@ ("add c to accounts" :> SqlMeans("add", "accounts", "c"))
    @@ ("insert into accounts" :> SqlMeans("insert", "accounts", "")) @@ ("create posts" :> SqlMeans("create", "posts", ""))
    @@ ("insert into posts" :> SqlMeans("insert", "posts", "")) @@ ("add d to posts" :> SqlMeans("add", "posts", "d"))
    @@ ("'" :> SqlMeans("none", "", ""))
MCAfter == [create |-> {}, add |-> {"create"}, seed |-> {"create"}, two |-> {}]
MCNameRank == [add |-> 1, create |-> 2, seed |-> 3, two |-> 4]
MCTableOrder == <<"accounts", "agilang_migrations", "posts">>
MCMaxJoins == ("s1" :> 2) @@ ("s2" :> 1)
MCStepName == <<"e1", "e2", "step", "step">>

serviceVars == <<jobVars, limiterVars, ormVars, migrationVars, sqlVars, allreduceVars, gossipVars, tcpVars,
                 signalVars, supervisorVars, wsVars, part>>

MCInit ==
  /\ part \in {"jobs", "limiter", "orm", "migrations", "mysql", "allreduce", "gossip", "tcp", "signaling",
               "supervisor", "native"}
  /\ JobInit /\ LimiterInit /\ OrmInit /\ MigrationInit /\ SqlInit /\ AllReduceInit /\ GossipInit /\ TCPInit
  /\ SignalInit /\ SupervisorInit /\ WSInit
  /\ part # "gossip" => lossy

Job == part = "jobs" /\ JobNext
Limiter == part = "limiter" /\ LimiterNext
Records == part = "orm" /\ OrmNext
Migration == part = "migrations" /\ MigrationNext
MySQL == part = "mysql" /\ SqlNext
Reduce == part = "allreduce" /\ AllReduceNext
Gossip == part = "gossip" /\ GossipNext
TCP == part = "tcp" /\ TCPNext
Signals == part = "signaling" /\ SignalNext
Supervise == part = "supervisor" /\ SupervisorNext
Native == part = "native" /\ WSNext

MCNext ==
  \/ Job /\ UNCHANGED <<ormVars, limiterVars, migrationVars, sqlVars, allreduceVars, gossipVars, tcpVars, signalVars, supervisorVars, wsVars, part>>
  \/ Limiter /\ UNCHANGED <<ormVars, jobVars, migrationVars, sqlVars, allreduceVars, gossipVars, tcpVars, signalVars, supervisorVars, wsVars, part>>
  \/ Records /\ UNCHANGED <<jobVars, limiterVars, migrationVars, sqlVars, allreduceVars, gossipVars, tcpVars, signalVars, supervisorVars, wsVars, part>>
  \/ Migration /\ UNCHANGED <<ormVars, jobVars, limiterVars, sqlVars, allreduceVars, gossipVars, tcpVars, signalVars, supervisorVars, wsVars, part>>
  \/ MySQL /\ UNCHANGED <<ormVars, jobVars, limiterVars, migrationVars, allreduceVars, gossipVars, tcpVars, signalVars, supervisorVars, wsVars, part>>
  \/ Reduce /\ UNCHANGED <<ormVars, jobVars, limiterVars, migrationVars, sqlVars, gossipVars, tcpVars, signalVars, supervisorVars, wsVars, part>>
  \/ Gossip /\ UNCHANGED <<ormVars, jobVars, limiterVars, migrationVars, sqlVars, allreduceVars, tcpVars, signalVars, supervisorVars, wsVars, part>>
  \/ TCP /\ UNCHANGED <<ormVars, jobVars, limiterVars, migrationVars, sqlVars, allreduceVars, gossipVars, signalVars, supervisorVars, wsVars, part>>
  \/ Signals /\ UNCHANGED <<ormVars, jobVars, limiterVars, migrationVars, sqlVars, allreduceVars, gossipVars, tcpVars, supervisorVars, wsVars, part>>
  \/ Supervise /\ UNCHANGED <<ormVars, jobVars, limiterVars, migrationVars, sqlVars, allreduceVars, gossipVars, tcpVars, signalVars, wsVars, part>>
  \/ Native /\ UNCHANGED <<ormVars, jobVars, limiterVars, migrationVars, sqlVars, allreduceVars, gossipVars, tcpVars, signalVars, supervisorVars, part>>

\* A part that does not run has nothing under way that fairness could demand.
MCSpec ==
  /\ MCInit /\ [][MCNext]_serviceVars
  /\ JobFairness /\ AllReduceFairness /\ GossipFairness /\ SignalFairness /\ SupervisorFairness
  /\ WSFairness
-----------------------------------------------------------------------------
\* What is sent is handled once (the flood's events), goes out to whom it should
\* (the TCP server's broadcasts) and comes whole: of the native server's frames,
\* as far as its one lock reaches.
MessagesWhole ==
  /\ GossipTypeOK /\ TCPTypeOK /\ WSTypeOK
  /\ HandledOnce /\ CastComplete /\ RaisesOnlyOverlapped /\ NoFreedPeer /\ BroadcastsWhole
  /\ OnlyClosedTwice

\* Rooms and their index agree with who is connected, and "both services once"
\* is once, in their order.
RoomsAndTurns == SupervisorTypeOK /\ OnceBridges /\ RoomsFollow

\* What was admitted stays so: jobs in their queue, hits in their window,
\* migrations in their order, rows whole and with their objects.
HistoryKept == JobsKept /\ LimitKept /\ MigrationsSettle /\ [](RowsWhole /\ SameRow)

\* Whoever is asked to stop stops, and what it had open is closed.
ServicesStop == StopEnds /\ StopDisconnects /\ StartReturns /\ ClosedAreFreed /\ StopFrees

\* What was asked of a service in time is done: jobs, rounds, floods, and the
\* files of agi db, whose schema follows from the ones recorded.
AskedIsDone == EarlyServed /\ AllReturn /\ FloodReaches /\ []SchemaFollowsRecords
=============================================================================
