CONSTANTS
  Callers = {"t1", "t2"}
  Jobs = {"j1", "j2"}
  Exits = {"j2"}
  PoolSize = 1
  MaxStops = 1
  Requests = {"q1", "q2"}
  Limit = 2
  Window = 1
  MaxTime = 2
  Procs = {"p1", "p2"}
  MigrationList <- MCMigrations
  Faulty = {"m2"}
  MaxAttempts = 2
  N = 2
  LastRound = 4
  StepName <- MCStepName
  MaxRestarts = 1
  GNodes = {"g1", "g2", "g3"}
  Seeds <- MCSeeds
  Events = {"e1", "e2"}
  Origin <- MCOrigin
  Throws <- MCThrows
  Clients = {"c1", "c2"}
  Casters = {"b1", "b2"}
  Conns = {"s1", "s2"}
  Rooms = {"r1", "r2"}
  PeerIds = {"p1"}
  MaxJoins <- MCMaxJoins
  MaxReruns = 1
  MaxBlocks = 2
  MaxPosts = 2
  WSPeers = {"w1", "w2"}
  Numbers = {1, 2}
  Speakers = {"x1", "x2"}
  Hangers = {"w2"}
  Sessions = {"s1", "s2"}
  Columns = {"c", "d"}
  Values = {0, 1}
  MaxId = 3
  MaxOrmCalls = 6
  Migrators = {"u1", "u2"}
  SqlOf <- MCSqlOf
  Meaning <- MCMeaning
  ComesAfter <- MCAfter
  NameRank <- MCNameRank
  TableOrder <- MCTableOrder
  MaxSqlRuns = 2
  MaxFiles = 3
SPECIFICATION MCSpec
INVARIANTS
  MessagesWhole
  RoomsAndTurns
PROPERTIES
  HistoryKept
  AveragesWhole
  ServicesStop
  AskedIsDone
CHECK_DEADLOCK FALSE
