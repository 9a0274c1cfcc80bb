SPECIFICATION MCSpec
CONSTANTS
  FrameLists <- MCFrameLists
  MaxFrameBytes = 65537
  MaxTimeouts = 1
  Sources <- MCSources
  Main = "main"
  MaxCalls = 4
  LeafSets <- MCLeafSets
  MaxTensors = 5
  MaxBackwards = 2
  Names <- MCNames
  Params <- MCParams
  MaxStmts = 3
  MaxBlocks = 3
  Texts <- MCTexts
  MaxMerges = 3
  MaxLeast = 2
  Samples <- MCSamples
  PixelScale = 2
  Gradients <- MCGradients
  MaxAdam = 5
  Idents = {"x", "y"}
  MaxScopes = 3
  MaxDefs = 2
  Programs <- MCPrograms
  CharTexts <- MCCharTexts
  NL = "n"
  Expressions <- MCExpressions
  Environments <- MCEnvironments
  Bits = 4
  MaxNesting = 3
  Threads = {"t1", "t2"}
  WebRequests <- MCWebRequests
  Before <- MCBefore
  After <- MCAfter
  Routes <- MCRoutes
  StaticPaths = {"/file"}
  Users = {"u1"}
  SignedIn = {"b1"}
  MaxAge = 1
  MaxClock = 2
  MaxRuns = 2
  MaxRequests = 2
  Destinations = {"public", "private", "unresolved", "ftp"}
  AllowPrivate = FALSE
  Retries = 2
  MaxHops = 1
  Processes = {"p1", "p2"}
  Packages = {"k1", "k2"}
  MaxCommands = 3
  Publishers = {"b1", "b2"}
  Topics = {"t"}
  Handlers = {"h1", "h2", "h3"}
  RaisingHandlers = {"h3"}
  OnServer = {"b2"}
  Templates = {"basic", "ai", "systems", "zk", "blockchain", "web"}
  Vias = {"command", "smart", "scaffold"}
  Others = {"page", "hosting", "bridge"}
  EditPaths = {"src/main.agi", "run.agi", "resources/views/pricing.ags"}
  CrashPaths = {"src/main.agi", "config/rpc.json", "vendor/agilang", "frontend/index.html"}
  MaxMakes = 2
  MaxDepth = 5
CHECK_DEADLOCK FALSE
INVARIANTS
  CompilerSound
  LearningExact
  FrameworkSound
PROPERTIES
  LockMatches
  ApplicationsEnd
