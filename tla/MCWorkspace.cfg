SPECIFICATION WorkspaceSpec
CONSTANTS
  Templates = {"basic", "ai", "systems", "zk", "blockchain", "web"}
  Vias = {"command", "smart", "scaffold"}
  Others = {"page", "hosting", "bridge"}
  EditPaths = {"src/main.agi"}
  CrashPaths = {"src/main.agi"}
  MaxMakes = 2
  MaxDepth = 5
CHECK_DEADLOCK FALSE
INVARIANTS
  NewMakesProject
