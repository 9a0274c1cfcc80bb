CONSTANTS
  Procs = {p, q}
  Jobs = {"produce-block", "attest", "finalize", "fork-choice", "loop"}
  SlotsPerEpoch = 2
  MaxBlocks = 4
  MaxOverwrites = 0
SPECIFICATION Spec
INVARIANTS
  FileConsistent
  NoDoubleProposal
  VotesOnOneLine
  FinalOnHead
PROPERTIES
  FinalStays
  LoopFinalizes
SYMMETRY ProcSymmetry
