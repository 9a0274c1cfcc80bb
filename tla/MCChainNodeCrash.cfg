CONSTANTS
  Blocks <- MCBlocks
  Genesis = "g"
  Parent <- MCParent
  Chain <- MCChain
  Height <- MCHeight
  Stake <- MCStake
  TotalStake = 3
  HashOrder <- MCHashOrder
  Own <- MCOwn
  Effect <- MCEffect
  FinalityDepth = 1
SPECIFICATION MCSpec
INVARIANTS
  StateFollowsHead
