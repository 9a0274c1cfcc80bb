CONSTANTS
  Accounts <- MCAccounts
  Txs <- MCTxs
  From <- MCFrom
  Nonce <- MCNonce
  GasPrice <- MCGasPrice
  GasLimit <- MCGasLimit
  HashOrder <- MCHashOrder
  WellFormed <- MCTxs
  Fallible <- MCFallible
  MaxTxs = 4
  PoolGap = 2
  ConfigGap = 1
  Strict = TRUE
  MaxBlockTxs = 3
  BlockGasLimit = 3
  AllowEmpty = FALSE
  Posts <- MCPosts
  Handlers = {h1, h2}
  Bodies <- MCBodies
  RateLimit = 2
  Minute = 1
  MaxClock = 3
SPECIFICATION MCSpec
INVARIANTS
  PoolConsistent
  HeadOfLineReady
  NoReplay
  SelectionExecutable
PROPERTIES
  NodesServe
CHECK_DEADLOCK FALSE
