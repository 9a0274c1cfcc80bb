CONSTANTS
  Accounts <- FirstAccounts
  Txs <- FirstTx
  From <- FirstFrom
  Nonce <- FirstNonce
  GasPrice <- FirstOne
  GasLimit <- FirstOne
  HashOrder <- FirstOne
  WellFormed <- FirstTx
  Fallible <- MCNoFallible
  MaxTxs = 4
  PoolGap = 2
  ConfigGap = 1
  Strict = FALSE
  MaxBlockTxs = 3
  BlockGasLimit = 3
  AllowEmpty = TRUE
  Posts <- NoCalls
  Handlers = {}
  Bodies <- NoCalls
  RateLimit = 2
  Minute = 1
  MaxClock = 0
SPECIFICATION MCSpec
PROPERTIES
  BlockEmptiesPool
CHECK_DEADLOCK FALSE
