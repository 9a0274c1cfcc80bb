CONSTANTS
  Nodes <- MCNodes
  Txs <- MCTxs
  From <- MCFrom
  Nonce <- MCNonce
  Gap = 1
  MaxHeight = 2
SPECIFICATION MCSpec
PROPERTY SyncCatchesUp
