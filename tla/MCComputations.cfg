SPECIFICATION MCSpec
CONSTANTS
  Accounts <- MCAccounts
  Txs <- MCTxs
  Kind <- MCKind
  From <- MCFrom
  To <- MCTo
  Value <- MCValue
  Nonce <- MCNonce
  CallOk <- MCCallOk
  Endowment <- MCEndowment
  Strict = TRUE
  Gap = 2
  MaxBlockTxs = 3
  MaxHeight = 3
  WordBytes = 2
  AddressMod = 8
  MaxStack = 8
  MaxCallDepth = 3
  Env <- MCEnv
  Keccak <- MCKeccak
  NewAddress <- MCNewAddress
  Requests <- MCRequests
  Calldata <- MCCalldata
  Single = 4
  ShortLength = 2
  LengthBytes = 2
  AddressBytes = 2
  P = 67
  N = 79
  G <- MCGenerator
  Keys = {1, 2, 40, 78}
  Seeds <- MCSeeds
  Drafts <- MCDrafts
  ChainId = 5
  Digest <- MCDigest
  LeafLists <- MCLeafLists
  Claims <- MCClaims
  Modulus = 7
  Generator = 3
  Configs <- MCConfigs
  ReplicaSizes = {1, 2, 3, 4, 5}
  SlotsPerEpoch = 3
  MaxSlots = 12
  Starters = {st1, st2}
  StackConfigs <- MCStackConfigs
  NewConfigs <- MCNewConfigs
  StartModes = {"full", "validator"}
  DefaultPort <- MCDefaultPort
  Uninstalled <- MCUninstalled
  MaxStarts = 2
  MaxRewrites = 1
CHECK_DEADLOCK FALSE
INVARIANTS
  AccountsSound
  ReplayAgrees
  FramesContained
  SignaturesSound
  ConsensusSound
PROPERTIES
  ValueConserved
  StaticReadOnly
  ExecutionEnds
