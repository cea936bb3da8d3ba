SPECIFICATION Spec
CONSTANTS
  alice = alice
  bob = bob
  Version = 3
  Phase7 = TRUE
  Addresses = {alice, bob}
  Coinbase = Coinbase
  GenesisAlloc <- MCAlloc
  MaxSupply = 10
  MiningBudget = 7
  BlockReward = 2
  MaxWord = 11
  MTPWindow = 3
  FutureStep = 16
  DifficultyInterval = 2
  TargetBlockTime = 4
  MaxAdjustment = 4
  MinDifficulty = 1
  MaxDifficulty = 3
  ConfigDifficulty = 2
  Invalid = Invalid
  Offers <- MCOffers
  Clock = {0, 2, 16}
  FutureBound = 2
  SkewLimit = 1
  Sanity = 2
  Bootstrap = TRUE
  NoPeers = NoPeers
  MaxHeight = 4
CHECK_DEADLOCK FALSE
INVARIANTS IncrementalAgreesWithReplay Conservation SpentOnce MinerBuildsValidBlock
