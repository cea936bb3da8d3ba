SPECIFICATION FairSpec
CONSTANTS
  alice = alice
  bob = bob
  Coinbase = Coinbase
  MCBlocks = {"g", "a1", "a2", "b1", "b2", "b3"}
  Blocks <- MCBlocks
  Genesis = "g"
  Parent <- MCParent
  Anc <- MCAnc
  Index <- MCIndex
  Time <- MCTime
  TimeOK <- MCTimeOK
  Work <- MCWork
  Txs <- MCTxs
  Full <- MCFull
  Incr <- MCIncr
  Invalid = Invalid
  NoTip = NoTip
  Interval = 2
  Version = 2
  FutureBound = 4
  Clock = {0}
  MaxCrashes = 0
  MaxFaults = 0
PROPERTIES Convergence
