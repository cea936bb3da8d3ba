SPECIFICATION Spec
CONSTANTS
  Hashes = {h1, h2}
  NoHash = NoHash
  PayloadLen <- MCPayloadLen
  MaxWrites = 3
  MaxCrashes = 2
CHECK_DEADLOCK FALSE
INVARIANTS DiscardedTailIsIncomplete
