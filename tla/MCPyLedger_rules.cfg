SPECIFICATION LedgerSpec
CONSTANTS
  alice = alice
  bob = bob
  Addr = {alice, bob}
  COINBASE_SENDER = COINBASE_SENDER
  GENESIS_ADDRESS = GENESIS_ADDRESS
  MAX_SUPPLY_BASE_UNITS = 7
  block_reward = 2
  config_difficulty = 2
  difficulty_adjustment_interval = 3
  target_block_time = 4
  min_difficulty = 1
  max_difficulty = 3
  max_adjustment_factor = 4
  Delays = {0, 1, 4, 16, 600}
  Transfers <- MCTransfers
  Offers <- MCOffers
  MaxHeight = 5
CHECK_DEADLOCK FALSE
INVARIANTS Conservation RetargetBounded SlowerIsNeverHarder AdmittedPoolMines
