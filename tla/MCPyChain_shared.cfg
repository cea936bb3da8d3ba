SPECIFICATION Spec
CONSTANTS
  alice = alice
  bob = bob
  Addr = {alice, bob}
  COINBASE_SENDER = COINBASE_SENDER
  GENESIS_ADDRESS = GENESIS_ADDRESS
  MAX_SUPPLY_BASE_UNITS = 8
  block_reward = 2
  config_difficulty = 1
  difficulty_adjustment_interval = 2
  target_block_time = 4
  min_difficulty = 1
  max_difficulty = 2
  max_adjustment_factor = 4
  Procs = {"server", "cli"}
  Submissions = {}
  Payloads <- OneTransfer
  Miners = {alice, bob}
  PeerBlocks <- NoBlocks
  PeerChains <- NoChains
  MaxHeight = 3
  MaxCrashes = 0
CHECK_DEADLOCK FALSE
INVARIANTS SharedChainIsValid
