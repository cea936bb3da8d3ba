SPECIFICATION FairSpec
CONSTANTS
  a = a
  c = c
  Nodes = {a, c}
  peers <- Everyone
  Trusted <- Everyone
  Transactions = {"tx"}
  Works = {1}
  SEEN_CACHE_SIZE = 1
  max_sync_blocks = 4
  MaxItems <- OneAndTwo
  MaxBackoffs = 2
  MaxDownloads = 1
  MaxRestarts = 1
CHECK_DEADLOCK FALSE
INVARIANTS TypeOK RelayedOnce
PROPERTIES WorkNeverLost 
