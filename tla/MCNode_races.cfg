SPECIFICATION Spec
CONSTANTS
  alice = alice
  bob = bob
  None = None
  h1 = h1
  h2 = h2
  Txs <- MCTxs
  Senders <- MCSenders
  Alloc <- MCAlloc
  Submissions <- MCSubmissions
  SenderOrder <- MCOrder
  Offers <- MCOffers
  Workers = {h1, h2}
  MaxPool = 2
  MaxWord = 3
  ListLimit = 2
  MaxHeight = 3
  MaxBlocks = 6
SYMMETRY Handlers
CONSTRAINT Bound
CHECK_DEADLOCK FALSE
INVARIANTS PoolSound Contiguous ContiguousWhenIdle NoConfirmedEntryWhenIdle LostAreCandidates
PROPERTIES NoReplacement RemovedAreConfirmed
