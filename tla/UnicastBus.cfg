SPECIFICATION Spec
CONSTANTS
  client = client
  Clients = {client}
  Versions = {1, 2}
  Ids = {1, 2, 3}
  NoId = 0
  Transactions = {1, 2, 3}
  Configurations <- Publishers
  MaxCalls = 3
  MaxRequests = 1
  MaxSendRetries = 1
  MaxRetries = 2
  MaxDisturbances = 2
INVARIANT TypeOK
INVARIANT MemoryMatchesQueue
INVARIANT LastRequestWins
INVARIANT CallbackInvokedOnce
PROPERTY EveryCallDecided
CHECK_DEADLOCK FALSE
