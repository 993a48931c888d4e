SPECIFICATION Spec
CONSTANTS
  client = client
  s1 = s1
  m1 = m1
  Messages = {m1, m2}
  Malformed = {m2}
  Senders = {client}
  SenderOf <- FromClient
  NoAddress = NoAddress
  NullAddress = NullAddress
  InputQueue = InputQueue
  RetriesQueue = RetriesQueue
  Sagas = {s1}
  SagaOf <- OneSaga
  MaxNumberOfRetries = 3
  MaxAge = 7
  MaxReturns = 2
  MaxDisturbances = 2
INVARIANT TypeOK
INVARIANT RoundsBounded
INVARIANT ReplyAddressKept
PROPERTY BackedOff
PROPERTY EveryMessageDecided
CHECK_DEADLOCK FALSE
