SPECIFICATION Spec
CONSTANTS
  client = client
  s1 = s1
  m1 = m1
  Messages = {m1}
  Malformed = {}
  Senders = {client}
  SenderOf <- FromClient
  NoAddress = NoAddress
  NullAddress = NullAddress
  InputQueue = InputQueue
  RetriesQueue = RetriesQueue
  Sagas = {s1}
  SagaOf <- OneSaga
  MaxNumberOfRetries = 1
  MaxAge = 2
  MaxReturns = 0
  MaxDisturbances = 0
INVARIANT ReplyReachesSender
CHECK_DEADLOCK FALSE
