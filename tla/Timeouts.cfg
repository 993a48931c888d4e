SPECIFICATION Spec
CONSTANTS
  t1 = t1
  s1 = s1
  NoMessage = NoMessage
  Timeouts = {t1, t2}
  Sagas = {s1}
  SagaOf <- OneSaga
  Due <- TwoTimes
  Copies = {1, 2}
  Handlers = {h1, h2}
  Interval = 2
  MaxTime = 1
  MaxDisturbances = 1
INVARIANT TypeOK
INVARIANT NothingLost
INVARIANT NeverEarly
INVARIANT RepeatedForAReason
PROPERTY RevokedNotDispatched
PROPERTY EveryDelivered
CHECK_DEADLOCK FALSE
