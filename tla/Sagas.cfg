SPECIFICATION Spec
CONSTANTS
  m1 = m1
  m2 = m2
  m3 = m3
  a1 = a1
  v1 = v1
  v2 = v2
  Configurations <- Endpoints
  Threads = {t1, t2}
  Messages = {m1, m2, m3, a1}
  Starters = {m1, m2, m3}
  Values = {v1, v2}
  ValueOf <- OneOther
  Answers = {a1}
  RequestOf <- ToTheFirst
  Ids = {1, 2, 3, 4, 5, 6, 7}
  NoSaga = 0
  NoMessage = NoMessage
  MaxRetries = 2
  MaxDisturbances = 1
SYMMETRY Symmetry
INVARIANT TypeOK
INVARIANT OneSagaPerValue
 
INVARIANT CompletedForGood
CHECK_DEADLOCK FALSE
