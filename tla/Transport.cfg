SPECIFICATION Spec
CONSTANTS
  m1 = m1
  NoThread = NoThread
  NoMessage = NoMessage
  Threads = {t1, t2}
  Messages = {m1, m2, m3}
  Ids = {m1, m2, m3}
  IdMaps <- UniqueOrShared
  Unreadable = {m3}
  Modes = {"dtc", "suppressed", "nontransactional"}
  MaxRetries = 2
  MaxDisturbances = 2
INVARIANT TypeOK
INVARIANT FailuresAccounted
INVARIANT RetriesBounded
INVARIANT DeadLettersKept
PROPERTY GivenUpForAReason
PROPERTY SettledOnce
PROPERTY EverySettled
CHECK_DEADLOCK FALSE
