SPECIFICATION Spec
CONSTANTS
  Messages = {m1, m2}
  Workers = {w1, w2}
  NumberOfWorkerThreads = 1
  DataThreads = 2
  ControlThreads = {c1, c2}
  AllowedWorkerNodes = 1
  NumberOfRetries = 1
  MaxDisturbances = 1
  NoWorker = NoWorker
INVARIANT TypeOK
INVARIANT CapacityAccounted
INVARIANT LicenseExceededByThreads
PROPERTY SettledOnce
PROPERTY EveryMessageHandled
CHECK_DEADLOCK FALSE
