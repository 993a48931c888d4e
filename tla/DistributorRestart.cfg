SPECIFICATION Spec
CONSTANTS
  Messages = {m1}
  Workers = {w1}
  NumberOfWorkerThreads = 1
  DataThreads = 2
  ControlThreads = {c1, c2}
  AllowedWorkerNodes = 2
  NumberOfRetries = 1
  MaxDisturbances = 1
  NoWorker = NoWorker
INVARIANT OnlyWhatIsReady
CHECK_DEADLOCK FALSE
