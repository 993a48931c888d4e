SPECIFICATION Spec
CONSTANTS
  NumberOfWorkerThreads = 2
  Targets = {1, 2}
  MaxCalls = 3
PROPERTY TargetReached
CHECK_DEADLOCK FALSE
