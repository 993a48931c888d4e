SPECIFICATION Spec
CONSTANTS
  MaxFailures = 3
  MaxLaunches = 4
INVARIANT TypeOK
INVARIANT ThreadsMatchLaunch
PROPERTY Decided
CHECK_DEADLOCK FALSE
