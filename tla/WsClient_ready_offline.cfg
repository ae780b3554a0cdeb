SPECIFICATION Spec
CONSTANTS
  MaxRetries = 0
  FailureBound = 3
INVARIANTS ReadyMeansConnected
CHECK_DEADLOCK FALSE
