SPECIFICATION Spec
CONSTANTS
  MaxRetries = 1
  MaxFaults = 2
  MaxBoth = 3
  MaxAcks = 1
  MaxEvent = 1
  InitialConn = {"connecting"}
INVARIANT JustRetry
CHECK_DEADLOCK FALSE
