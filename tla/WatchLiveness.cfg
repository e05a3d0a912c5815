SPECIFICATION FairSpec
CONSTANTS
  MaxRetries = 1
  MaxFaults = 2
  MaxBoth = 3
  MaxAcks = 1
  MaxEvent = 2
  InitialConn = {"up"}
INVARIANT NotStranded
PROPERTIES
  CatchesUp
  EstablishmentEnds
  CloseReleases
\* A watch that has ended stops.
CHECK_DEADLOCK FALSE
