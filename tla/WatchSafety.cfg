SPECIFICATION Spec
CONSTANTS
  MaxRetries = 1
  MaxFaults = 2
  MaxBoth = 4
  MaxAcks = 1
  MaxEvent = 2
  InitialConn = {"up", "connecting"}
INVARIANTS
  TypeOK
  DeliveredInOrder
  PositionIsLastDelivered
  OneEstablishment
  RebuildReplyFits
  AckAlive
PROPERTIES ImplementsFeed EstablishmentAdvances
\* A watch that has ended stops.
CHECK_DEADLOCK FALSE
