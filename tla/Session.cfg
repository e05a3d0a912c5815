SPECIFICATION FairSpec
CONSTANTS
  MaxLogins = 2
  MaxSockets = 2
  MaxPings = 1
  MaxFaults = 2
  PongMissTolerance = 1
  PingFailTolerance = 0
INVARIANTS TypeOK JoinInFlight LoginShared AcceptedIsReturned LoginOutlived HeartbeatAlive
PROPERTIES SilenceNoticed
\* The bounds on logins and sockets are reached.
CHECK_DEADLOCK FALSE
