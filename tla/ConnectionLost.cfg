SPECIFICATION FairSpec
CONSTANTS
  c1 = c1
  c2 = c2
  Client = {c1, c2}
  MaxReconnect = 1
  MaxSockets = 9
  MaxFailures <- LossAndRetry
  Connected0 = {c1}
INVARIANT PausedInGoodHands
PROPERTY Served
\* Watches that have ended stop.
CHECK_DEADLOCK FALSE
