SPECIFICATION Spec
CONSTANTS
  c1 = c1
  c2 = c2
  Client = {c1, c2}
  MaxReconnect = 1
  MaxSockets = 9
  MaxFailures <- GiveUp
  Connected0 = {c1, c2}
INVARIANT StateEnds
\* Watches that have ended stop.
CHECK_DEADLOCK FALSE
