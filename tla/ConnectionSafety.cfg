SPECIFICATION Spec
CONSTANTS
  c1 = c1
  c2 = c2
  Client = {c1, c2}
  MaxReconnect = 1
  MaxSockets = 9
  MaxFailures <- Mixed
  Connected0 = {}
SYMMETRY Symmetry
INVARIANTS TypeOK OneSocket AttemptCanEnd
\* Watches that have ended stop.
CHECK_DEADLOCK FALSE
