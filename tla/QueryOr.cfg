SPECIFICATION Spec
CONSTANTS
  NoFilter <- Undefined
  Id = {1, 2, 3, 4}
  DefaultLimit = 2
  MaxLimit = 3
  Now = 10
  Programs <- TwoAlternatives
INVARIANT MergedMeansBoth
\* The bounds on queries and calls are reached.
CHECK_DEADLOCK FALSE
