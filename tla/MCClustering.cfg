SPECIFICATION Spec
CONSTANTS
  k = 3
  niter = 1
  Redos = {1, 2}
  Samples = {1, 2}
  nt = 2
  Inf = 2
  None = none
  MaxPoints = 4
  MaxRedos = 2
INVARIANTS EveryClusterHasItsPoints BestIsKept
PROPERTIES OutputIsIndexed Returns
CHECK_DEADLOCK FALSE
