SPECIFICATION MCSpec
CONSTANTS
  Lists = {0, 1, 2}
  Threads = {t1, t2}
  Ids = {4, 5}
  Codes = {c1, c2}
  Imin = 5
  Imax = 6
  MaxLen = 3
  MaxTotal = 3
  Ignored = {1}
INVARIANTS IInv PairsIntact NoEntryLost
PROPERTIES Returns Atomic
CHECK_DEADLOCK FALSE
