SPECIFICATION FairSpec
CONSTANTS
  Depth = 2
  N = 3
  BatchSize = 2
  Shuffle = TRUE
  RandSkip = 3
  Gpu = TRUE
  MaxForwards = 4
INVARIANTS IInv OneOwner ServedInOrder NoLostWakeUp EachPassComplete
PROPERTIES StreamSpec ForwardReturns StopReturns
CHECK_DEADLOCK FALSE
