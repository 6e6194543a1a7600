SPECIFICATION Spec
CONSTANTS
  a = a
  b = b
  nan = nan
  Vectors <- MCVectors
  Key <- MCKey
  NList = 2
  KSub = 3
  Null = Null
  Garbage = Garbage
  NoFile = NoFile
  Probes = {2, 15}
  Batches <- MCBatches
  TrainSizes = {1, 2, 3}
  MaxAdded = 3
  MaxBook = 1
INVARIANTS IInv CachesAgree LabelsIdentify
