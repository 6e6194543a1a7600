SPECIFICATION MCSpec
CONSTANTS
  Procs = {p1, p2}
  Rows = 2
  Null = Null
  Hole = Hole
  MaxTrainings = 4
  nlist = 2
  nprobe = 3
  k = 4
  Limits = {0, 2}
  Neutral = 3
  MaxCodes = 5
  Centroids <- MCCentroids
  Contents <- MCContents
SYMMETRY ProcSymmetry
INVARIANTS IInv OneTraining LabelsAreRows ListsScanned ResultsAreNearest
PROPERTIES ClosedFileIsFinal
