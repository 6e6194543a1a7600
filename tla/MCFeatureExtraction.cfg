SPECIFICATION MCSpec
CONSTANTS
  BatchSize = 2
  NClasses = 3
  Score <- MCScore
  MaxCount = 5
  Unwritten = unwritten
  N = 5
  MaxForwards = 8
  Callers = {a, b}
  Zero = zero
  Outside = outside
  FirstBatch = 2
  MaxAdded = 4
  MaxShown = 4
  ImgNum = 2
  MaxMargin = 2
  Floor <- MCFloor
  Products <- MCProducts
  Descriptors = 12
  Started = 3
  Null = null
SYMMETRY Symmetry
INVARIANTS RowsExact MemoryCalls ChunksInOrder AnswersByTable
PROPERTIES GapsAreRemainders AddedAreShown
CHECK_DEADLOCK FALSE
