SPECIFICATION Spec
CONSTANTS
  MaxSize = 5
  Names = {"x", "y"}
  Wild = wild
  Blank = blank
  MaxCount = 2
  MaxNames = 2
  Values = 2
  MaxLines = 4
  Ids = {0, 1, 2}
  K = 3
  MaxRows = 3
  Null = null
INVARIANT FoundIsWanted
CHECK_DEADLOCK FALSE
