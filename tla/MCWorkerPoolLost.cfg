SPECIFICATION FairSpec
CONSTANTS
  N = 2
  RowCounts = {2, 3, 7}
  MaxRuns = 1
  Panics = {"worker"}
  Stop = Stop
  None = None
PROPERTIES
  RunReturns
CHECK_DEADLOCK FALSE
