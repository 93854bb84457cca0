SPECIFICATION FairSpec
CONSTANTS
  N = 2
  RowCounts = {2, 3, 7}
  MaxRuns = 3
  Panics = {"caller", "worker"}
  Stop = Stop
  None = None
INVARIANTS
  TypeOK
  GemvExact
  StagingFree
PROPERTIES
  RunsEnd
  DropJoins
CHECK_DEADLOCK FALSE
