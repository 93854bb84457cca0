SPECIFICATION Spec
CONSTANTS
  a = a
  b = b
  None = None
  Garbage = Garbage
  NumSeqs = 4
  Requests <- TwoTexts
  MaxSlots = 2
  Chunk = 0
  DecodeFirst = FALSE
  Eos = None
  Greedy <- ParityGreedy
  MayCancel = TRUE
  Token = {a, b}
  BlockSize = 2
  Cap = 3
  MaxSeq = 4
INVARIANTS
  TypeOK
  OutputsGreedy
  KvFollowsText
  ArrivalOrder
  OnePlace
  BatchNeverCaps
PROPERTIES
  PoolUsedLegally
  StallFree
CHECK_DEADLOCK FALSE
