SPECIFICATION FairSpec
CONSTANTS
  a = a
  b = b
  None = None
  Garbage = Garbage
  NumSeqs = 3
  Requests <- TightTexts
  MaxSlots = 2
  Chunk = 0
  DecodeFirst = FALSE
  Eos = None
  Greedy <- ParityGreedy
  MayCancel = TRUE
  Token = {a, b}
  BlockSize = 2
  Cap = 2
  MaxSeq = 4
INVARIANTS
  FailsOnlyFull
PROPERTIES
  AllFinish
CHECK_DEADLOCK FALSE
