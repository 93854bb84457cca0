SPECIFICATION FairSpec
CONSTANTS
  a = a
  b = b
  None = None
  Garbage = Garbage
  NumSeqs = 3
  Requests <- ThreeTokens
  MaxSlots = 3
  Chunk = 1
  DecodeFirst = FALSE
  Eos = None
  Greedy <- ParityGreedy
  MayCancel = FALSE
  Token = {a, b}
  BlockSize = 3
  Cap = 2
  MaxSeq = 3
PROPERTIES
  AllFinish
CHECK_DEADLOCK FALSE
