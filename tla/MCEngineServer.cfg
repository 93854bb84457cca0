SPECIFICATION Spec
CONSTANTS
  a = a
  b = b
  None = None
  Garbage = Garbage
  NumSeqs = 4
  Requests <- ServerTexts
  MaxSlots = 2
  Chunk = 1
  DecodeFirst = TRUE
  Eos = b
  Greedy <- ParityGreedy
  MayCancel = FALSE
  Token = {a, b}
  BlockSize = 2
  Cap = 6
  MaxSeq = 4
INVARIANTS
  NeverCaps
CHECK_DEADLOCK FALSE
