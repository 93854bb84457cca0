SPECIFICATION Spec
CONSTANTS
  c1 = c1
  c2 = c2
  Part = Part
  None = None
  Conns = {c1}
  Scripts <- FloodScripts
  MaxTokens = 2
  MaxRead = 2
  ReadChunk = 2
  MaxPending = 3
  MaxAccept = 1
  MayFail = FALSE
INVARIANTS
  ErrorsFramed
CHECK_DEADLOCK FALSE
