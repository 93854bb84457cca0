SPECIFICATION FairSpec
CONSTANTS
  c1 = c1
  c2 = c2
  Part = Part
  None = None
  Conns = {c1, c2}
  Scripts <- MixedScripts
  MaxTokens = 2
  MaxRead = 2
  ReadChunk = 2
  MaxPending = 3
  MaxAccept = 1
  MayFail = TRUE
INVARIANTS
  TypeOK
  SequencesOwned
  AnswersInOrder
  IdleOwesNothing
  RetainedBounded
PROPERTIES
  EveryAnswered
CHECK_DEADLOCK FALSE
