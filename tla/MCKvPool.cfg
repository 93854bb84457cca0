SPECIFICATION Spec
CONSTANTS
  s1 = s1
  s2 = s2
  a = a
  b = b
  Garbage = Garbage
  Seqs = {s1, s2}
  Token = {a, b}
  Sampled = {b}
  BlockSize = 2
  Cap = 3
  MaxSeq = 4
  Prompts <- TwoPrompts
  Chunks = {0, 2}
  Extras = {2}
  MaxBatch = 2
  MayFail = TRUE
SYMMETRY Symmetry
INVARIANTS
  TypeOK
  RefsExact
  Covered
  KvMatchesDense
  InternedExact
  WritesExclusive
  PreparedHolds
PROPERTIES
  PagedIsDense
