CONSTANTS
  t1 = t1
  t2 = t2
  Transfer = {t1}
  Chunk = {1, 2, 10}
  SortOrder <- AsStrings
  None = None
  ChunkSize = 2
  ReadSize = 5
  MaxValue = 16
SPECIFICATION Spec
INVARIANTS
  LengthTold
CHECK_DEADLOCK FALSE
