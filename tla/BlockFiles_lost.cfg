SPECIFICATION Spec
CONSTANTS
  t1 = t1
  t2 = t2
  t3 = t3
  k1 = k1
  k2 = k2
  Blank = Blank
  None = None
  Transfer = {t1, t2}
  Key = {k1}
  Raw = {}
  Chunks = 2
  MaxCrashes = 0
  MaxErrors = 0
INVARIANTS AnsweredTrueStays
CHECK_DEADLOCK FALSE
