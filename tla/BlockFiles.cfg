SPECIFICATION FairSpec
CONSTANTS
  t1 = t1
  t2 = t2
  t3 = t3
  k1 = k1
  k2 = k2
  Blank = Blank
  None = None
  Transfer = {t1, t2}
  Key = {k1, k2}
  Raw = {k2}
  Chunks = 2
  MaxCrashes = 1
  MaxErrors = 2
INVARIANTS TypeOK SoundUnlessSpoilt DescriptorsClosed
PROPERTIES ImplementsBlockStore EveryTransferEnds
CHECK_DEADLOCK FALSE
