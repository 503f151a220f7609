SPECIFICATION Spec
CONSTANTS
  SIZE = 6
  MAX_NUM_LINKS = 2
  HashLength = 2
  MaxLength = 40
  MaxPosted = 13
  MaxFaults = 2
  None = None
INVARIANTS
  TypeOK
  NothingLost
  ReadInOrder
  ToldAfterUploads
  FetchedIsPosted
PROPERTIES
  EveryRequestAnswered
CHECK_DEADLOCK FALSE
