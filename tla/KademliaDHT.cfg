CONSTANTS
  NodeId <- Ids
  Address = {a1}
  a1 = a1
  NoNode = NoNode
  NodesPerBucket = 2
  IdBits = 2
  NumBuckets = 2
  Root <- Owner
  Home <- Homes
  SeedId <- Seed
  Key <- File
  Knows <- Chain
  Mute <- Nobody
  Callers <- LastOne
  HasIt <- LastOne
  Raw = FALSE
  Concurrency = 2
  Uploads = 1
  Downloads = 1
  MaxRefreshes = 1
  MaxFaults = 1
SPECIFICATION Spec
INVARIANTS
  TypeOK
  NobodyMissed
  SuccessIsStored
  NotFoundIsTrue
CHECK_DEADLOCK FALSE
PROPERTIES
  EveryCallEnds
