CONSTANTS
  NodeId <- Peers
  Address = {a1, a2, a3, a4}
  a1 = a1
  a2 = a2
  a3 = a3
  a4 = a4
  Home <- Homes
  NoNode = NoNode
  NodesPerBucket = 1
  IdBits = 2
  NumBuckets = 2
  Concurrency = 1
  Seed <- SeedId
  Hidden <- Behind
  Subject <- JustAlice
  Timely = TRUE
  MaxAsks <- BootAndFind
  MaxRequests = 9
  MaxLost = 0
  MaxRestarts = 1
SPECIFICATION Spec
INVARIANTS
  TypeOK
  SettledOnce
  NothingFails
  ContactsReachable
PROPERTIES
  RemovedHadLeft
CHECK_DEADLOCK FALSE
