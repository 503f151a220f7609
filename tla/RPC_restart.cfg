CONSTANTS
  NodeId <- Peers
  Address = {a1, a2, a3, a4}
  a1 = a1
  a2 = a2
  a3 = a3
  a4 = a4
  Home <- Homes
  NoNode = NoNode
  NodesPerBucket = 2
  IdBits = 2
  NumBuckets = 2
  Concurrency = 1
  Seed <- SeedId
  Hidden <- Nobody
  Subject <- JustAlice
  Timely = FALSE
  MaxAsks <- SeedFinds
  MaxRequests = 4
  MaxLost = 1
  MaxRestarts = 2
SPECIFICATION Spec
PROPERTIES
  EveryRequestSettles
INVARIANTS
  AnsweredByAsked
CHECK_DEADLOCK FALSE
