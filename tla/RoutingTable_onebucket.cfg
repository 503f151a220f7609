CONSTANTS
  NodeId <- OneBucketIds
  Root <- Owner
  IdBits = 5
  NumBuckets = 5
  NodesPerBucket = 2
  Address = {a1}
  NoNode = NoNode
SPECIFICATION Spec
INVARIANTS
  TypeOK
  TableInv
  CacheByRecency
PROPERTIES
  OnlyTheStalestForgotten
  FreshestPromoted
  ImplementsPeerSets
