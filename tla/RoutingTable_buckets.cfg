CONSTANTS
  NodeId <- ManyBucketIds
  Root <- Owner
  IdBits = 3
  NumBuckets = 3
  NodesPerBucket = 1
  Address = {a1, a2}
  NoNode = NoNode
SPECIFICATION Spec
INVARIANTS
  FreshestObject
  ClosestNodesEnough
  NearestBucketsFirst
