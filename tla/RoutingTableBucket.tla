------------------------- MODULE RoutingTableBucket -------------------------
(***************************************************************************)
(* One k-bucket of the Kademlia routing table and the replacement cache    *)
(* behind it (RoutingTableBucket.js, RoutingTableBucketCache.js), as pure  *)
(* operators on a record:                                                  *)
(*                                                                         *)
(*   nodes       the list of live contacts, the last one saved first       *)
(*   cacheIds    the cache's list of ids (nodeIds), last one pushed first  *)
(*   cacheNodes  the cache's object map (nodes): id to Node, or NoNode     *)
(*                                                                         *)
(* A Node carries its id and an address; the address tells an old object   *)
(* of a contact from the one built from its latest message.                *)
(***************************************************************************)
EXTENDS Integers, Sequences, SequencesExt

CONSTANTS
  NodeId,          \* the ids of the nodes, this one included
  Address,         \* the addresses a contact may be heard from
  NoNode,          \* what looking up an absent key returns (undefined)
  NodesPerBucket   \* k: the room for live contacts, and for cached ones

ASSUME BucketAssumption ==
  /\ NodesPerBucket \in Nat \ {0}
  /\ NoNode \notin Address \cup [id : NodeId, address : Address]

Node == [id : NodeId, address : Address]

Bucket == [nodes      : Seq(Node),
           cacheIds   : Seq(NodeId),
           cacheNodes : [NodeId -> Node \cup {NoNode}]]

EmptyBucket == [nodes      |-> <<>>,
                cacheIds   |-> <<>>,
                cacheNodes |-> [id \in NodeId |-> NoNode]]

-----------------------------------------------------------------------------
(* The list of live contacts.                                              *)

Holds(nodes, id) == \E x \in DOMAIN nodes : nodes[x].id = id

\* The first place of the id in the list: where the loops of save, fetch and
\* removeNode stop.
PlaceOf(nodes, id) ==
  CHOOSE x \in DOMAIN nodes :
    nodes[x].id = id /\ \A y \in 1 .. x - 1 : nodes[y].id # id

Without(nodes, id) ==
  IF Holds(nodes, id) THEN RemoveAt(nodes, PlaceOf(nodes, id)) ELSE nodes

-----------------------------------------------------------------------------
(* The replacement cache.                                                  *)

CacheHolds(b, id) == \E x \in DOMAIN b.cacheIds : b.cacheIds[x] = id

CachePlaceOf(b, id) ==
  CHOOSE x \in DOMAIN b.cacheIds :
    b.cacheIds[x] = id /\ \A y \in 1 .. x - 1 : b.cacheIds[y] # id

\* Mutant: a full cache forgets its newest id and not its oldest (shift for
\* pop).
CachePlaceLostShift(b, node) ==
  IF CacheHolds(b, node.id) THEN CachePlaceOf(b, node.id) ELSE 1

\* The place that leaves the list of ids when node is pushed: its own when it
\* is known, the last one (pop) when the cache is full.
CachePlaceLost(b, node) ==
  IF CacheHolds(b, node.id) THEN CachePlaceOf(b, node.id) ELSE Len(b.cacheIds)

\* Mutant: the object of the id that leaves stays in the map.
CachePushNoDelete(b, node) ==
  IF CacheHolds(b, node.id) \/ Len(b.cacheIds) >= NodesPerBucket
  THEN [b EXCEPT
         !.cacheIds   = <<node.id>> \o RemoveAt(@, CachePlaceLost(b, node)),
         !.cacheNodes = [@ EXCEPT ![node.id] = node]]
  ELSE [b EXCEPT !.cacheIds   = <<node.id>> \o @,
                 !.cacheNodes = [@ EXCEPT ![node.id] = node]]

\* Mutant: a contact that is in the cache keeps its place and its object.
CachePushIfNew(b, node) ==
  IF CacheHolds(b, node.id) THEN b ELSE CachePushNoDelete(b, node)

CachePush(b, node) ==
  IF CacheHolds(b, node.id) \/ Len(b.cacheIds) >= NodesPerBucket
  THEN LET x == CachePlaceLost(b, node)
       IN [b EXCEPT
            !.cacheIds   = <<node.id>> \o RemoveAt(@, x),
            !.cacheNodes = [@ EXCEPT ![b.cacheIds[x]] = NoNode,
                                     ![node.id]       = node]]
  ELSE [b EXCEPT !.cacheIds   = <<node.id>> \o @,
                 !.cacheNodes = [@ EXCEPT ![node.id] = node]]

\* The object pull returns, NoNode from an empty cache.
CachePulled(b) ==
  IF b.cacheIds = <<>> THEN NoNode ELSE b.cacheNodes[b.cacheIds[1]]

CachePull(b) ==
  IF b.cacheIds = <<>> THEN b
  ELSE [b EXCEPT !.cacheIds   = Tail(@),
                 !.cacheNodes = [@ EXCEPT ![b.cacheIds[1]] = NoNode]]

-----------------------------------------------------------------------------
(* The bucket.                                                             *)

\* What save returns: whether there is room once an old object of the same
\* contact is out of the list.
Saved(b, node) == Len(Without(b.nodes, node.id)) < NodesPerBucket

\* Mutant: the old object of the contact stays in the list.
SaveNoSplice(b, node) ==
  IF Saved(b, node) THEN [b EXCEPT !.nodes = <<node>> \o @]
  ELSE CachePush(b, node)

Save(b, node) ==
  LET spliced == [b EXCEPT !.nodes = Without(@, node.id)]
  IN IF Saved(b, node) THEN [spliced EXCEPT !.nodes = <<node>> \o @]
     ELSE CachePush(spliced, node)

Fetch(b, id) ==
  IF Holds(b.nodes, id) THEN b.nodes[PlaceOf(b.nodes, id)]
  ELSE b.cacheNodes[id]

\* One turn of fillFromCache's loop: pull, and save what came out.
FillOnce(b) ==
  IF CachePulled(b) = NoNode THEN CachePull(b)
  ELSE Save(CachePull(b), CachePulled(b))

\* The loop, a turn as long as there is room. No more turns are needed: each
\* fills a place, or finds the cache empty.
FillLoop(b) ==
  LET after[turns \in 0 .. NodesPerBucket] ==
        IF turns = 0 THEN b
        ELSE IF Len(after[turns - 1].nodes) >= NodesPerBucket THEN after[turns - 1]
        ELSE FillOnce(after[turns - 1])
  IN after[NodesPerBucket]

\* Mutant: nothing is promoted.
FillNothing(b) == b

\* Mutant: the loop does not stop at an empty cache.
FillUnchecked(b) ==
  IF b.cacheIds = <<>> /\ Len(b.nodes) < NodesPerBucket
  THEN [b EXCEPT !.nodes = <<NoNode>> \o @] ELSE b

\* What the loop comes to (FillIsLoop): as many cached contacts as there
\* are, or as there is room for, move to the front of the list one by one.
FillFromCache(b) ==
  LET room   == NodesPerBucket - Len(b.nodes)
      cached == Len(b.cacheIds)
      k      == IF room < cached THEN room ELSE cached
      pulled == [x \in 1 .. k |-> b.cacheNodes[b.cacheIds[k + 1 - x]]]
      left   == SubSeq(b.cacheIds, k + 1, cached)
  IN [nodes      |-> pulled \o b.nodes,
      cacheIds   |-> left,
      cacheNodes |-> [id \in NodeId |->
                        IF \E x \in 1 .. k : b.cacheIds[x] = id
                        THEN NoNode ELSE b.cacheNodes[id]]]

RemoveContact(b, id) == FillFromCache([b EXCEPT !.nodes = Without(@, id)])

\* The live contacts saved longest ago, oldest first, at most amount of them.
GetLeastRecentNodes(b, amount) ==
  LET oldestFirst == Reverse(b.nodes)
  IN SubSeq(oldestFirst, 1,
            IF amount < Len(b.nodes) THEN amount ELSE Len(b.nodes))

-----------------------------------------------------------------------------
(* What holds of every bucket between two calls.                           *)

\* No contact is twice in the list of live contacts, nor in the cache's.
DistinctIds(b) ==
  /\ \A x, y \in DOMAIN b.nodes : b.nodes[x].id = b.nodes[y].id => x = y
  /\ \A x, y \in DOMAIN b.cacheIds : b.cacheIds[x] = b.cacheIds[y] => x = y

WithinRoom(b) ==
  Len(b.nodes) <= NodesPerBucket /\ Len(b.cacheIds) <= NodesPerBucket

\* The cache's map has an object for exactly the ids of its list, under the
\* object's own id.
CacheInSync(b) ==
  \A id \in NodeId :
    IF CacheHolds(b, id)
    THEN b.cacheNodes[id] # NoNode /\ b.cacheNodes[id].id = id
    ELSE b.cacheNodes[id] = NoNode

LiveXorCached(b) ==
  \A x \in DOMAIN b.nodes : ~CacheHolds(b, b.nodes[x].id)

CacheOnlyBehindFullList(b) ==
  b.cacheIds # <<>> => Len(b.nodes) = NodesPerBucket

BucketOK(b) ==
  /\ DistinctIds(b)
  /\ WithinRoom(b)
  /\ CacheInSync(b)
  /\ LiveXorCached(b)
  /\ CacheOnlyBehindFullList(b)

=============================================================================
