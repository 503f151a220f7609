---------------------------- MODULE RoutingTable ----------------------------
(***************************************************************************)
(* The life of one peer's routing table. The code calls addCandidate for   *)
(* every message a contact sends (RPC.js receiveMessage) and removeNode    *)
(* whenever a contact is found dead or lying (a failed ping or lookup, a   *)
(* bad signature). Contacts speak in any order and fail at any time, so    *)
(* every order of the two calls is a behaviour.                            *)
(***************************************************************************)
EXTENDS RoutingTableOps

CONSTANT Root     \* the id of the peer that owns the table

ASSUME RootAssumption == Root \in NodeId

VARIABLES
  buckets,   \* the table
  heard      \* history: the last object heard of each contact, latest first

vars == <<buckets, heard>>

Init == buckets = EmptyTable /\ heard = <<>>

\* addCandidate
AddCandidate(node) ==
  /\ buckets' = TableWith(buckets, Root, node)
  /\ heard' = IF node.id = Root THEN heard
              ELSE <<node>> \o Without(heard, node.id)

\* removeNode
RemoveNode(id) ==
  /\ buckets' = TableWithout(buckets, Root, id)
  /\ UNCHANGED heard

Next ==
  \/ \E node \in Node : AddCandidate(node)
  \/ \E id \in NodeId : RemoveNode(id)

Spec == Init /\ [][Next]_vars

-----------------------------------------------------------------------------
(* Invariants.                                                             *)

TypeOK == buckets \in Table /\ heard \in Seq(Node)

\* Every contact of a bucket, live or cached, belongs to that bucket and is
\* not the owner of the table.
Filed(i) ==
  /\ \A x \in DOMAIN buckets[i].nodes :
       /\ buckets[i].nodes[x].id # Root
       /\ BucketOf(Root, buckets[i].nodes[x].id) = i
  /\ \A x \in DOMAIN buckets[i].cacheIds :
       /\ buckets[i].cacheIds[x] # Root
       /\ BucketOf(Root, buckets[i].cacheIds[x]) = i

\* After any calls in any order the lists and maps of every bucket agree:
\* no contact twice, none both live and cached, no cached one while there is
\* room in the list, the cache's map in step with its list, and everyone in
\* the bucket of their distance (save, removeNode, fillFromCache, push and
\* pull each keep only a part of this).
TableInv == \A i \in BucketIds : BucketOK(buckets[i]) /\ Filed(i)

\* What the table knows of a contact, live or cached, is what was heard of it
\* last: save and push replace the older object wherever it is (the address
\* replies go to is in it).
FreshestObject ==
  \A id \in NodeId :
    LET node == GetNode(buckets, Root, id)
    IN node # NoNode => Holds(heard, id) /\ node = heard[PlaceOf(heard, id)]

\* The cache lists contacts from the one heard last to the one heard longest
\* ago, whatever was promoted or replaced in between: the next to be promoted
\* (pull) is the freshest and the next to be forgotten (pop) the stalest.
CacheByRecency ==
  \A i \in BucketIds : \A x, y \in DOMAIN buckets[i].cacheIds :
    x < y => PlaceOf(heard, buckets[i].cacheIds[x])
               < PlaceOf(heard, buckets[i].cacheIds[y])

LiveNodes == UNION {ToSet(buckets[i].nodes) : i \in BucketIds}

\* getClosestNodes, for any subject and amount, gives live contacts, no one
\* twice, as many as asked for unless the table has fewer: the zigzag walk
\* neither skips a bucket nor returns to one.
ClosestNodesEnough ==
  \A subject \in NodeId, amount \in 1 .. NodesPerBucket + 1 :
    LET nodes == GetClosestNodes(buckets, Root, subject, amount)
    IN /\ ToSet(nodes) \subseteq LiveNodes
       /\ Cardinality(ToSet(nodes)) = Len(nodes)
       /\ Len(nodes) >= amount \/ ToSet(nodes) = LiveNodes

\* No one is left out of getClosestNodes whose bucket is nearer to the
\* subject's than the bucket of someone who is in it.
NearestBucketsFirst ==
  \A subject \in NodeId :
    LET nodes == ToSet(GetClosestNodes(buckets, Root, subject, NodesPerBucket))
        centre == BucketOf(Root, subject)
        Away(node) == LET d == BucketOf(Root, node.id) - centre
                      IN IF d < 0 THEN -d ELSE d
    IN \A in \in nodes, out \in LiveNodes \ nodes : Away(in) <= Away(out)

-----------------------------------------------------------------------------
(* Action properties and refinement.                                       *)

KnownIds == {id \in NodeId : GetNode(buckets, Root, id) # NoNode}
LiveIds  == {node.id : node \in LiveNodes}

\* A contact is forgotten only when it is removed from the live ones, or when
\* it is the cached contact heard longest ago of a bucket where another one
\* is pushed: a removeNode never costs a second contact, nor a live contact
\* its place when someone new is heard.
OnlyTheStalestForgotten ==
  [][\A id \in KnownIds \ KnownIds' :
       \/ id \in LiveIds /\ RemoveNode(id)
       \/ /\ id \notin LiveIds
          /\ \E node \in Node : /\ AddCandidate(node)
                                /\ node.id # Root
                                /\ BucketOf(Root, node.id) = BucketOf(Root, id)
          /\ \A other \in KnownIds \ (LiveIds \cup {id}) :
               BucketOf(Root, other) = BucketOf(Root, id) =>
                 PlaceOf(heard, other) < PlaceOf(heard, id)]_vars

\* A removed contact is not live afterwards, and whoever takes its place is
\* the one heard last of those waiting in its bucket.
FreshestPromoted ==
  [][\A id \in LiveIds : RemoveNode(id) =>
       LET waiting == {other \in KnownIds \ LiveIds :
                         BucketOf(Root, other) = BucketOf(Root, id)}
       IN IF waiting = {} THEN LiveIds' = LiveIds \ {id}
          ELSE \E next \in waiting :
                 /\ LiveIds' = (LiveIds \ {id}) \cup {next}
                 /\ \A other \in waiting \ {next} :
                      PlaceOf(heard, next) < PlaceOf(heard, other)]_vars

\* What the table knows of each contact: the address in its object.
AddressOf ==
  [id \in NodeId \ {Root} |->
     LET node == GetNode(buckets, Root, id)
     IN IF node = NoNode THEN NoNode ELSE node.address]

Peers == INSTANCE PeerSets WITH
  Contact <- NodeId \ {Root},
  Value   <- Address,
  None    <- NoNode,
  Group   <- BucketIds,
  GroupOf <- [id \in NodeId |-> BucketOf(Root, id)],
  Room    <- NodesPerBucket,
  known   <- AddressOf,
  live    <- LiveIds

\* The table keeps what PeerSets promises of contacts, live and spare.
ImplementsPeerSets == Peers!Spec

=============================================================================
