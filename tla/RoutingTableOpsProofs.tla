------------------------- MODULE RoutingTableOpsProofs -------------------------
(***************************************************************************)
(* What the operators of RoutingTableBucket and RoutingTableOps return,    *)
(* for any ids, any number of buckets and any room in them: the calls of a *)
(* bucket leave it well formed (BucketOK) and bring no object that was not *)
(* there, those of a table leave everyone in the bucket of their distance  *)
(* (TableOK), getClosestNodes visits every bucket once, nearest first, and *)
(* fillFromCache does in its turns what the operator says in one go.       *)
(***************************************************************************)
EXTENDS RoutingTableOps, TLAPS, SequenceTheorems, FiniteSetTheorems,
        WellFoundedInduction

\* The ids a bucket knows.
IdsIn(b) == {b.nodes[x].id : x \in DOMAIN b.nodes}
              \cup {b.cacheIds[x] : x \in DOMAIN b.cacheIds}

\* The objects that a bucket has of its contacts.
ObjectsOf(b) ==
  {b.nodes[x] : x \in DOMAIN b.nodes}
    \cup ({b.cacheNodes[id] : id \in NodeId} \ {NoNode})

Distinct(nodes) ==
  \A x, y \in DOMAIN nodes : nodes[x].id = nodes[y].id => x = y

-----------------------------------------------------------------------------
(* Sequences.                                                              *)

\* RemoveAt (the code's splice) drops one element and keeps the others in
\* order.
LEMMA RemoveAtFacts ==
  ASSUME NEW S, NEW s \in Seq(S), NEW i \in 1 .. Len(s)
  PROVE  /\ RemoveAt(s, i) \in Seq(S)
         /\ Len(RemoveAt(s, i)) = Len(s) - 1
         /\ \A x \in 1 .. Len(s) - 1 :
              RemoveAt(s, i)[x] = IF x < i THEN s[x] ELSE s[x + 1]
<1> DEFINE front == SubSeq(s, 1, i - 1)
           back  == SubSeq(s, i + 1, Len(s))
<1>1. Len(s) \in Nat /\ i \in Int /\ \A x \in 1 .. Len(s) : s[x] \in S
  BY LenProperties, ElementOfSeq
<1>2. /\ front \in Seq(S)
      /\ Len(front) = i - 1
      /\ \A x \in 1 .. i - 1 : front[x] = s[x]
  <2>1. \A x \in 1 .. i - 1 : s[x] \in S
    BY <1>1
  <2> QED BY <1>1, <2>1, SubSeqProperties
<1>3. /\ back \in Seq(S)
      /\ Len(back) = Len(s) - i
      /\ \A x \in 1 .. Len(s) - i : back[x] = s[x + i]
  <2>1. \A x \in i + 1 .. Len(s) : s[x] \in S
    BY <1>1
  <2>2. /\ back \in Seq(S)
        /\ Len(back) = IF i + 1 <= Len(s) THEN Len(s) - (i + 1) + 1 ELSE 0
        /\ \A x \in 1 .. Len(s) - (i + 1) + 1 : back[x] = s[(i + 1) + x - 1]
    BY <1>1, <2>1, SubSeqProperties
  <2> QED BY <1>1, <2>2
<1>4. RemoveAt(s, i) = front \o back
  BY DEF RemoveAt
<1>5. /\ front \o back \in Seq(S)
      /\ Len(front \o back) = Len(front) + Len(back)
      /\ \A x \in 1 .. Len(front) + Len(back) :
           (front \o back)[x] =
             IF x <= Len(front) THEN front[x] ELSE back[x - Len(front)]
  BY <1>2, <1>3, ConcatProperties
<1> HIDE DEF front, back
<1> QED BY <1>1, <1>2, <1>3, <1>4, <1>5

\* Putting an element in front of a sequence (the code's unshift).
LEMMA InFrontFacts ==
  ASSUME NEW S, NEW s \in Seq(S), NEW e \in S
  PROVE  /\ <<e>> \o s \in Seq(S)
         /\ Len(<<e>> \o s) = Len(s) + 1
         /\ (<<e>> \o s)[1] = e
         /\ \A x \in 2 .. Len(s) + 1 : (<<e>> \o s)[x] = s[x - 1]
<1>1. <<e>> \in Seq(S) /\ Len(<<e>>) = 1 /\ <<e>>[1] = e /\ Len(s) \in Nat
  BY LenProperties
<1>2. /\ <<e>> \o s \in Seq(S)
      /\ Len(<<e>> \o s) = Len(<<e>>) + Len(s)
      /\ \A i \in 1 .. Len(<<e>>) + Len(s) :
           (<<e>> \o s)[i] =
             IF i <= Len(<<e>>) THEN <<e>>[i] ELSE s[i - Len(<<e>>)]
  BY <1>1, ConcatProperties
<1> QED BY <1>1, <1>2

\* In a list without duplicates, Without drops the one object of an id.
LEMMA WithoutFacts ==
  ASSUME NEW nodes \in Seq(Node), NEW id,
         \A x, y \in DOMAIN nodes : nodes[x].id = nodes[y].id => x = y
  PROVE  /\ Without(nodes, id) \in Seq(Node)
         /\ Len(Without(nodes, id)) <= Len(nodes)
         /\ Holds(nodes, id) => Len(Without(nodes, id)) = Len(nodes) - 1
         /\ ~Holds(nodes, id) => Without(nodes, id) = nodes
         /\ \A x \in DOMAIN Without(nodes, id) :
              /\ Without(nodes, id)[x].id # id
              /\ \E y \in DOMAIN nodes : Without(nodes, id)[x] = nodes[y]
         /\ \A x, y \in DOMAIN Without(nodes, id) :
              Without(nodes, id)[x].id = Without(nodes, id)[y].id => x = y
<1>1. Len(nodes) \in Nat /\ DOMAIN nodes = 1 .. Len(nodes)
  BY LenProperties
<1>2. CASE Holds(nodes, id)
  <2> DEFINE p == PlaceOf(nodes, id)
             r == RemoveAt(nodes, p)
  <2>1. PICK x \in DOMAIN nodes : nodes[x].id = id
    BY <1>2 DEF Holds
  <2>2. \A y \in 1 .. x - 1 : nodes[y].id # id
    BY <1>1, <2>1
  <2>3. p \in 1 .. Len(nodes) /\ nodes[p].id = id
    BY <1>1, <2>1, <2>2 DEF PlaceOf
  <2>4. /\ r \in Seq(Node)
        /\ Len(r) = Len(nodes) - 1
        /\ \A y \in 1 .. Len(nodes) - 1 :
             r[y] = IF y < p THEN nodes[y] ELSE nodes[y + 1]
    BY <2>3, RemoveAtFacts
  <2>5. DOMAIN r = 1 .. Len(r)
    BY <2>4, LenProperties
  <2>6. Without(nodes, id) = r
    BY <1>2 DEF Without
  <2> HIDE DEF r, p
  <2>7. \A y \in 1 .. Len(nodes) - 1 :
          \E z \in 1 .. Len(nodes) :
            z # p /\ r[y] = nodes[z] /\ z = IF y < p THEN y ELSE y + 1
    BY <1>1, <2>3, <2>4
  <2>8. \A y \in 1 .. Len(r) :
          r[y].id # id /\ \E z \in 1 .. Len(nodes) : r[y] = nodes[z]
    <3> TAKE y \in 1 .. Len(r)
    <3>1. PICK z \in 1 .. Len(nodes) : z # p /\ r[y] = nodes[z]
      BY <2>4, <2>7
    <3>2. nodes[z].id # id
      BY <1>1, <2>3, <3>1
    <3> QED BY <3>1, <3>2
  <2>9. \A y, z \in 1 .. Len(r) : r[y].id = r[z].id => y = z
    <3> SUFFICES ASSUME NEW y \in 1 .. Len(r), NEW z \in 1 .. Len(r),
                        r[y].id = r[z].id
                 PROVE  y = z
      OBVIOUS
    <3>1. PICK v \in 1 .. Len(nodes) :
            r[y] = nodes[v] /\ v = IF y < p THEN y ELSE y + 1
      BY <2>4, <2>7
    <3>2. PICK w \in 1 .. Len(nodes) :
            r[z] = nodes[w] /\ w = IF z < p THEN z ELSE z + 1
      BY <2>4, <2>7
    <3>3. v = w
      BY <1>1, <3>1, <3>2
    <3> QED BY <1>1, <2>3, <3>1, <3>2, <3>3
  <2>10. \A y \in DOMAIN r :
           r[y].id # id /\ \E z \in DOMAIN nodes : r[y] = nodes[z]
    BY <1>1, <2>5, <2>8
  <2>11. \A y, z \in DOMAIN r : r[y].id = r[z].id => y = z
    BY <2>5, <2>9
  <2>12. r \in Seq(Node) /\ Len(r) = Len(nodes) - 1 /\ Len(r) <= Len(nodes)
    BY <1>1, <2>4
  <2> QED BY ONLY <1>2, <2>6, <2>10, <2>11, <2>12, Zenon
<1>3. CASE ~Holds(nodes, id)
  <2>1. Without(nodes, id) = nodes
    BY <1>3 DEF Without
  <2>2. \A x \in DOMAIN nodes : nodes[x].id # id
    BY <1>3 DEF Holds
  <2>3. Len(nodes) <= Len(nodes)
    BY <1>1
  <2> QED BY <1>3, <2>1, <2>2, <2>3, Zenon
<1> QED BY <1>2, <1>3

\* In a list without duplicates the place of an id is the one that has it.
LEMMA PlaceFacts ==
  ASSUME NEW nodes \in Seq(Node), NEW x \in DOMAIN nodes, Distinct(nodes)
  PROVE  PlaceOf(nodes, nodes[x].id) = x
<1>1. DOMAIN nodes = 1 .. Len(nodes) /\ Len(nodes) \in Nat
  BY LenProperties
<1>2. \A y \in 1 .. x - 1 : nodes[y].id # nodes[x].id
  BY <1>1 DEF Distinct
<1>3. /\ PlaceOf(nodes, nodes[x].id) \in DOMAIN nodes
      /\ nodes[PlaceOf(nodes, nodes[x].id)].id = nodes[x].id
  BY <1>1, <1>2 DEF PlaceOf
<1> QED BY <1>3 DEF Distinct

\* What Without leaves stays in its order: everyone after the one dropped, at
\* p, moves up one place.
LEMMA WithoutPlaces ==
  ASSUME NEW nodes \in Seq(Node), NEW id, Distinct(nodes)
  PROVE  \E p \in Nat \ {0} : \A x \in DOMAIN nodes :
           \/ nodes[x].id = id
           \/ /\ x < p /\ x \in DOMAIN Without(nodes, id)
              /\ Without(nodes, id)[x] = nodes[x]
           \/ /\ x > p /\ x - 1 \in DOMAIN Without(nodes, id)
              /\ Without(nodes, id)[x - 1] = nodes[x]
<1>1. Len(nodes) \in Nat /\ DOMAIN nodes = 1 .. Len(nodes)
  BY LenProperties
<1>2. CASE Holds(nodes, id)
  <2> DEFINE p == PlaceOf(nodes, id)
             r == RemoveAt(nodes, p)
  <2>1. p \in 1 .. Len(nodes) /\ nodes[p].id = id
    <3>1. PICK x \in DOMAIN nodes : nodes[x].id = id
      BY <1>2 DEF Holds
    <3>2. p = x
      BY <3>1, PlaceFacts
    <3> QED BY <1>1, <3>1, <3>2
  <2>2. /\ r \in Seq(Node)
        /\ Len(r) = Len(nodes) - 1
        /\ \A y \in 1 .. Len(nodes) - 1 :
             r[y] = IF y < p THEN nodes[y] ELSE nodes[y + 1]
    BY <2>1, RemoveAtFacts
  <2>3. DOMAIN r = 1 .. Len(nodes) - 1
    BY <2>2, LenProperties
  <2>4. Without(nodes, id) = r
    BY <1>2 DEF Without
  <2> HIDE DEF r, p
  <2>5. ASSUME NEW x \in DOMAIN nodes, nodes[x].id # id
        PROVE  \/ x < p /\ x \in DOMAIN r /\ r[x] = nodes[x]
               \/ x > p /\ x - 1 \in DOMAIN r /\ r[x - 1] = nodes[x]
    <3>1. CASE x < p
      BY <1>1, <2>1, <2>2, <2>3, <3>1
    <3>2. CASE x > p
      <4>1. x - 1 \in 1 .. Len(nodes) - 1 /\ ~(x - 1 < p) /\ x - 1 + 1 = x
        BY <1>1, <2>1, <3>2
      <4> QED BY <2>2, <2>3, <3>2, <4>1
    <3> QED BY <1>1, <2>1, <2>5, <3>1, <3>2
  <2>6. p \in Nat \ {0}
    BY <1>1, <2>1
  <2> QED BY <2>4, <2>5, <2>6
<1>3. CASE ~Holds(nodes, id)
  <2>1. Without(nodes, id) = nodes
    BY <1>3 DEF Without
  <2>2. \A x \in DOMAIN nodes : x < Len(nodes) + 1
    BY <1>1
  <2>3. Len(nodes) + 1 \in Nat \ {0}
    BY <1>1
  <2> QED BY <2>1, <2>2, <2>3
<1> QED BY <1>2, <1>3

\* A sequence without duplicates has as many elements as places.
LEMMA CountDistinct ==
  ASSUME NEW S, NEW s \in Seq(S), \A x, y \in DOMAIN s : s[x] = s[y] => x = y
  PROVE  /\ IsFiniteSet({s[x] : x \in DOMAIN s})
         /\ Cardinality({s[x] : x \in DOMAIN s}) = Len(s)
<1> DEFINE T == {s[x] : x \in DOMAIN s}
<1>1. Len(s) \in Nat /\ DOMAIN s = 1 .. Len(s) /\ s = [x \in 1 .. Len(s) |-> s[x]]
  BY LenProperties, SeqDef
<1>2. IsFiniteSet(1 .. Len(s)) /\ Cardinality(1 .. Len(s)) = Len(s)
  <2>1. 1 \in Int /\ Len(s) \in Int
    BY <1>1
  <2>2. /\ IsFiniteSet(1 .. Len(s))
        /\ Cardinality(1 .. Len(s)) = IF 1 > Len(s) THEN 0 ELSE Len(s) - 1 + 1
    BY <2>1, FS_Interval
  <2> QED BY <1>1, <2>2
<1>3. s \in Bijection(1 .. Len(s), T)
  <2>1. s \in [1 .. Len(s) -> T]
    BY <1>1
  <2>2. \A x, y \in 1 .. Len(s) : s[x] = s[y] => x = y
    BY <1>1
  <2>3. \A t \in T : \E x \in 1 .. Len(s) : s[x] = t
    BY <1>1
  <2> HIDE DEF T
  <2> QED BY <2>1, <2>2, <2>3 DEF Bijection, Injection, Surjection, IsInjective
<1>4. ExistsBijection(1 .. Len(s), T)
  BY <1>3 DEF ExistsBijection
<1>5. IsFiniteSet(T) /\ Cardinality(T) = Cardinality(1 .. Len(s))
  BY <1>2, <1>4, FS_Bijection
<1> QED BY <1>2, <1>5

-----------------------------------------------------------------------------
(* What one call makes of a bucket.                                        *)

\* The fields of a bucket that is typed and well formed, spelled out.
LEMMA BucketFacts ==
  ASSUME NEW b \in Bucket, BucketOK(b)
  PROVE  /\ b = [nodes |-> b.nodes, cacheIds |-> b.cacheIds,
                 cacheNodes |-> b.cacheNodes]
         /\ b.nodes \in Seq(Node) /\ b.cacheIds \in Seq(NodeId)
         /\ b.cacheNodes \in [NodeId -> Node \cup {NoNode}]
         /\ Len(b.nodes) \in Nat /\ DOMAIN b.nodes = 1 .. Len(b.nodes)
         /\ Len(b.cacheIds) \in Nat
         /\ DOMAIN b.cacheIds = 1 .. Len(b.cacheIds)
         /\ \A x \in 1 .. Len(b.nodes) : b.nodes[x] \in Node
         /\ \A x \in 1 .. Len(b.cacheIds) : b.cacheIds[x] \in NodeId
         /\ Len(b.nodes) <= NodesPerBucket
         /\ Len(b.cacheIds) <= NodesPerBucket
         /\ NodesPerBucket \in Nat \ {0}
         /\ b.cacheIds = <<>> <=> Len(b.cacheIds) = 0
<1>1. /\ b = [nodes |-> b.nodes, cacheIds |-> b.cacheIds,
              cacheNodes |-> b.cacheNodes]
      /\ b.nodes \in Seq(Node) /\ b.cacheIds \in Seq(NodeId)
      /\ b.cacheNodes \in [NodeId -> Node \cup {NoNode}]
  BY DEF Bucket
<1>2. /\ Len(b.nodes) \in Nat /\ DOMAIN b.nodes = 1 .. Len(b.nodes)
      /\ \A x \in 1 .. Len(b.nodes) : b.nodes[x] \in Node
  BY <1>1, LenProperties, ElementOfSeq
<1>3. /\ Len(b.cacheIds) \in Nat
      /\ DOMAIN b.cacheIds = 1 .. Len(b.cacheIds)
      /\ \A x \in 1 .. Len(b.cacheIds) : b.cacheIds[x] \in NodeId
      /\ b.cacheIds = <<>> <=> Len(b.cacheIds) = 0
  BY <1>1, LenProperties, ElementOfSeq, EmptySeq
<1>4. WithinRoom(b) /\ NodesPerBucket \in Nat \ {0}
  BY BucketAssumption DEF BucketOK
<1> QED BY <1>1, <1>2, <1>3, <1>4 DEF WithinRoom

\* An id is in a bucket when the list or the cache holds it.
LEMMA IdsInFacts ==
  ASSUME NEW b, NEW id
  PROVE  id \in IdsIn(b) <=> Holds(b.nodes, id) \/ CacheHolds(b, id)
BY Zenon DEF IdsIn, Holds, CacheHolds

\* push, on a bucket whose list is full and does not hold the contact.
LEMMA CachePushFacts ==
  ASSUME NEW b \in Bucket, BucketOK(b), NEW node \in Node,
         Len(b.nodes) = NodesPerBucket, ~Holds(b.nodes, node.id)
  PROVE  /\ CachePush(b, node) \in Bucket
         /\ BucketOK(CachePush(b, node))
         /\ IdsIn(CachePush(b, node)) \subseteq IdsIn(b) \cup {node.id}
<1> DEFINE c == CachePush(b, node)
<1>b. b = [nodes |-> b.nodes, cacheIds |-> b.cacheIds,
           cacheNodes |-> b.cacheNodes]
  BY BucketFacts
<1>f. /\ b.nodes \in Seq(Node) /\ b.cacheIds \in Seq(NodeId)
      /\ b.cacheNodes \in [NodeId -> Node \cup {NoNode}]
      /\ Len(b.nodes) \in Nat /\ DOMAIN b.nodes = 1 .. Len(b.nodes)
      /\ Len(b.cacheIds) \in Nat
      /\ DOMAIN b.cacheIds = 1 .. Len(b.cacheIds)
      /\ \A x \in 1 .. Len(b.cacheIds) : b.cacheIds[x] \in NodeId
      /\ Len(b.cacheIds) <= NodesPerBucket
      /\ NodesPerBucket \in Nat \ {0}
  BY BucketFacts
<1>n. node.id \in NodeId /\ node # NoNode
  BY BucketAssumption DEF Node
<1>d. /\ \A x, y \in 1 .. Len(b.nodes) :
           b.nodes[x].id = b.nodes[y].id => x = y
      /\ \A x, y \in 1 .. Len(b.cacheIds) :
           b.cacheIds[x] = b.cacheIds[y] => x = y
      /\ CacheInSync(b)
      /\ \A x \in 1 .. Len(b.nodes) : ~CacheHolds(b, b.nodes[x].id)
      /\ \A x \in 1 .. Len(b.nodes) : b.nodes[x].id # node.id
  BY <1>f DEF BucketOK, DistinctIds, LiveXorCached, Holds
<1>1. CASE CacheHolds(b, node.id) \/ Len(b.cacheIds) >= NodesPerBucket
  <2> DEFINE x == CachePlaceLost(b, node)
             lost == b.cacheIds[x]
             kept == RemoveAt(b.cacheIds, x)
             map == [b.cacheNodes EXCEPT ![lost] = NoNode, ![node.id] = node]
  <2>1. /\ x \in 1 .. Len(b.cacheIds)
        /\ CacheHolds(b, node.id) => lost = node.id
    <3>1. CASE CacheHolds(b, node.id)
      <4>1. PICK y \in 1 .. Len(b.cacheIds) : b.cacheIds[y] = node.id
        BY <1>f, <3>1 DEF CacheHolds
      <4>2. \A z \in 1 .. y - 1 : b.cacheIds[z] # node.id
        BY <1>f, <1>d, <4>1
      <4>3. /\ CachePlaceOf(b, node.id) \in 1 .. Len(b.cacheIds)
            /\ b.cacheIds[CachePlaceOf(b, node.id)] = node.id
        BY <1>f, <4>1, <4>2 DEF CachePlaceOf
      <4> QED BY <3>1, <4>3 DEF CachePlaceLost
    <3>2. CASE ~CacheHolds(b, node.id)
      BY <1>f, <1>1, <3>2 DEF CachePlaceLost
    <3> QED BY <3>1, <3>2
  <2>2. /\ kept \in Seq(NodeId)
        /\ Len(kept) = Len(b.cacheIds) - 1
        /\ \A y \in 1 .. Len(b.cacheIds) - 1 :
             kept[y] = IF y < x THEN b.cacheIds[y] ELSE b.cacheIds[y + 1]
    BY <1>f, <2>1, RemoveAtFacts
  <2>3. c = [nodes |-> b.nodes, cacheIds |-> <<node.id>> \o kept,
             cacheNodes |-> map]
    BY <1>b, <1>1 DEF CachePush
  <2>4. lost \in NodeId
    BY <1>f, <2>1
  <2>5. /\ map \in [NodeId -> Node \cup {NoNode}]
        /\ \A id \in NodeId :
             map[id] = IF id = node.id THEN node
                       ELSE IF id = lost THEN NoNode ELSE b.cacheNodes[id]
    BY <1>f, <1>n, <2>4
  <2>6. \A y \in 1 .. Len(kept) :
          \E z \in 1 .. Len(b.cacheIds) :
            /\ z # x /\ kept[y] = b.cacheIds[z]
            /\ z = IF y < x THEN y ELSE y + 1
    BY <1>f, <2>1, <2>2
  <2>7. \A z \in 1 .. Len(b.cacheIds) :
          z = x \/ \E y \in 1 .. Len(kept) : kept[y] = b.cacheIds[z]
    <3> SUFFICES ASSUME NEW z \in 1 .. Len(b.cacheIds), z # x
                 PROVE  \E y \in 1 .. Len(kept) : kept[y] = b.cacheIds[z]
      OBVIOUS
    <3>1. CASE z < x
      <4>1. z \in 1 .. Len(kept) /\ kept[z] = b.cacheIds[z]
        BY <1>f, <2>1, <2>2, <3>1
      <4> QED BY <4>1
    <3>2. CASE z > x
      <4>1. z - 1 \in 1 .. Len(kept) /\ kept[z - 1] = b.cacheIds[z]
        BY <1>f, <2>1, <2>2, <3>2
      <4> QED BY <4>1
    <3> QED BY <1>f, <2>1, <3>1, <3>2
  <2> DEFINE ids == <<node.id>> \o kept
  <2>8. /\ ids \in Seq(NodeId)
        /\ Len(ids) = Len(b.cacheIds)
        /\ DOMAIN ids = 1 .. Len(ids)
        /\ ids[1] = node.id
        /\ \A y \in 2 .. Len(ids) : ids[y] = kept[y - 1]
    BY <1>f, <1>n, <2>1, <2>2, InFrontFacts, LenProperties
  <2>c. /\ c.nodes = b.nodes /\ c.cacheIds = ids /\ c.cacheNodes = map
        /\ c \in Bucket
    BY <1>f, <2>3, <2>5, <2>8 DEF Bucket
  <2>9. x \in DOMAIN b.cacheIds /\ lost = b.cacheIds[x]
    BY <1>f, <2>1
  <2> HIDE DEF x, lost, kept, map, ids, c
  <2>10. \A y \in 1 .. Len(kept) :
           /\ kept[y] # node.id /\ kept[y] # lost
           /\ CacheHolds(b, kept[y])
    <3> TAKE y \in 1 .. Len(kept)
    <3>1. PICK z \in 1 .. Len(b.cacheIds) : z # x /\ kept[y] = b.cacheIds[z]
      BY <2>6
    <3>2. b.cacheIds[z] # lost
      BY <1>d, <2>1, <2>9, <3>1
    <3>3. CacheHolds(b, b.cacheIds[z])
      BY <1>f DEF CacheHolds
    <3> QED BY <2>1, <3>1, <3>2, <3>3
  <2>11. \A y, z \in 1 .. Len(kept) : kept[y] = kept[z] => y = z
    <3> SUFFICES ASSUME NEW y \in 1 .. Len(kept), NEW z \in 1 .. Len(kept),
                        kept[y] = kept[z]
                 PROVE  y = z
      OBVIOUS
    <3>1. PICK v \in 1 .. Len(b.cacheIds) :
            kept[y] = b.cacheIds[v] /\ v = IF y < x THEN y ELSE y + 1
      BY <2>6
    <3>2. PICK w \in 1 .. Len(b.cacheIds) :
            kept[z] = b.cacheIds[w] /\ w = IF z < x THEN z ELSE z + 1
      BY <2>6
    <3>3. v = w
      BY <1>d, <3>1, <3>2
    <3> QED BY <1>f, <2>1, <2>2, <3>1, <3>2, <3>3
  <2>12. \A y, z \in 1 .. Len(ids) : ids[y] = ids[z] => y = z
    <3> SUFFICES ASSUME NEW y \in 1 .. Len(ids), NEW z \in 1 .. Len(ids),
                        ids[y] = ids[z]
                 PROVE  y = z
      OBVIOUS
    <3>1. \A w \in 2 .. Len(ids) : ids[w] = kept[w - 1] /\ w - 1 \in 1 .. Len(kept)
      BY <1>f, <2>2, <2>8
    <3>2. \A w \in 2 .. Len(ids) : ids[w] # node.id
      BY <2>10, <3>1
    <3>3. CASE y = 1 \/ z = 1
      BY <1>f, <2>8, <3>2, <3>3
    <3>4. CASE y # 1 /\ z # 1
      <4>1. y - 1 = z - 1
        BY <1>f, <2>8, <2>11, <3>1, <3>4
      <4> QED BY <4>1
    <3> QED BY <3>3, <3>4
  <2>13. \A id : CacheHolds(c, id) <=>
                   id = node.id \/ (id # lost /\ CacheHolds(b, id))
    <3> TAKE id
    <3>1. ASSUME CacheHolds(c, id)
          PROVE  id = node.id \/ (id # lost /\ CacheHolds(b, id))
      <4>1. PICK y \in 1 .. Len(ids) : ids[y] = id
        BY <2>8, <2>c, <3>1 DEF CacheHolds
      <4>2. CASE y = 1
        BY <2>8, <4>1, <4>2
      <4>3. CASE y # 1
        <5>1. y - 1 \in 1 .. Len(kept) /\ kept[y - 1] = id
          BY <1>f, <2>2, <2>8, <4>1, <4>3
        <5> QED BY <2>10, <5>1
      <4> QED BY <4>2, <4>3
    <3>2. ASSUME id = node.id
          PROVE  CacheHolds(c, id)
      <4>1. 1 \in DOMAIN ids
        BY <1>f, <2>1, <2>8
      <4> QED BY <2>8, <2>c, <3>2, <4>1 DEF CacheHolds
    <3>3. ASSUME id # lost, CacheHolds(b, id)
          PROVE  CacheHolds(c, id)
      <4>1. PICK z \in 1 .. Len(b.cacheIds) : b.cacheIds[z] = id
        BY <1>f, <3>3 DEF CacheHolds
      <4>2. PICK y \in 1 .. Len(kept) : kept[y] = id
        BY <2>7, <2>9, <3>3, <4>1
      <4>3. y + 1 \in DOMAIN ids /\ ids[y + 1] = id
        BY <1>f, <2>2, <2>8, <4>2
      <4> QED BY <2>c, <4>3 DEF CacheHolds
    <3> QED BY <3>1, <3>2, <3>3
  <2>14. DistinctIds(c) /\ WithinRoom(c) /\ CacheOnlyBehindFullList(c)
    BY <1>f, <1>d, <2>8, <2>c, <2>12
       DEF DistinctIds, WithinRoom, CacheOnlyBehindFullList
  <2>15. CacheInSync(c)
    BY <1>d, <1>n, <2>5, <2>c, <2>13 DEF CacheInSync
  <2>16. LiveXorCached(c)
    BY <1>f, <1>d, <2>c, <2>13 DEF LiveXorCached
  <2>17. IdsIn(c) \subseteq IdsIn(b) \cup {node.id}
    BY <2>c, <2>13, IdsInFacts
  <2> QED BY <2>c, <2>14, <2>15, <2>16, <2>17 DEF BucketOK, c
<1>2. CASE ~(CacheHolds(b, node.id) \/ Len(b.cacheIds) >= NodesPerBucket)
  <2> DEFINE ids == <<node.id>> \o b.cacheIds
             map == [b.cacheNodes EXCEPT ![node.id] = node]
  <2>1. c = [nodes |-> b.nodes, cacheIds |-> ids, cacheNodes |-> map]
    BY <1>b, <1>2 DEF CachePush
  <2>2. /\ map \in [NodeId -> Node \cup {NoNode}]
        /\ \A id \in NodeId :
             map[id] = IF id = node.id THEN node ELSE b.cacheNodes[id]
    BY <1>f, <1>n
  <2>3. /\ ids \in Seq(NodeId)
        /\ Len(ids) = Len(b.cacheIds) + 1
        /\ DOMAIN ids = 1 .. Len(ids)
        /\ ids[1] = node.id
        /\ \A y \in 2 .. Len(ids) : ids[y] = b.cacheIds[y - 1]
    BY <1>f, <1>n, InFrontFacts, LenProperties
  <2>c. /\ c.nodes = b.nodes /\ c.cacheIds = ids /\ c.cacheNodes = map
        /\ c \in Bucket
    BY <1>f, <2>1, <2>2, <2>3 DEF Bucket
  <2> HIDE DEF ids, map, c
  <2>4. \A id : CacheHolds(c, id) <=> id = node.id \/ CacheHolds(b, id)
    <3> TAKE id
    <3>1. ASSUME CacheHolds(c, id)
          PROVE  id = node.id \/ CacheHolds(b, id)
      <4>1. PICK y \in 1 .. Len(ids) : ids[y] = id
        BY <2>3, <2>c, <3>1 DEF CacheHolds
      <4>2. CASE y = 1
        BY <2>3, <4>1, <4>2
      <4>3. CASE y # 1
        <5>1. y - 1 \in DOMAIN b.cacheIds /\ b.cacheIds[y - 1] = id
          BY <1>f, <2>3, <4>1, <4>3
        <5> QED BY <5>1 DEF CacheHolds
      <4> QED BY <4>2, <4>3
    <3>2. ASSUME id = node.id
          PROVE  CacheHolds(c, id)
      <4>1. 1 \in DOMAIN ids
        BY <1>f, <2>3
      <4> QED BY <2>3, <2>c, <3>2, <4>1 DEF CacheHolds
    <3>3. ASSUME CacheHolds(b, id)
          PROVE  CacheHolds(c, id)
      <4>1. PICK z \in 1 .. Len(b.cacheIds) : b.cacheIds[z] = id
        BY <1>f, <3>3 DEF CacheHolds
      <4>2. z + 1 \in DOMAIN ids /\ ids[z + 1] = id
        BY <1>f, <2>3, <4>1
      <4> QED BY <2>c, <4>2 DEF CacheHolds
    <3> QED BY <3>1, <3>2, <3>3
  <2>5. \A y \in 1 .. Len(b.cacheIds) : b.cacheIds[y] # node.id
    BY <1>f, <1>2 DEF CacheHolds
  <2>6. \A y, z \in 1 .. Len(ids) : ids[y] = ids[z] => y = z
    <3> SUFFICES ASSUME NEW y \in 1 .. Len(ids), NEW z \in 1 .. Len(ids),
                        ids[y] = ids[z]
                 PROVE  y = z
      OBVIOUS
    <3>1. \A w \in 2 .. Len(ids) :
            ids[w] = b.cacheIds[w - 1] /\ w - 1 \in 1 .. Len(b.cacheIds)
      BY <1>f, <2>3
    <3>2. CASE y = 1 \/ z = 1
      BY <1>f, <2>3, <2>5, <3>1, <3>2
    <3>3. CASE y # 1 /\ z # 1
      <4>1. y - 1 = z - 1
        BY <1>f, <1>d, <2>3, <3>1, <3>3
      <4> QED BY <4>1
    <3> QED BY <3>2, <3>3
  <2>7. DistinctIds(c) /\ WithinRoom(c) /\ CacheOnlyBehindFullList(c)
    BY <1>f, <1>d, <1>2, <2>3, <2>c, <2>6
       DEF DistinctIds, WithinRoom, CacheOnlyBehindFullList
  <2>8. CacheInSync(c)
    BY <1>d, <1>n, <2>2, <2>c, <2>4 DEF CacheInSync
  <2>9. LiveXorCached(c)
    BY <1>f, <1>d, <2>c, <2>4 DEF LiveXorCached
  <2>10. IdsIn(c) \subseteq IdsIn(b) \cup {node.id}
    BY <2>c, <2>4, IdsInFacts
  <2> QED BY <2>c, <2>7, <2>8, <2>9, <2>10 DEF BucketOK, c
<1> QED BY <1>1, <1>2

\* save: the bucket is well formed again, whether the contact was live,
\* cached or new, and knows no one new but the contact.
LEMMA SaveFacts ==
  ASSUME NEW b \in Bucket, BucketOK(b), NEW node \in Node
  PROVE  /\ Save(b, node) \in Bucket
         /\ BucketOK(Save(b, node))
         /\ IdsIn(Save(b, node)) \subseteq IdsIn(b) \cup {node.id}
<1> DEFINE w == Without(b.nodes, node.id)
           c == Save(b, node)
<1>f. /\ b = [nodes |-> b.nodes, cacheIds |-> b.cacheIds,
              cacheNodes |-> b.cacheNodes]
      /\ b.nodes \in Seq(Node) /\ b.cacheIds \in Seq(NodeId)
      /\ b.cacheNodes \in [NodeId -> Node \cup {NoNode}]
      /\ Len(b.nodes) \in Nat /\ DOMAIN b.nodes = 1 .. Len(b.nodes)
      /\ Len(b.nodes) <= NodesPerBucket
      /\ NodesPerBucket \in Nat \ {0}
  BY BucketFacts
<1>d. /\ DistinctIds(b) /\ WithinRoom(b) /\ CacheInSync(b)
      /\ LiveXorCached(b) /\ CacheOnlyBehindFullList(b)
  BY DEF BucketOK
<1>1. /\ w \in Seq(Node)
      /\ Len(w) <= Len(b.nodes)
      /\ Holds(b.nodes, node.id) => Len(w) = Len(b.nodes) - 1
      /\ ~Holds(b.nodes, node.id) => w = b.nodes
      /\ \A x \in DOMAIN w :
           /\ w[x].id # node.id
           /\ \E y \in DOMAIN b.nodes : w[x] = b.nodes[y]
      /\ \A x, y \in DOMAIN w : w[x].id = w[y].id => x = y
  BY <1>f, <1>d, WithoutFacts DEF DistinctIds
<1>2. Len(w) \in Nat /\ DOMAIN w = 1 .. Len(w)
  BY <1>1, LenProperties
<1>3. CASE Saved(b, node)
  <2> DEFINE list == <<node>> \o w
  <2>1. c = [nodes |-> list, cacheIds |-> b.cacheIds,
             cacheNodes |-> b.cacheNodes]
    BY <1>f, <1>3 DEF Save
  <2>2. /\ list \in Seq(Node)
        /\ Len(list) = Len(w) + 1
        /\ DOMAIN list = 1 .. Len(list)
        /\ list[1] = node
        /\ \A x \in 2 .. Len(list) : list[x] = w[x - 1]
    BY <1>1, <1>2, InFrontFacts, LenProperties
  <2>c. /\ c.nodes = list /\ c.cacheIds = b.cacheIds
        /\ c.cacheNodes = b.cacheNodes /\ c \in Bucket
    BY <1>f, <2>1, <2>2 DEF Bucket
  <2>s. Len(w) < NodesPerBucket
    BY <1>3 DEF Saved
  <2> HIDE DEF w, list, c
  <2>3. ~Holds(b.nodes, node.id) => b.cacheIds = <<>>
    BY <1>f, <1>d, <1>1, <2>s DEF CacheOnlyBehindFullList
  <2>4. ~CacheHolds(b, node.id)
    <3>1. CASE Holds(b.nodes, node.id)
      BY <1>d, <3>1 DEF LiveXorCached, Holds
    <3>2. CASE b.cacheIds = <<>>
      <4>1. DOMAIN b.cacheIds = {}
        BY <3>2
      <4> QED BY <4>1 DEF CacheHolds
    <3> QED BY <2>3, <3>1, <3>2
  <2>5. \A x \in DOMAIN list :
          \/ x = 1 /\ list[x] = node
          \/ x - 1 \in DOMAIN w /\ list[x] = w[x - 1]
    BY <1>2, <2>2
  <2>6. \A x \in DOMAIN list : list[x].id = node.id => x = 1
    BY <1>1, <2>5
  <2>7. \A x, y \in DOMAIN list : list[x].id = list[y].id => x = y
    <3> SUFFICES ASSUME NEW x \in DOMAIN list, NEW y \in DOMAIN list,
                        list[x].id = list[y].id
                 PROVE  x = y
      OBVIOUS
    <3>1. CASE x = 1 \/ y = 1
      BY <2>2, <2>6, <3>1
    <3>2. CASE x # 1 /\ y # 1
      <4>1. x - 1 = y - 1
        BY <1>1, <2>5, <3>2
      <4> QED BY <2>2, <4>1
    <3> QED BY <3>1, <3>2
  <2>8. \A id : Holds(c.nodes, id) => id = node.id \/ Holds(b.nodes, id)
    <3> SUFFICES ASSUME NEW id, NEW x \in DOMAIN list, list[x].id = id,
                        id # node.id
                 PROVE  Holds(b.nodes, id)
      BY <2>c DEF Holds
    <3>1. x - 1 \in DOMAIN w /\ w[x - 1].id = id
      BY <2>5
    <3> QED BY <1>1, <3>1 DEF Holds
  <2>9. \A id : CacheHolds(c, id) <=> CacheHolds(b, id)
    BY <2>c DEF CacheHolds
  <2>10. DistinctIds(c) /\ CacheInSync(c)
    BY <1>d, <2>c, <2>7, <2>9 DEF DistinctIds, CacheInSync
  <2>11. WithinRoom(c)
    BY <1>f, <1>2, <1>d, <2>2, <2>c, <2>s DEF WithinRoom
  <2>12. CacheOnlyBehindFullList(c)
    BY <1>f, <1>2, <1>d, <1>1, <2>2, <2>3, <2>c DEF CacheOnlyBehindFullList
  <2>13. LiveXorCached(c)
    <3> SUFFICES ASSUME NEW x \in DOMAIN c.nodes
                 PROVE  ~CacheHolds(c, c.nodes[x].id)
      BY DEF LiveXorCached
    <3>1. c.nodes[x].id = node.id \/ Holds(b.nodes, c.nodes[x].id)
      BY <2>8 DEF Holds
    <3>2. \A id : Holds(b.nodes, id) => ~CacheHolds(b, id)
      BY <1>d DEF LiveXorCached, Holds
    <3> QED BY <2>4, <2>9, <3>1, <3>2
  <2>14. IdsIn(c) \subseteq IdsIn(b) \cup {node.id}
    BY <2>8, <2>9, IdsInFacts
  <2> QED BY <2>c, <2>10, <2>11, <2>12, <2>13, <2>14 DEF BucketOK, c
<1>4. CASE ~Saved(b, node)
  <2>1. ~Holds(b.nodes, node.id) /\ Len(b.nodes) = NodesPerBucket
    BY <1>f, <1>1, <1>2, <1>4 DEF Saved
  <2>2. [b EXCEPT !.nodes = Without(@, node.id)] = b
    BY <1>f, <1>1, <2>1
  <2>3. Save(b, node) = CachePush(b, node)
    BY <1>4, <2>2 DEF Save
  <2> QED BY <2>1, <2>3, CachePushFacts
<1> QED BY <1>3, <1>4

\* removeNode: a cached contact has taken the place of the one removed, or
\* there was none; the bucket is well formed again and knows no one new.
LEMMA RemoveContactFacts ==
  ASSUME NEW b \in Bucket, BucketOK(b), NEW id
  PROVE  /\ RemoveContact(b, id) \in Bucket
         /\ BucketOK(RemoveContact(b, id))
         /\ IdsIn(RemoveContact(b, id)) \subseteq IdsIn(b)
<1> DEFINE w == Without(b.nodes, id)
           d == [b EXCEPT !.nodes = w]
           c == RemoveContact(b, id)
<1>f. /\ b = [nodes |-> b.nodes, cacheIds |-> b.cacheIds,
              cacheNodes |-> b.cacheNodes]
      /\ b.nodes \in Seq(Node) /\ b.cacheIds \in Seq(NodeId)
      /\ b.cacheNodes \in [NodeId -> Node \cup {NoNode}]
      /\ Len(b.nodes) \in Nat /\ DOMAIN b.nodes = 1 .. Len(b.nodes)
      /\ Len(b.cacheIds) \in Nat
      /\ DOMAIN b.cacheIds = 1 .. Len(b.cacheIds)
      /\ \A x \in 1 .. Len(b.cacheIds) : b.cacheIds[x] \in NodeId
      /\ Len(b.nodes) <= NodesPerBucket
      /\ NodesPerBucket \in Nat \ {0}
      /\ b.cacheIds = <<>> <=> Len(b.cacheIds) = 0
  BY BucketFacts
<1>d. /\ DistinctIds(b) /\ WithinRoom(b) /\ CacheInSync(b)
      /\ LiveXorCached(b) /\ CacheOnlyBehindFullList(b)
  BY DEF BucketOK
<1>1. /\ w \in Seq(Node)
      /\ Len(w) <= Len(b.nodes)
      /\ Holds(b.nodes, id) => Len(w) = Len(b.nodes) - 1
      /\ ~Holds(b.nodes, id) => w = b.nodes
      /\ \A x \in DOMAIN w :
           /\ w[x].id # id
           /\ \E y \in DOMAIN b.nodes : w[x] = b.nodes[y]
      /\ \A x, y \in DOMAIN w : w[x].id = w[y].id => x = y
  BY <1>f, <1>d, WithoutFacts DEF DistinctIds
<1>2. Len(w) \in Nat /\ DOMAIN w = 1 .. Len(w)
  BY <1>1, LenProperties
<1>3. /\ d = [nodes |-> w, cacheIds |-> b.cacheIds,
              cacheNodes |-> b.cacheNodes]
      /\ c = FillFromCache(d)
  BY <1>f DEF RemoveContact
<1> DEFINE k == IF NodesPerBucket - Len(w) < Len(b.cacheIds)
                THEN NodesPerBucket - Len(w) ELSE Len(b.cacheIds)
           pulled == [x \in 1 .. k |-> b.cacheNodes[b.cacheIds[k + 1 - x]]]
           left == SubSeq(b.cacheIds, k + 1, Len(b.cacheIds))
           map == [i \in NodeId |-> IF \E x \in 1 .. k : b.cacheIds[x] = i
                                    THEN NoNode ELSE b.cacheNodes[i]]
<1>4. c = [nodes |-> pulled \o w, cacheIds |-> left, cacheNodes |-> map]
  BY <1>3 DEF FillFromCache
<1> HIDE DEF w, d, c
<1>5. CASE b.cacheIds = <<>> \/ ~Holds(b.nodes, id)
  <2>1. k = 0
    <3>1. CASE b.cacheIds = <<>>
      BY <1>f, <1>1, <1>2, <3>1
    <3>2. CASE b.cacheIds # <<>> /\ ~Holds(b.nodes, id)
      BY <1>f, <1>d, <1>1, <3>2 DEF CacheOnlyBehindFullList
    <3> QED BY <1>5, <3>1, <3>2
  <2>2. pulled \o w = w
    <3>1. pulled = <<>>
      BY <2>1
    <3> QED BY <1>1, <3>1, ConcatEmptySeq
  <2>3. left = b.cacheIds
    BY <1>f, <2>1, SubSeqFull
  <2>4. map = b.cacheNodes
    <3>1. \A i \in NodeId : map[i] = b.cacheNodes[i]
      BY <2>1
    <3> QED BY <1>f, <3>1
  <2> HIDE DEF k, pulled, left, map
  <2>a. c = [nodes |-> w, cacheIds |-> b.cacheIds,
             cacheNodes |-> b.cacheNodes]
    BY <1>4, <2>2, <2>3, <2>4
  <2>5. /\ c.nodes = w /\ c.cacheIds = b.cacheIds
        /\ c.cacheNodes = b.cacheNodes /\ c \in Bucket
    BY <1>f, <1>1, <2>a DEF Bucket
  <2>6. \A i : CacheHolds(c, i) <=> CacheHolds(b, i)
    BY <2>5 DEF CacheHolds
  <2>7. \A i : Holds(c.nodes, i) => Holds(b.nodes, i)
    BY <1>1, <2>5 DEF Holds
  <2>8. /\ DistinctIds(c) /\ CacheInSync(c)
        /\ WithinRoom(c)
    <3>1. DistinctIds(c)
      BY <1>1, <1>d, <2>5 DEF DistinctIds
    <3>2. CacheInSync(c)
      BY <1>d, <2>5, <2>6 DEF CacheInSync
    <3>3. WithinRoom(c)
      BY <1>f, <1>1, <1>2, <1>d, <2>5 DEF WithinRoom
    <3> QED BY <3>1, <3>2, <3>3
  <2>9. LiveXorCached(c)
    BY <1>d, <2>6, <2>7 DEF LiveXorCached, Holds
  <2>10. CacheOnlyBehindFullList(c)
    BY <1>5, <1>d, <1>1, <2>5 DEF CacheOnlyBehindFullList
  <2>11. IdsIn(c) \subseteq IdsIn(b)
    BY <2>6, <2>7, IdsInFacts
  <2> QED BY <2>5, <2>8, <2>9, <2>10, <2>11 DEF BucketOK, c
<1>6. CASE b.cacheIds # <<>> /\ Holds(b.nodes, id)
  <2> DEFINE first == b.cacheIds[1]
             node == b.cacheNodes[first]
             list == <<node>> \o w
  <2>1. /\ Len(b.nodes) = NodesPerBucket /\ Len(w) = NodesPerBucket - 1
        /\ Len(b.cacheIds) \in Nat \ {0}
    BY <1>f, <1>d, <1>1, <1>6 DEF CacheOnlyBehindFullList
  <2>2. k = 1
    <3>1. NodesPerBucket - Len(w) = 1
      BY <1>f, <2>1
    <3>2. \A n \in Nat \ {0} : (IF 1 < n THEN 1 ELSE n) = 1
      OBVIOUS
    <3>3. k = IF 1 < Len(b.cacheIds) THEN 1 ELSE Len(b.cacheIds)
      BY ONLY <3>1, Zenon
    <3> QED BY ONLY <2>1, <3>2, <3>3, Zenon
  <2>3. first \in NodeId /\ CacheHolds(b, first)
    BY <1>f, <2>1 DEF CacheHolds
  <2>4. node \in Node /\ node.id = first /\ node # NoNode
    BY <1>f, <1>d, <2>3 DEF CacheInSync
  <2>5. pulled = <<node>>
    <3> HIDE DEF k
    <3>1. \A x \in 1 .. k : k + 1 - x = 1
      BY <2>2
    <3>2. pulled = [x \in 1 .. 1 |-> node]
      BY <3>1, <2>2
    <3> HIDE DEF pulled, node
    <3> QED BY <3>2
  <2> HIDE DEF k
  <2>6. /\ left \in Seq(NodeId)
        /\ Len(left) = Len(b.cacheIds) - 1
        /\ \A x \in 1 .. Len(b.cacheIds) - 1 : left[x] = b.cacheIds[x + 1]
    <3>1. \A x \in 2 .. Len(b.cacheIds) : b.cacheIds[x] \in NodeId
      BY <1>f
    <3>2. left = SubSeq(b.cacheIds, 2, Len(b.cacheIds))
      BY <2>2
    <3> HIDE DEF left
    <3>3. /\ SubSeq(b.cacheIds, 2, Len(b.cacheIds)) \in Seq(NodeId)
          /\ Len(SubSeq(b.cacheIds, 2, Len(b.cacheIds)))
               = IF 2 <= Len(b.cacheIds) THEN Len(b.cacheIds) - 2 + 1 ELSE 0
          /\ \A x \in 1 .. Len(b.cacheIds) - 2 + 1 :
               SubSeq(b.cacheIds, 2, Len(b.cacheIds))[x] = b.cacheIds[2 + x - 1]
      <4>1. 2 \in Int /\ Len(b.cacheIds) \in Int
        BY <2>1
      <4> QED BY <3>1, <4>1, SubSeqProperties
    <3> QED BY <2>1, <3>2, <3>3
  <2>7. /\ map \in [NodeId -> Node \cup {NoNode}]
        /\ \A i \in NodeId :
             map[i] = IF i = first THEN NoNode ELSE b.cacheNodes[i]
    BY <1>f, <2>2
  <2>8. /\ list \in Seq(Node)
        /\ Len(list) = Len(w) + 1
        /\ DOMAIN list = 1 .. Len(list)
        /\ list[1] = node
        /\ \A x \in 2 .. Len(list) : list[x] = w[x - 1]
    BY <1>1, <1>2, <2>4, InFrontFacts, LenProperties
  <2>a. c = [nodes |-> list, cacheIds |-> left, cacheNodes |-> map]
    BY <1>4, <2>5
  <2>9. DOMAIN left = 1 .. Len(left) /\ first = b.cacheIds[1]
    BY <2>6, LenProperties
  <2> HIDE DEF pulled, left, map, first, node, list
  <2>c. /\ c.nodes = list /\ c.cacheIds = left
        /\ c.cacheNodes = map /\ c \in Bucket
    BY <2>a, <2>6, <2>7, <2>8 DEF Bucket
  <2>10. \A i : CacheHolds(c, i) <=> i # first /\ CacheHolds(b, i)
    <3> TAKE i
    <3>1. ASSUME CacheHolds(c, i)
          PROVE  i # first /\ CacheHolds(b, i)
      <4>1. PICK x \in 1 .. Len(left) : left[x] = i
        BY <2>9, <2>c, <3>1 DEF CacheHolds
      <4>2. x + 1 \in DOMAIN b.cacheIds /\ b.cacheIds[x + 1] = i /\ x + 1 # 1
        BY <1>f, <2>6, <4>1
      <4>3. CacheHolds(b, i)
        BY <4>2 DEF CacheHolds
      <4>4. 1 \in DOMAIN b.cacheIds
        BY <1>f, <2>1
      <4> QED BY <1>d, <2>9, <4>2, <4>3, <4>4 DEF DistinctIds
    <3>2. ASSUME i # first, CacheHolds(b, i)
          PROVE  CacheHolds(c, i)
      <4>1. PICK x \in 1 .. Len(b.cacheIds) : b.cacheIds[x] = i /\ x # 1
        BY <1>f, <2>9, <3>2 DEF CacheHolds
      <4>2. x - 1 \in DOMAIN left /\ left[x - 1] = i
        BY <1>f, <2>6, <2>9, <4>1
      <4> QED BY <2>c, <4>2 DEF CacheHolds
    <3> QED BY <3>1, <3>2
  <2>11. \A x, y \in DOMAIN left : left[x] = left[y] => x = y
    <3> SUFFICES ASSUME NEW x \in 1 .. Len(left), NEW y \in 1 .. Len(left),
                        left[x] = left[y]
                 PROVE  x = y
      BY <2>9
    <3>1. /\ left[x] = b.cacheIds[x + 1] /\ x + 1 \in DOMAIN b.cacheIds
          /\ left[y] = b.cacheIds[y + 1] /\ y + 1 \in DOMAIN b.cacheIds
      BY <1>f, <2>6
    <3>2. x + 1 = y + 1
      BY <1>d, <3>1 DEF DistinctIds
    <3> QED BY <3>2
  <2>12. \A i : Holds(b.nodes, i) => ~CacheHolds(b, i)
    BY <1>d DEF LiveXorCached, Holds
  <2>13. \A x \in DOMAIN list :
           \/ x = 1 /\ list[x] = node
           \/ x - 1 \in DOMAIN w /\ list[x] = w[x - 1]
    BY <1>2, <2>8
  <2>14. \A x \in DOMAIN w : Holds(b.nodes, w[x].id)
    BY <1>1 DEF Holds
  <2>15. \A x \in DOMAIN list : list[x].id = first => x = 1
    BY <2>3, <2>12, <2>13, <2>14
  <2>16. \A x, y \in DOMAIN list : list[x].id = list[y].id => x = y
    <3> SUFFICES ASSUME NEW x \in DOMAIN list, NEW y \in DOMAIN list,
                        list[x].id = list[y].id
                 PROVE  x = y
      OBVIOUS
    <3>1. CASE x = 1 \/ y = 1
      BY <2>4, <2>8, <2>15, <3>1
    <3>2. CASE x # 1 /\ y # 1
      <4>1. x - 1 = y - 1
        BY <1>1, <2>13, <3>2
      <4> QED BY <2>8, <4>1
    <3> QED BY <3>1, <3>2
  <2>17. \A i : Holds(c.nodes, i) => i = first \/ Holds(b.nodes, i)
    BY <2>4, <2>13, <2>14, <2>c DEF Holds
  <2>18. DistinctIds(c)
    BY <2>11, <2>16, <2>c DEF DistinctIds
  <2>19. WithinRoom(c) /\ CacheOnlyBehindFullList(c)
    <3>1. Len(list) = NodesPerBucket /\ Len(left) <= NodesPerBucket
      BY <1>f, <1>d, <2>1, <2>6, <2>8 DEF WithinRoom
    <3> QED BY <1>f, <2>c, <3>1 DEF WithinRoom, CacheOnlyBehindFullList
  <2>20. CacheInSync(c)
    BY <1>d, <2>7, <2>10, <2>c DEF CacheInSync
  <2>21. LiveXorCached(c)
    <3> SUFFICES ASSUME NEW x \in DOMAIN c.nodes
                 PROVE  ~CacheHolds(c, c.nodes[x].id)
      BY DEF LiveXorCached
    <3>1. c.nodes[x].id = first \/ Holds(b.nodes, c.nodes[x].id)
      BY <2>17 DEF Holds
    <3> QED BY <2>10, <2>12, <3>1
  <2>22. IdsIn(c) \subseteq IdsIn(b)
    BY <2>3, <2>10, <2>17, IdsInFacts
  <2> QED BY <2>c, <2>18, <2>19, <2>20, <2>21, <2>22 DEF BucketOK, c
<1> QED BY <1>5, <1>6

-----------------------------------------------------------------------------
(* The objects.                                                            *)

\* The objects of a bucket are nodes, those of the cache filed under their id.
LEMMA ObjectFacts ==
  ASSUME NEW b \in Bucket, BucketOK(b), NEW o
  PROVE  o \in ObjectsOf(b) <=>
           \/ \E x \in DOMAIN b.nodes : o = b.nodes[x]
           \/ \E id \in NodeId : /\ CacheHolds(b, id) /\ o = b.cacheNodes[id]
                                 /\ o # NoNode /\ o.id = id
<1>1. CacheInSync(b) /\ NoNode \notin Node
  BY BucketAssumption DEF BucketOK, Node
<1>2. \A x \in DOMAIN b.nodes : b.nodes[x] \in Node
  BY BucketFacts
<1>3. \A id \in NodeId : b.cacheNodes[id] # NoNode =>
        CacheHolds(b, id) /\ b.cacheNodes[id].id = id
  BY <1>1 DEF CacheInSync
<1> QED BY <1>3 DEF ObjectsOf

\* save leaves no object of the contact but the one saved.
LEMMA SaveObjects ==
  ASSUME NEW b \in Bucket, BucketOK(b), NEW node \in Node,
         NEW o \in ObjectsOf(Save(b, node))
  PROVE  o = node \/ (o \in ObjectsOf(b) /\ o.id # node.id)
<1> DEFINE w == Without(b.nodes, node.id)
<1>b. /\ b = [nodes |-> b.nodes, cacheIds |-> b.cacheIds,
              cacheNodes |-> b.cacheNodes]
      /\ b.nodes \in Seq(Node) /\ b.cacheIds \in Seq(NodeId)
      /\ b.cacheNodes \in [NodeId -> Node \cup {NoNode}]
      /\ b.cacheIds = <<>> <=> Len(b.cacheIds) = 0
  BY BucketFacts
<1>n. node.id \in NodeId
  BY DEF Node
<1>1. /\ w \in Seq(Node)
      /\ ~Holds(b.nodes, node.id) => w = b.nodes
      /\ \A x \in DOMAIN w :
           w[x].id # node.id /\ \E y \in DOMAIN b.nodes : w[x] = b.nodes[y]
  BY <1>b, WithoutFacts DEF BucketOK, DistinctIds
<1>2. \A x \in DOMAIN w : w[x] \in ObjectsOf(b) /\ w[x].id # node.id
  BY <1>1, ObjectFacts
<1>3. ASSUME NEW id \in NodeId, id # node.id, b.cacheNodes[id] # NoNode
      PROVE  b.cacheNodes[id] \in ObjectsOf(b) /\ b.cacheNodes[id].id # node.id
  BY <1>3 DEF ObjectsOf, BucketOK, CacheInSync
<1>4. CASE Saved(b, node)
  <2> DEFINE list == <<node>> \o w
  <2>1. Save(b, node) = [nodes |-> list, cacheIds |-> b.cacheIds,
                         cacheNodes |-> b.cacheNodes]
    BY <1>b, <1>4 DEF Save
  <2>2. ~CacheHolds(b, node.id)
    <3>1. CASE Holds(b.nodes, node.id)
      BY <3>1 DEF BucketOK, LiveXorCached, Holds
    <3>2. CASE ~Holds(b.nodes, node.id)
      <4>1. b.cacheIds = <<>>
        BY <1>1, <1>4, <3>2, BucketFacts
           DEF Saved, BucketOK, CacheOnlyBehindFullList
      <4> QED BY <4>1 DEF CacheHolds
    <3> QED BY <3>1, <3>2
  <2>3. b.cacheNodes[node.id] = NoNode
    BY <1>n, <2>2 DEF BucketOK, CacheInSync
  <2>4. /\ list \in Seq(Node) /\ Len(list) = Len(w) + 1 /\ list[1] = node
        /\ \A x \in 2 .. Len(w) + 1 : list[x] = w[x - 1]
    BY <1>1, InFrontFacts
  <2>5. /\ DOMAIN list = 1 .. Len(w) + 1 /\ DOMAIN w = 1 .. Len(w)
        /\ Len(w) \in Nat
    BY <1>1, <2>4, LenProperties
  <2> HIDE DEF list, w
  <2>6. ASSUME NEW x \in DOMAIN list
        PROVE  list[x] = node \/ \E y \in DOMAIN w : list[x] = w[y]
    <3>1. CASE x = 1
      BY <2>4, <3>1
    <3>2. CASE x # 1
      <4>1. x \in 2 .. Len(w) + 1 /\ x - 1 \in DOMAIN w
        BY <2>5, <3>2
      <4> QED BY <2>4, <4>1
    <3> QED BY <3>1, <3>2
  <2>7. \/ \E x \in DOMAIN list : o = list[x]
        \/ \E id \in NodeId : o = b.cacheNodes[id] /\ o # NoNode
    BY <2>1 DEF ObjectsOf
  <2> QED BY <1>2, <1>3, <2>3, <2>6, <2>7
<1>5. CASE ~Saved(b, node)
  <2> DEFINE spliced == [b EXCEPT !.nodes = w]
             c == CachePush(spliced, node)
  <2>1. Save(b, node) = c
    BY <1>5 DEF Save
  <2>2. spliced.nodes = w /\ spliced.cacheNodes = b.cacheNodes
        /\ spliced = [nodes |-> w, cacheIds |-> b.cacheIds,
                      cacheNodes |-> b.cacheNodes]
    BY <1>b
  <2> HIDE DEF w, spliced
  <2>3. /\ c.nodes = w
        /\ \A id \in NodeId : \/ c.cacheNodes[id] = node
                              \/ c.cacheNodes[id] = NoNode
                              \/ id # node.id /\ c.cacheNodes[id] = b.cacheNodes[id]
    <3>1. CASE CacheHolds(spliced, node.id)
               \/ Len(spliced.cacheIds) >= NodesPerBucket
      <4> DEFINE x == CachePlaceLost(spliced, node)
                 m == [b.cacheNodes EXCEPT ![spliced.cacheIds[x]] = NoNode,
                                           ![node.id] = node]
      <4>1. c.nodes = w /\ c.cacheNodes = m
        BY <2>2, <3>1 DEF CachePush
      <4>2. \A id \in NodeId : \/ m[id] = node \/ m[id] = NoNode
                               \/ id # node.id /\ m[id] = b.cacheNodes[id]
        BY <1>b, <1>n
      <4> QED BY <4>1, <4>2
    <3>2. CASE ~(CacheHolds(spliced, node.id)
                 \/ Len(spliced.cacheIds) >= NodesPerBucket)
      <4>1. c.nodes = w /\ c.cacheNodes = [b.cacheNodes EXCEPT ![node.id] = node]
        BY <2>2, <3>2 DEF CachePush
      <4> QED BY <1>b, <1>n, <4>1
    <3> QED BY <3>1, <3>2
  <2>4. \/ \E x \in DOMAIN w : o = w[x]
        \/ \E id \in NodeId : o = c.cacheNodes[id] /\ o # NoNode
    BY <2>1, <2>3 DEF ObjectsOf
  <2> HIDE DEF c
  <2> QED BY <1>2, <1>3, <2>3, <2>4
<1> QED BY <1>4, <1>5

\* What removeNode makes of a bucket: the contact is out of the list, and if
\* that left room for a cached one, the first of the cache is in front of it.
Dropped(b, c, id) ==
  /\ b.cacheIds = <<>> \/ ~Holds(b.nodes, id)
  /\ c.nodes = Without(b.nodes, id)
  /\ c.cacheIds = b.cacheIds /\ c.cacheNodes = b.cacheNodes

Promoted(b, c, id) ==
  /\ Holds(b.nodes, id)
  /\ Len(b.cacheIds) \in Nat \ {0}
  /\ c.nodes = <<b.cacheNodes[b.cacheIds[1]]>> \o Without(b.nodes, id)
  /\ Len(c.cacheIds) = Len(b.cacheIds) - 1
  /\ \A x \in 1 .. Len(c.cacheIds) : c.cacheIds[x] = b.cacheIds[x + 1]
  /\ \A i \in NodeId :
       c.cacheNodes[i] = IF i = b.cacheIds[1] THEN NoNode ELSE b.cacheNodes[i]

LEMMA RemoveShape ==
  ASSUME NEW b \in Bucket, BucketOK(b), NEW id
  PROVE  \/ Dropped(b, RemoveContact(b, id), id)
         \/ Promoted(b, RemoveContact(b, id), id)
<1> DEFINE w == Without(b.nodes, id)
           d == [b EXCEPT !.nodes = w]
           c == RemoveContact(b, id)
<1>f. /\ b = [nodes |-> b.nodes, cacheIds |-> b.cacheIds,
              cacheNodes |-> b.cacheNodes]
      /\ b.nodes \in Seq(Node) /\ b.cacheIds \in Seq(NodeId)
      /\ b.cacheNodes \in [NodeId -> Node \cup {NoNode}]
      /\ Len(b.nodes) \in Nat /\ Len(b.cacheIds) \in Nat
      /\ Len(b.nodes) <= NodesPerBucket
      /\ NodesPerBucket \in Nat \ {0}
      /\ \A x \in 1 .. Len(b.cacheIds) : b.cacheIds[x] \in NodeId
      /\ b.cacheIds = <<>> <=> Len(b.cacheIds) = 0
  BY BucketFacts
<1>1. /\ w \in Seq(Node) /\ Len(w) \in Nat /\ Len(w) <= Len(b.nodes)
      /\ Holds(b.nodes, id) => Len(w) = Len(b.nodes) - 1
      /\ ~Holds(b.nodes, id) => w = b.nodes
  BY <1>f, WithoutFacts, LenProperties DEF BucketOK, DistinctIds
<1>2. b.cacheIds # <<>> => Len(b.nodes) = NodesPerBucket
  BY DEF BucketOK, CacheOnlyBehindFullList
<1>3. /\ d = [nodes |-> w, cacheIds |-> b.cacheIds,
              cacheNodes |-> b.cacheNodes]
      /\ c = FillFromCache(d)
  BY <1>f DEF RemoveContact
<1> DEFINE k == IF NodesPerBucket - Len(w) < Len(b.cacheIds)
                THEN NodesPerBucket - Len(w) ELSE Len(b.cacheIds)
           pulled == [x \in 1 .. k |-> b.cacheNodes[b.cacheIds[k + 1 - x]]]
           left == SubSeq(b.cacheIds, k + 1, Len(b.cacheIds))
           map == [i \in NodeId |-> IF \E x \in 1 .. k : b.cacheIds[x] = i
                                    THEN NoNode ELSE b.cacheNodes[i]]
<1>4. c = [nodes |-> pulled \o w, cacheIds |-> left, cacheNodes |-> map]
  BY <1>3 DEF FillFromCache
<1>5. c.nodes = pulled \o w /\ c.cacheIds = left /\ c.cacheNodes = map
  <2> HIDE DEF pulled, left, map, w, c
  <2> QED BY <1>4
<1> HIDE DEF w, d, c
<1>6. CASE b.cacheIds = <<>> \/ ~Holds(b.nodes, id)
  <2>1. k = 0
    BY <1>f, <1>1, <1>2, <1>6
  <2>2. pulled \o w = w
    <3>1. pulled = <<>>
      BY <2>1
    <3> QED BY <1>1, <3>1, ConcatEmptySeq
  <2>3. left = b.cacheIds
    BY <1>f, <2>1, SubSeqFull
  <2>4. map = b.cacheNodes
    <3>1. \A i \in NodeId : map[i] = b.cacheNodes[i]
      BY <2>1
    <3> QED BY <1>f, <3>1
  <2> QED BY <1>5, <1>6, <2>2, <2>3, <2>4 DEF Dropped, c, w
<1>7. CASE b.cacheIds # <<>> /\ Holds(b.nodes, id)
  <2>1. Len(b.cacheIds) \in Nat \ {0} /\ NodesPerBucket - Len(w) = 1
    BY <1>f, <1>1, <1>2, <1>7
  <2>2. k = 1
    <3>2. \A n \in Nat \ {0} : (IF 1 < n THEN 1 ELSE n) = 1
      OBVIOUS
    <3>3. k = IF 1 < Len(b.cacheIds) THEN 1 ELSE Len(b.cacheIds)
      BY ONLY <2>1, Zenon
    <3> QED BY ONLY <2>1, <3>2, <3>3, Zenon
  <2> DEFINE first == b.cacheIds[1]
             node == b.cacheNodes[first]
  <2>3. pulled = <<node>>
    <3> HIDE DEF k
    <3>1. \A x \in 1 .. k : k + 1 - x = 1
      BY <2>2
    <3>2. pulled = [x \in 1 .. 1 |-> node]
      BY <3>1, <2>2
    <3> HIDE DEF pulled, node
    <3> QED BY <3>2
  <2> HIDE DEF k
  <2>4. /\ Len(left) = Len(b.cacheIds) - 1
        /\ \A x \in 1 .. Len(left) : left[x] = b.cacheIds[x + 1]
    <3>1. \A x \in 2 .. Len(b.cacheIds) : b.cacheIds[x] \in NodeId
      BY <1>f
    <3>2. left = SubSeq(b.cacheIds, 2, Len(b.cacheIds))
      BY <2>2
    <3> HIDE DEF left
    <3>3. /\ Len(SubSeq(b.cacheIds, 2, Len(b.cacheIds)))
               = IF 2 <= Len(b.cacheIds) THEN Len(b.cacheIds) - 2 + 1 ELSE 0
          /\ \A x \in 1 .. Len(b.cacheIds) - 2 + 1 :
               SubSeq(b.cacheIds, 2, Len(b.cacheIds))[x] = b.cacheIds[2 + x - 1]
      <4>1. 2 \in Int /\ Len(b.cacheIds) \in Int
        BY <2>1
      <4> QED BY <3>1, <4>1, SubSeqProperties
    <3> QED BY <2>1, <3>2, <3>3
  <2>5. \A i \in NodeId :
          map[i] = IF i = first THEN NoNode ELSE b.cacheNodes[i]
    BY <2>2
  <2> HIDE DEF left, map, pulled
  <2> QED BY <1>5, <1>7, <2>1, <2>3, <2>4, <2>5 DEF Promoted, c, w
<1> QED BY <1>6, <1>7

\* removeNode leaves objects the bucket had before.
LEMMA RemoveObjects ==
  ASSUME NEW b \in Bucket, BucketOK(b), NEW id,
         NEW o \in ObjectsOf(RemoveContact(b, id))
  PROVE  o \in ObjectsOf(b)
<1> DEFINE w == Without(b.nodes, id)
           c == RemoveContact(b, id)
<1>1. /\ w \in Seq(Node) /\ Len(w) \in Nat /\ DOMAIN w = 1 .. Len(w)
      /\ \A x \in DOMAIN w : \E y \in DOMAIN b.nodes : w[x] = b.nodes[y]
  BY BucketFacts, WithoutFacts, LenProperties DEF BucketOK, DistinctIds
<1>2. \A x \in DOMAIN w : w[x] \in ObjectsOf(b)
  BY <1>1 DEF ObjectsOf
<1>3. \/ \E x \in DOMAIN c.nodes : o = c.nodes[x]
      \/ \E i \in NodeId : o = c.cacheNodes[i] /\ o # NoNode
  BY DEF ObjectsOf
<1>4. \A i \in NodeId : b.cacheNodes[i] # NoNode => b.cacheNodes[i] \in ObjectsOf(b)
  BY DEF ObjectsOf
<1>5. CASE Dropped(b, c, id)
  BY <1>2, <1>3, <1>4, <1>5 DEF Dropped
<1>6. CASE Promoted(b, c, id)
  <2> DEFINE first == b.cacheIds[1]
             node == b.cacheNodes[first]
             list == <<node>> \o w
  <2>1. first \in NodeId /\ CacheHolds(b, first)
    BY <1>6, BucketFacts DEF Promoted, CacheHolds
  <2>2. node # NoNode /\ node \in Node /\ node \in ObjectsOf(b)
    BY <1>4, <2>1, BucketFacts DEF BucketOK, CacheInSync
  <2>3. /\ DOMAIN list = 1 .. Len(w) + 1 /\ list[1] = node
        /\ \A x \in 2 .. Len(w) + 1 : list[x] = w[x - 1]
    BY <1>1, <2>2, InFrontFacts, LenProperties
  <2>4. c.nodes = list /\ \A i \in NodeId : c.cacheNodes[i] = NoNode
                                          \/ c.cacheNodes[i] = b.cacheNodes[i]
    BY <1>6 DEF Promoted
  <2> HIDE DEF list, w, c, node
  <2>5. \A x \in DOMAIN list : list[x] = node \/ \E y \in DOMAIN w : list[x] = w[y]
    <3> TAKE x \in DOMAIN list
    <3>1. CASE x = 1
      BY <2>3, <3>1
    <3>2. CASE x # 1
      <4>1. x \in 2 .. Len(w) + 1 /\ x - 1 \in DOMAIN w
        BY <1>1, <2>3, <3>2
      <4> QED BY <2>3, <4>1
    <3> QED BY <3>1, <3>2
  <2> QED BY <1>2, <1>3, <1>4, <2>2, <2>4, <2>5
<1> QED BY <1>5, <1>6, RemoveShape

\* What fetch finds is an object of the bucket, of the id that was asked for.
LEMMA FetchFacts ==
  ASSUME NEW b \in Bucket, BucketOK(b), NEW id \in NodeId,
         Fetch(b, id) # NoNode
  PROVE  Fetch(b, id) \in ObjectsOf(b) /\ Fetch(b, id).id = id
<1>1. CASE Holds(b.nodes, id)
  <2>1. PICK x \in DOMAIN b.nodes : b.nodes[x].id = id
    BY <1>1 DEF Holds
  <2>2. b.nodes \in Seq(Node) /\ Distinct(b.nodes)
    BY BucketFacts DEF BucketOK, DistinctIds, Distinct
  <2>3. PlaceOf(b.nodes, id) = x
    BY <2>1, <2>2, PlaceFacts
  <2> QED BY <1>1, <2>1, <2>3 DEF Fetch, ObjectsOf
<1>2. CASE ~Holds(b.nodes, id)
  BY <1>2 DEF Fetch, ObjectsOf, BucketOK, CacheInSync
<1> QED BY <1>1, <1>2

-----------------------------------------------------------------------------
(* What a bucket finds.                                                    *)

\* Fetch finds every object of the bucket, by its id.
LEMMA FetchObject ==
  ASSUME NEW b \in Bucket, BucketOK(b), NEW o \in ObjectsOf(b)
  PROVE  o.id \in NodeId /\ Fetch(b, o.id) = o /\ o \in Node
<1>1. CASE \E x \in DOMAIN b.nodes : o = b.nodes[x]
  <2>1. PICK x \in DOMAIN b.nodes : o = b.nodes[x]
    BY <1>1
  <2>2. b.nodes \in Seq(Node) /\ Distinct(b.nodes) /\ o \in Node
    BY <2>1, BucketFacts DEF BucketOK, DistinctIds, Distinct
  <2>3. PlaceOf(b.nodes, o.id) = x
    BY <2>1, <2>2, PlaceFacts
  <2>4. Holds(b.nodes, o.id)
    BY <2>1 DEF Holds
  <2> QED BY <2>1, <2>2, <2>3, <2>4 DEF Fetch, Node
<1>2. CASE \E id \in NodeId : /\ CacheHolds(b, id) /\ o = b.cacheNodes[id]
                              /\ o # NoNode /\ o.id = id
  <2>1. o.id \in NodeId /\ CacheHolds(b, o.id) /\ o = b.cacheNodes[o.id]
    BY <1>2
  <2>2. ~Holds(b.nodes, o.id)
    BY <2>1 DEF BucketOK, LiveXorCached, Holds
  <2>3. o \in Node
    BY <1>2, <2>1, BucketFacts
  <2> QED BY <2>1, <2>2, <2>3 DEF Fetch
<1> QED BY <1>1, <1>2, ObjectFacts

\* Whom a bucket holds it finds, and nobody else.
LEMMA FetchWho ==
  ASSUME NEW b \in Bucket, BucketOK(b), NEW id \in NodeId
  PROVE  /\ Fetch(b, id) # NoNode <=> Holds(b.nodes, id) \/ CacheHolds(b, id)
         /\ Fetch(b, id) # NoNode => Fetch(b, id) \in Node
<1>1. CASE Holds(b.nodes, id)
  <2>1. PICK x \in DOMAIN b.nodes : b.nodes[x].id = id
    BY <1>1 DEF Holds
  <2>2. b.nodes[x] \in ObjectsOf(b)
    BY DEF ObjectsOf
  <2>3. Fetch(b, id) \in Node
    BY <2>1, <2>2, FetchObject
  <2> QED BY <1>1, <2>3, BucketAssumption DEF Node
<1>2. CASE ~Holds(b.nodes, id)
  <2>1. Fetch(b, id) = b.cacheNodes[id]
    BY <1>2 DEF Fetch
  <2>2. b.cacheNodes[id] # NoNode <=> CacheHolds(b, id)
    BY DEF BucketOK, CacheInSync
  <2>3. b.cacheNodes[id] \in Node \cup {NoNode}
    BY BucketFacts
  <2> QED BY <1>2, <2>1, <2>2, <2>3
<1> QED BY <1>1, <1>2

\* Whoever is in the list once an id is out of it was there before, as the
\* same object, and has another id.
LEMMA WithoutWho ==
  ASSUME NEW nodes \in Seq(Node), Distinct(nodes), NEW id
  PROVE  /\ \A i : Holds(Without(nodes, id), i) <=> i # id /\ Holds(nodes, i)
         /\ \A x \in DOMAIN nodes : nodes[x].id # id =>
              \E y \in DOMAIN Without(nodes, id) :
                Without(nodes, id)[y] = nodes[x]
<1>1. \A x \in DOMAIN Without(nodes, id) :
        /\ Without(nodes, id)[x].id # id
        /\ \E y \in DOMAIN nodes : Without(nodes, id)[x] = nodes[y]
  BY WithoutFacts DEF Distinct
<1>2. ASSUME NEW x \in DOMAIN nodes, nodes[x].id # id
      PROVE  \E y \in DOMAIN Without(nodes, id) : Without(nodes, id)[y] = nodes[x]
  BY <1>2, WithoutPlaces
<1> QED BY <1>1, <1>2 DEF Holds

\* A list with one more in front holds that one and the others.
LEMMA FrontWho ==
  ASSUME NEW w \in Seq(Node), NEW node \in Node
  PROVE  /\ \A i : Holds(<<node>> \o w, i) <=> i = node.id \/ Holds(w, i)
         /\ \E y \in DOMAIN (<<node>> \o w) : (<<node>> \o w)[y] = node
         /\ \A x \in DOMAIN w :
              \E y \in DOMAIN (<<node>> \o w) : (<<node>> \o w)[y] = w[x]
<1> DEFINE list == <<node>> \o w
<1>1. /\ Len(w) \in Nat /\ DOMAIN w = 1 .. Len(w)
      /\ DOMAIN list = 1 .. Len(w) + 1 /\ list[1] = node
      /\ \A x \in 2 .. Len(w) + 1 : list[x] = w[x - 1]
  BY InFrontFacts, LenProperties
<1> HIDE DEF list
<1>2. 1 \in DOMAIN list /\ list[1] = node
  BY <1>1
<1>3. \A x \in DOMAIN w : x + 1 \in DOMAIN list /\ list[x + 1] = w[x]
  BY <1>1
<1>4. \A x \in DOMAIN list :
        list[x] = node \/ \E y \in DOMAIN w : list[x] = w[y]
  <2> TAKE x \in DOMAIN list
  <2>1. x = 1 \/ (x - 1 \in DOMAIN w /\ list[x] = w[x - 1])
    BY <1>1
  <2> QED BY <1>2, <2>1
<1>5. \A x \in DOMAIN w : \E y \in DOMAIN list : list[y] = w[x]
  BY <1>3
<1>6. \A i : Holds(list, i) <=> i = node.id \/ Holds(w, i)
  BY <1>2, <1>4, <1>5 DEF Holds
<1> QED BY <1>2, <1>5, <1>6 DEF list

-----------------------------------------------------------------------------
(* What save does to a bucket.                                             *)

\* save with room: the contact is live, nobody else is touched.
LEMMA SaveWithRoom ==
  ASSUME NEW b \in Bucket, BucketOK(b), NEW node \in Node, Saved(b, node)
  PROVE  /\ Holds(b.nodes, node.id) \/ Len(b.nodes) < NodesPerBucket
         /\ \A id \in NodeId :
              /\ Holds(Save(b, node).nodes, id)
                   <=> id = node.id \/ Holds(b.nodes, id)
              /\ Fetch(Save(b, node), id)
                   = IF id = node.id THEN node ELSE Fetch(b, id)
<1> DEFINE w == Without(b.nodes, node.id)
           c == Save(b, node)
<1>1. /\ b = [nodes |-> b.nodes, cacheIds |-> b.cacheIds,
              cacheNodes |-> b.cacheNodes]
      /\ b.nodes \in Seq(Node) /\ Distinct(b.nodes) /\ w \in Seq(Node)
      /\ ~Holds(b.nodes, node.id) => w = b.nodes
      /\ c \in Bucket /\ BucketOK(c) /\ node.id \in NodeId
  BY BucketFacts, WithoutFacts, SaveFacts
     DEF BucketOK, DistinctIds, Distinct, Node
<1>2. c.nodes = <<node>> \o w /\ c.cacheNodes = b.cacheNodes
  BY <1>1 DEF Save
<1>3. Holds(b.nodes, node.id) \/ Len(b.nodes) < NodesPerBucket
  BY <1>1 DEF Saved
<1> HIDE DEF c
<1>4. \A id : Holds(c.nodes, id) <=> id = node.id \/ Holds(b.nodes, id)
  BY <1>1, <1>2, WithoutWho, FrontWho
<1>5. \E y \in DOMAIN c.nodes : c.nodes[y] = node
  BY <1>1, <1>2, FrontWho
<1>6. Fetch(c, node.id) = node
  <2>1. node \in ObjectsOf(c)
    BY <1>5 DEF ObjectsOf
  <2> QED BY <1>1, <2>1, FetchObject
<1>7. ASSUME NEW id \in NodeId, id # node.id
      PROVE  Fetch(c, id) = Fetch(b, id)
  <2>1. CASE Holds(b.nodes, id)
    <3>1. PICK x \in DOMAIN b.nodes : b.nodes[x].id = id
      BY <2>1 DEF Holds
    <3>2. PICK z \in DOMAIN w : w[z] = b.nodes[x]
      BY <1>1, <1>7, <3>1, WithoutWho
    <3>3. \E y \in DOMAIN c.nodes : c.nodes[y] = b.nodes[x]
      <4> HIDE DEF w
      <4>1. \A s \in DOMAIN w :
              \E y \in DOMAIN (<<node>> \o w) : (<<node>> \o w)[y] = w[s]
        BY <1>1, FrontWho
      <4> QED BY <1>2, <3>2, <4>1
    <3>4. b.nodes[x] \in ObjectsOf(b) /\ b.nodes[x] \in ObjectsOf(c)
      BY <3>3 DEF ObjectsOf
    <3> QED BY <1>1, <3>1, <3>4, FetchObject
  <2>2. CASE ~Holds(b.nodes, id)
    <3>1. ~Holds(c.nodes, id)
      BY <1>4, <1>7, <2>2
    <3> QED BY <1>2, <2>2, <3>1 DEF Fetch
  <2> QED BY <2>1, <2>2
<1> QED BY <1>3, <1>4, <1>6, <1>7 DEF c

\* save without room: the contact waits in the cache. It was there, or there
\* was room, or the one at the end of the cache is forgotten.
LEMMA SaveWithoutRoom ==
  ASSUME NEW b \in Bucket, BucketOK(b), NEW node \in Node, ~Saved(b, node)
  PROVE  /\ ~Holds(b.nodes, node.id) /\ Len(b.nodes) = NodesPerBucket
         /\ Save(b, node).nodes = b.nodes
         /\ \/ /\ \/ CacheHolds(b, node.id)
                  \/ Len(b.cacheIds) < NodesPerBucket
               /\ \A id \in NodeId :
                    Fetch(Save(b, node), id)
                      = IF id = node.id THEN node ELSE Fetch(b, id)
            \/ /\ ~CacheHolds(b, node.id)
               /\ Len(b.cacheIds) = NodesPerBucket
               /\ \E lost \in NodeId :
                    /\ CacheHolds(b, lost)
                    /\ lost = b.cacheIds[Len(b.cacheIds)]
                    /\ \A id \in NodeId :
                         Fetch(Save(b, node), id)
                           = IF id = node.id THEN node
                             ELSE IF id = lost THEN NoNode ELSE Fetch(b, id)
<1> DEFINE c == Save(b, node)
<1>f. /\ b = [nodes |-> b.nodes, cacheIds |-> b.cacheIds,
              cacheNodes |-> b.cacheNodes]
      /\ b.nodes \in Seq(Node) /\ b.cacheIds \in Seq(NodeId)
      /\ b.cacheNodes \in [NodeId -> Node \cup {NoNode}]
      /\ Len(b.nodes) \in Nat /\ Len(b.nodes) <= NodesPerBucket
      /\ Len(b.cacheIds) \in Nat /\ Len(b.cacheIds) <= NodesPerBucket
      /\ DOMAIN b.cacheIds = 1 .. Len(b.cacheIds)
      /\ NodesPerBucket \in Nat \ {0} /\ node.id \in NodeId
  BY BucketFacts DEF Node
<1>1. ~Holds(b.nodes, node.id) /\ Len(b.nodes) = NodesPerBucket
  <2>1. Holds(b.nodes, node.id) =>
          Len(Without(b.nodes, node.id)) = Len(b.nodes) - 1
    BY <1>f, WithoutFacts DEF BucketOK, DistinctIds
  <2>2. ~Holds(b.nodes, node.id) => Without(b.nodes, node.id) = b.nodes
    BY DEF Without
  <2> QED BY <1>f, <2>1, <2>2 DEF Saved
<1>2. c = CachePush(b, node)
  <2>1. Without(b.nodes, node.id) = b.nodes
    BY <1>1 DEF Without
  <2>2. [b EXCEPT !.nodes = Without(@, node.id)] = b
    BY <1>f, <2>1
  <2> QED BY <2>2 DEF Save
<1>3. CASE CacheHolds(b, node.id)
  <2> DEFINE p == CachePlaceLost(b, node)
  <2>1. b.cacheIds[p] = node.id
    <3>1. PICK z \in 1 .. Len(b.cacheIds) : b.cacheIds[z] = node.id
      BY <1>f, <1>3 DEF CacheHolds
    <3>2. \A s \in 1 .. z - 1 : b.cacheIds[s] # node.id
      BY <1>f, <3>1 DEF BucketOK, DistinctIds
    <3>3. b.cacheIds[CachePlaceOf(b, node.id)] = node.id
      BY <1>f, <3>1, <3>2 DEF CachePlaceOf
    <3> QED BY <1>3, <3>3 DEF CachePlaceLost
  <2>2. /\ c.nodes = b.nodes
        /\ c.cacheNodes = [b.cacheNodes EXCEPT ![b.cacheIds[p]] = NoNode,
                                               ![node.id] = node]
    BY <1>f, <1>2, <1>3 DEF CachePush
  <2> HIDE DEF p, c
  <2>3. \A id \in NodeId :
          c.cacheNodes[id] = IF id = node.id THEN node ELSE b.cacheNodes[id]
    BY <1>f, <2>1, <2>2
  <2>4. \A id \in NodeId :
          Fetch(c, id) = IF id = node.id THEN node ELSE Fetch(b, id)
    BY <1>1, <2>2, <2>3 DEF Fetch
  <2> QED BY <1>1, <1>3, <2>2, <2>4 DEF c
<1>4. CASE ~CacheHolds(b, node.id) /\ Len(b.cacheIds) < NodesPerBucket
  <2>1. /\ c.nodes = b.nodes
        /\ c.cacheNodes = [b.cacheNodes EXCEPT ![node.id] = node]
    BY <1>f, <1>2, <1>4 DEF CachePush
  <2> HIDE DEF c
  <2>2. \A id \in NodeId :
          c.cacheNodes[id] = IF id = node.id THEN node ELSE b.cacheNodes[id]
    BY <1>f, <2>1
  <2>3. \A id \in NodeId :
          Fetch(c, id) = IF id = node.id THEN node ELSE Fetch(b, id)
    BY <1>1, <2>1, <2>2 DEF Fetch
  <2> QED BY <1>1, <1>4, <2>1, <2>3 DEF c
<1>5. CASE ~CacheHolds(b, node.id) /\ Len(b.cacheIds) = NodesPerBucket
  <2> DEFINE lost == b.cacheIds[Len(b.cacheIds)]
  <2>1. lost \in NodeId /\ CacheHolds(b, lost)
    BY <1>f, <1>5, BucketFacts DEF CacheHolds
  <2>2. /\ c.nodes = b.nodes
        /\ c.cacheNodes = [b.cacheNodes EXCEPT ![lost] = NoNode,
                                               ![node.id] = node]
    BY <1>f, <1>2, <1>5 DEF CachePush, CachePlaceLost
  <2> HIDE DEF c, lost
  <2>3. \A id \in NodeId :
          c.cacheNodes[id] = IF id = node.id THEN node
                             ELSE IF id = lost THEN NoNode
                             ELSE b.cacheNodes[id]
    BY <1>f, <2>1, <2>2
  <2>4. ~Holds(b.nodes, lost)
    BY <2>1 DEF BucketOK, LiveXorCached, Holds
  <2>5. \A id \in NodeId :
          Fetch(c, id) = IF id = node.id THEN node
                         ELSE IF id = lost THEN NoNode ELSE Fetch(b, id)
    BY <1>1, <2>2, <2>3, <2>4 DEF Fetch
  <2> QED BY <1>1, <1>5, <2>1, <2>2, <2>5 DEF c, lost
<1> QED BY <1>f, <1>3, <1>4, <1>5

\* An id is known to a bucket, or the bucket has no room for it: save leaves
\* it so, and makes it so of the contact it files.
KnownOrFull(b, id) == Fetch(b, id) # NoNode \/ Len(b.nodes) = NodesPerBucket

LEMMA SaveKnows ==
  ASSUME NEW b \in Bucket, BucketOK(b), NEW node \in Node, NEW id \in NodeId,
         id = node.id \/ KnownOrFull(b, id)
  PROVE  KnownOrFull(Save(b, node), id)
<1>1. CASE Saved(b, node)
  <2>1. CASE id = node.id \/ Fetch(b, id) # NoNode
    BY <1>1, <2>1, SaveWithRoom, BucketAssumption DEF KnownOrFull, Node
  <2>2. CASE Len(b.nodes) = NodesPerBucket
    <3>1. Holds(b.nodes, node.id)
      BY <1>1, <2>2, SaveWithRoom, BucketFacts
    <3>2. /\ Save(b, node).nodes = <<node>> \o Without(b.nodes, node.id)
          /\ Len(Without(b.nodes, node.id)) = Len(b.nodes) - 1
          /\ Without(b.nodes, node.id) \in Seq(Node)
      BY <1>1, <3>1, BucketFacts, WithoutFacts DEF Save, BucketOK, DistinctIds
    <3>3. Len(Save(b, node).nodes) = NodesPerBucket
      BY <2>2, <3>2, InFrontFacts, BucketFacts
    <3>4. QED BY <3>3 DEF KnownOrFull
  <2>3. QED BY <2>1, <2>2 DEF KnownOrFull
<1>2. CASE ~Saved(b, node)
  BY <1>2, SaveWithoutRoom DEF KnownOrFull
<1>3. QED BY <1>1, <1>2

-----------------------------------------------------------------------------
(* The table.                                                              *)

\* A bucket of a new table is typed and well formed.
LEMMA EmptyBucketOK == EmptyBucket \in Bucket /\ BucketOK(EmptyBucket)
<1>1. EmptyBucket \in Bucket
  BY DEF EmptyBucket, Bucket
<1>2. /\ EmptyBucket.nodes = <<>> /\ EmptyBucket.cacheIds = <<>>
      /\ \A id \in NodeId : EmptyBucket.cacheNodes[id] = NoNode
      /\ NodesPerBucket \in Nat \ {0}
  BY BucketAssumption DEF EmptyBucket
<1>3. DOMAIN EmptyBucket.nodes = {} /\ DOMAIN EmptyBucket.cacheIds = {}
  BY <1>2
<1>4. DistinctIds(EmptyBucket) /\ LiveXorCached(EmptyBucket)
  BY <1>3 DEF DistinctIds, LiveXorCached
<1>5. CacheInSync(EmptyBucket)
  BY <1>2, <1>3 DEF CacheInSync, CacheHolds
<1>6. WithinRoom(EmptyBucket) /\ CacheOnlyBehindFullList(EmptyBucket)
  BY <1>2 DEF WithinRoom, CacheOnlyBehindFullList
<1> QED BY <1>1, <1>4, <1>5, <1>6 DEF BucketOK

\* Every id has a bucket, and every key: the number stays in range at both
\* ends, for the owner's own id as well as for one that differs in every bit.
LEMMA AnyBucketInRange ==
  ASSUME NEW root \in NodeId, NEW id \in SUBSET (0 .. IdBits - 1)
  PROVE  BucketOf(root, id) \in BucketIds
<1> DEFINE distance == Xor(id, root)
<1>1. /\ distance \subseteq 0 .. IdBits - 1
      /\ IdBits \in Nat /\ NumBuckets \in Nat \ {0}
  BY TableAssumption DEF Xor
<1>2. IsFiniteSet(0 .. IdBits - 1) /\ Cardinality(0 .. IdBits - 1) = IdBits
  <2>1. 0 \in Int /\ IdBits - 1 \in Int
    BY <1>1
  <2>2. /\ IsFiniteSet(0 .. IdBits - 1)
        /\ Cardinality(0 .. IdBits - 1)
             = IF 0 > IdBits - 1 THEN 0 ELSE IdBits - 1 - 0 + 1
    BY <2>1, FS_Interval
  <2> QED BY <1>1, <2>2
<1>3. Cardinality(distance) \in Nat /\ Cardinality(distance) <= IdBits
  BY <1>1, <1>2, FS_Subset, FS_CardinalityType
<1> HIDE DEF distance
<1>4. BucketIndex(distance) \in 0 .. NumBuckets - 1
  BY <1>1, <1>3 DEF BucketIndex
<1> QED BY <1>4 DEF BucketOf, BucketIds, distance

LEMMA BucketInRange ==
  ASSUME NEW root \in NodeId, NEW id \in NodeId
  PROVE  BucketOf(root, id) \in BucketIds
BY AnyBucketInRange, TableAssumption

\* What holds of a table between two calls: everyone in it has the bucket of
\* their distance to the owner, who is not in it.
TableOK(table, root) ==
  /\ table \in Table
  /\ \A i \in BucketIds :
       /\ BucketOK(table[i])
       /\ \A id \in IdsIn(table[i]) : id # root /\ BucketOf(root, id) = i

LEMMA EmptyTableOK ==
  ASSUME NEW root
  PROVE  TableOK(EmptyTable, root)
<1>1. \A i \in BucketIds : EmptyTable[i] = EmptyBucket
  BY DEF EmptyTable
<1>2. IdsIn(EmptyBucket) = {}
  BY DEF EmptyBucket, IdsIn
<1>3. QED BY <1>1, <1>2, EmptyBucketOK DEF EmptyTable, Table, TableOK

\* One bucket becomes another.
LEMMA OneBucketChanges ==
  ASSUME NEW table, NEW root, TableOK(table, root), NEW j \in BucketIds,
         NEW c \in Bucket, BucketOK(c),
         \A id \in IdsIn(c) : id # root /\ BucketOf(root, id) = j
  PROVE  TableOK([table EXCEPT ![j] = c], root)
BY DEF TableOK, Table

\* addCandidate, of the owner or another, leaves no object but those that were
\* there and the one filed.
LEMMA TableWithOK ==
  ASSUME NEW table, NEW root \in NodeId, TableOK(table, root), NEW node \in Node
  PROVE  /\ TableOK(TableWith(table, root, node), root)
         /\ \A i \in BucketIds :
              \A o \in ObjectsOf(TableWith(table, root, node)[i]) :
                o = node \/ o \in ObjectsOf(table[i])
<1>1. CASE node.id = root
  BY <1>1 DEF TableWith
<1>2. CASE node.id # root
  <2> DEFINE j == BucketOf(root, node.id)
             c == Save(table[j], node)
  <2>1. j \in BucketIds /\ node.id \in NodeId
    BY BucketInRange DEF Node
  <2>2. /\ table[j] \in Bucket /\ BucketOK(table[j]) /\ table \in Table
        /\ \A id \in IdsIn(table[j]) : id # root /\ BucketOf(root, id) = j
    BY <2>1 DEF TableOK, Table
  <2>3. /\ c \in Bucket /\ BucketOK(c)
        /\ IdsIn(c) \subseteq IdsIn(table[j]) \cup {node.id}
        /\ \A o \in ObjectsOf(c) : o = node \/ o \in ObjectsOf(table[j])
    BY <2>2, SaveFacts, SaveObjects
  <2>4. TableWith(table, root, node) = [table EXCEPT ![j] = c]
    BY <1>2, <2>1, <2>2 DEF TableWith, Table
  <2>5. \A id \in IdsIn(c) : id # root /\ BucketOf(root, id) = j
    BY <1>2, <2>2, <2>3
  <2> HIDE DEF j, c
  <2>6. TableOK([table EXCEPT ![j] = c], root)
    BY <2>1, <2>3, <2>5, OneBucketChanges
  <2>7. \A i \in BucketIds :
          TableWith(table, root, node)[i] = IF i = j THEN c ELSE table[i]
    BY <2>1, <2>2, <2>4 DEF Table
  <2>8. QED BY <2>3, <2>4, <2>6, <2>7
<1>3. QED BY <1>1, <1>2

\* removeNode, of a contact that is there or not, brings nothing.
LEMMA TableWithoutOK ==
  ASSUME NEW table, NEW root \in NodeId, TableOK(table, root), NEW id \in NodeId
  PROVE  /\ TableOK(TableWithout(table, root, id), root)
         /\ \A i \in BucketIds :
              ObjectsOf(TableWithout(table, root, id)[i])
                \subseteq ObjectsOf(table[i])
<1> DEFINE j == BucketOf(root, id)
           c == RemoveContact(table[j], id)
<1>1. j \in BucketIds
  BY BucketInRange
<1>2. /\ table[j] \in Bucket /\ BucketOK(table[j]) /\ table \in Table
      /\ \A x \in IdsIn(table[j]) : x # root /\ BucketOf(root, x) = j
  BY <1>1 DEF TableOK, Table
<1>3. /\ c \in Bucket /\ BucketOK(c) /\ IdsIn(c) \subseteq IdsIn(table[j])
      /\ ObjectsOf(c) \subseteq ObjectsOf(table[j])
  BY <1>2, RemoveContactFacts, RemoveObjects
<1>4. TableWithout(table, root, id) = [table EXCEPT ![j] = c]
  BY <1>1, <1>2 DEF TableWithout, Table
<1> HIDE DEF j, c
<1>5. TableOK([table EXCEPT ![j] = c], root)
  <2>1. \A x \in IdsIn(c) : x # root /\ BucketOf(root, x) = j
    BY <1>2, <1>3
  <2>2. QED BY <1>1, <1>3, <2>1, OneBucketChanges
<1>6. \A i \in BucketIds :
        TableWithout(table, root, id)[i] = IF i = j THEN c ELSE table[i]
  BY <1>1, <1>2, <1>4 DEF Table
<1>7. QED BY <1>3, <1>4, <1>5, <1>6

\* What fetch finds in the table is of the id it was asked for.
LEMMA GetNodeFacts ==
  ASSUME NEW table, NEW root \in NodeId, TableOK(table, root),
         NEW id \in NodeId, GetNode(table, root, id) # NoNode
  PROVE  /\ BucketOf(root, id) \in BucketIds
         /\ GetNode(table, root, id) \in ObjectsOf(table[BucketOf(root, id)])
         /\ GetNode(table, root, id) \in Node
         /\ GetNode(table, root, id).id = id
<1> DEFINE b == table[BucketOf(root, id)]
<1>1. BucketOf(root, id) \in BucketIds
  BY BucketInRange
<1>2. b \in Bucket /\ BucketOK(b)
  BY <1>1 DEF TableOK, Table
<1>3. Fetch(b, id) \in ObjectsOf(b) /\ Fetch(b, id).id = id
  BY <1>2, FetchFacts DEF GetNode
<1>4. Fetch(b, id) \in Node
  BY <1>2, <1>3, BucketFacts DEF ObjectsOf
<1>5. QED BY <1>1, <1>3, <1>4 DEF GetNode

-----------------------------------------------------------------------------
(* Induction. The library's theorems have an operator for a parameter; the *)
(* set of the numbers for which something holds does as well.              *)

LEMMA LeastOf ==
  ASSUME NEW S, S \subseteq Nat, S # {}
  PROVE  \E n \in S : \A m \in S : n <= m
<1> DEFINE R == OpToRel(<, Nat)
<1>1. IsWellFoundedOn(R, Nat)
  BY NatLessThanWellFounded
<1>2. \A i, j \in Nat : <<i, j>> \in R <=> i < j
  BY DEF OpToRel
<1> HIDE DEF R
<1>3. PICK n \in S : \A m \in S : <<m, n>> \notin R
  BY <1>1, WFMin
<1>4. ASSUME NEW m \in S PROVE n <= m
  <2>1. m \in Nat /\ n \in Nat
    OBVIOUS
  <2>2. ~(m < n)
    BY <1>2, <1>3, <2>1
  <2>3. QED BY <2>1, <2>2
<1>5. QED BY <1>4

LEMMA SetInduction ==
  ASSUME NEW S, 0 \in S, \A n \in Nat : n \in S => n + 1 \in S
  PROVE  Nat \subseteq S
<1> SUFFICES ASSUME Nat \ S # {} PROVE FALSE
  OBVIOUS
<1>1. PICK n \in Nat \ S : \A m \in Nat \ S : n <= m
  BY LeastOf
<1>2. QED BY <1>1

-----------------------------------------------------------------------------
(* getClosestNodes.                                                        *)

Enough(w, amount) == Len(w.nodes) >= amount \/ w.visited = NumBuckets

Visit(table, w) ==
  IF w.at \in BucketIds
  THEN [w EXCEPT !.nodes = @ \o table[w.at].nodes, !.visited = @ + 1]
  ELSE w

Further(table, amount, w, t) ==
  IF Enough(w, amount) THEN w
  ELSE [Visit(table, w) EXCEPT !.at = Turn(@, t)]

Walked(table, start, amount, walk, last) ==
  walk = [t \in 0 .. last |->
            IF t = 0 THEN start ELSE Further(table, amount, walk[t - 1], t - 1)]

Starting(root, subject) ==
  [at |-> BucketOf(root, subject), visited |-> 0, nodes |-> <<>>]

\* There is a function as the code's loop describes it.
LEMMA WalkExists ==
  ASSUME NEW table, NEW start, NEW amount, NEW last \in Nat
  PROVE  \E walk : Walked(table, start, amount, walk, last)
<1> DEFINE S == {n \in Nat : \E walk : Walked(table, start, amount, walk, n)}
<1>1. 0 \in S
  <2>1. Walked(table, start, amount, [t \in 0 .. 0 |-> start], 0)
    BY DEF Walked
  <2>2. QED BY <2>1
<1>2. ASSUME NEW n \in Nat, n \in S
      PROVE  n + 1 \in S
  <2>1. PICK walk : Walked(table, start, amount, walk, n)
    BY <1>2
  <2> DEFINE longer == [t \in 0 .. n + 1 |->
               IF t = n + 1 THEN Further(table, amount, walk[n], n) ELSE walk[t]]
  <2>2. \A t \in 0 .. n :
          walk[t] = IF t = 0 THEN start
                    ELSE Further(table, amount, walk[t - 1], t - 1)
    BY <2>1 DEF Walked
  <2>3. \A t \in 0 .. n : longer[t] = walk[t]
    OBVIOUS
  <2>4. \A t \in 0 .. n + 1 :
          longer[t] = IF t = 0 THEN start
                      ELSE Further(table, amount, longer[t - 1], t - 1)
    <3> TAKE t \in 0 .. n + 1
    <3>1. CASE t = n + 1
      BY <2>3, <3>1
    <3>2. CASE t # n + 1
      <4>1. t \in 0 .. n /\ (t # 0 => t - 1 \in 0 .. n)
        BY <3>2
      <4> HIDE DEF longer
      <4>2. QED BY <2>2, <2>3, <4>1
    <3>3. QED BY <3>1, <3>2
  <2>5. DOMAIN longer = 0 .. n + 1 /\ longer = [t \in 0 .. n + 1 |-> longer[t]]
    OBVIOUS
  <2> HIDE DEF longer
  <2>6. Walked(table, start, amount, longer, n + 1)
    BY <2>4, <2>5 DEF Walked
  <2>7. QED BY <2>6
<1> HIDE DEF S
<1>3. last \in S
  BY <1>1, <1>2, SetInduction
<1>4. QED BY <1>3 DEF S

LEMMA WalkIs ==
  ASSUME NEW table, NEW root, NEW subject, NEW amount
  PROVE  \E walk :
           /\ Walked(table, Starting(root, subject), amount, walk, 2 * NumBuckets)
           /\ GetClosestNodes(table, root, subject, amount)
                = walk[2 * NumBuckets].nodes
<1> DEFINE start == Starting(root, subject)
           walk[t \in 0 .. 2 * NumBuckets] ==
             IF t = 0 THEN start ELSE Further(table, amount, walk[t - 1], t - 1)
<1>1. GetClosestNodes(table, root, subject, amount)
        = walk[2 * NumBuckets].nodes
  BY DEF GetClosestNodes, Starting, Further, Visit, Enough
<1>2. \E w : w = [t \in 0 .. 2 * NumBuckets |->
                    IF t = 0 THEN start
                    ELSE Further(table, amount, w[t - 1], t - 1)]
  <2>1. 2 * NumBuckets \in Nat
    BY TableAssumption
  <2> HIDE DEF start
  <2>2. PICK w : Walked(table, start, amount, w, 2 * NumBuckets)
    BY <2>1, WalkExists
  <2>3. QED BY <2>2 DEF Walked
<1>3. walk = [t \in 0 .. 2 * NumBuckets |->
                IF t = 0 THEN start
                ELSE Further(table, amount, walk[t - 1], t - 1)]
  BY <1>2
<1> HIDE DEF walk
<1>4. QED BY <1>1, <1>3 DEF Walked

\* The turn in which the walk is at each bucket.
Rank(centre, at) ==
  IF at >= centre THEN 2 * (at - centre) ELSE 2 * (centre - at) - 1

LEMMA RankFacts ==
  ASSUME NEW centre \in Int, NEW at \in Int
  PROVE  /\ Rank(centre, at) \in Nat
         /\ Rank(centre, centre) = 0
         /\ Rank(centre, Turn(at, Rank(centre, at))) = Rank(centre, at) + 1
         /\ \A t \in Nat : Turn(at, t) \in Int
         /\ \A i \in Int : Rank(centre, i) = Rank(centre, at) => i = at
         /\ centre \in BucketIds /\ at \in BucketIds =>
              Rank(centre, at) < 2 * NumBuckets
<1>1. Rank(centre, at) \in Nat /\ Rank(centre, centre) = 0
  BY DEF Rank
<1>2. CASE at >= centre
  <2> DEFINE d == at - centre
  <2>1. Rank(centre, at) = 2 * d /\ d \in Nat /\ at = centre + d
    BY <1>2 DEF Rank
  <2> HIDE DEF d
  <2>2. (2 * d) % 2 = 0
    BY <2>1
  <2>3. Turn(at, 2 * d) = centre - (d + 1)
    BY <2>1, <2>2 DEF Turn
  <2>4. Rank(centre, centre - (d + 1)) = 2 * d + 1
    BY <2>1 DEF Rank
  <2>5. QED BY <1>1, <2>1, <2>3, <2>4, <1>2, TableAssumption
            DEF Rank, Turn, BucketIds
<1>3. CASE at < centre
  <2> DEFINE d == centre - at
  <2>1. Rank(centre, at) = 2 * d - 1 /\ d \in Nat \ {0} /\ at = centre - d
    BY <1>3 DEF Rank
  <2> HIDE DEF d
  <2>2. (2 * d - 1) % 2 = 1
    BY <2>1
  <2>3. Turn(at, 2 * d - 1) = centre + d
    BY <2>1, <2>2 DEF Turn
  <2>4. Rank(centre, centre + d) = 2 * d
    BY <2>1 DEF Rank
  <2>5. QED BY <1>1, <2>1, <2>3, <2>4, <1>3, TableAssumption
            DEF Rank, Turn, BucketIds
<1>4. QED BY <1>2, <1>3

\* What one sequence behind another holds.
LEMMA BehindFacts ==
  ASSUME NEW S, NEW s \in Seq(S), NEW r \in Seq(S)
  PROVE  /\ s \o r \in Seq(S) /\ Len(s \o r) = Len(s) + Len(r)
         /\ ToSet(s \o r) = ToSet(s) \cup ToSet(r)
         /\ \A x \in DOMAIN (s \o r) :
              \/ x \in DOMAIN s /\ (s \o r)[x] = s[x]
              \/ /\ x \notin DOMAIN s /\ x - Len(s) \in DOMAIN r
                 /\ (s \o r)[x] = r[x - Len(s)]
<1>1. /\ Len(s) \in Nat /\ DOMAIN s = 1 .. Len(s)
      /\ Len(r) \in Nat /\ DOMAIN r = 1 .. Len(r)
  BY LenProperties
<1>2. /\ s \o r \in Seq(S) /\ Len(s \o r) = Len(s) + Len(r)
      /\ \A i \in 1 .. Len(s) + Len(r) :
           (s \o r)[i] = IF i <= Len(s) THEN s[i] ELSE r[i - Len(s)]
  BY ConcatProperties
<1>3. DOMAIN (s \o r) = 1 .. Len(s) + Len(r)
  BY <1>2, LenProperties
<1> DEFINE q == s \o r
<1> HIDE DEF q
<1>4. \A x \in DOMAIN q :
        \/ x \in DOMAIN s /\ q[x] = s[x]
        \/ x \notin DOMAIN s /\ x - Len(s) \in DOMAIN r /\ q[x] = r[x - Len(s)]
  BY <1>1, <1>2, <1>3 DEF q
<1>5. ToSet(q) = ToSet(s) \cup ToSet(r)
  <2>1. \A x \in DOMAIN s : x \in DOMAIN q /\ q[x] = s[x]
    BY <1>1, <1>2, <1>3 DEF q
  <2>2. \A y \in DOMAIN r : Len(s) + y \in DOMAIN q /\ q[Len(s) + y] = r[y]
    BY <1>1, <1>2, <1>3 DEF q
  <2>3. QED BY <1>4, <2>1, <2>2 DEF ToSet
<1>6. QED BY <1>2, <1>4, <1>5 DEF q

Before(centre, m) == {i \in BucketIds : Rank(centre, i) < m}

\* What the walk has collected when it is at its bucket: everyone in the
\* buckets before, once.
WalkOK(table, centre, amount, w, t) ==
  LET m == Rank(centre, w.at)
  IN /\ w \in [at : Int, visited : Nat, nodes : Seq(Node)]
     /\ m <= t /\ (m = t \/ Enough(w, amount))
     /\ w.visited = Cardinality(Before(centre, m))
     /\ Distinct(w.nodes)
     /\ ToSet(w.nodes) = UNION {ToSet(table[i].nodes) : i \in Before(centre, m)}

LEMMA BucketIdsFacts ==
  /\ NumBuckets \in Nat \ {0}
  /\ IsFiniteSet(BucketIds) /\ Cardinality(BucketIds) = NumBuckets
  /\ \A i \in BucketIds : i \in Int
<1>1. NumBuckets \in Nat \ {0}
  BY TableAssumption
<1>2. QED BY <1>1, FS_Interval DEF BucketIds

\* One more bucket is behind the walk: the one it is at, if there is one.
LEMMA BeforeFacts ==
  ASSUME NEW centre \in BucketIds, NEW at \in Int
  PROVE  LET m == Rank(centre, at)
         IN /\ IsFiniteSet(Before(centre, m)) /\ IsFiniteSet(Before(centre, m + 1))
            /\ IF at \in BucketIds
               THEN /\ Before(centre, m + 1) = Before(centre, m) \cup {at}
                    /\ at \notin Before(centre, m)
                    /\ Cardinality(Before(centre, m + 1))
                         = Cardinality(Before(centre, m)) + 1
               ELSE Before(centre, m + 1) = Before(centre, m)
<1> DEFINE m == Rank(centre, at)
<1>1. m \in Nat /\ centre \in Int /\ \A i \in BucketIds : Rank(centre, i) \in Nat
  BY RankFacts, BucketIdsFacts
<1>2. \A i \in BucketIds : Rank(centre, i) = m <=> i = at
  BY RankFacts, BucketIdsFacts
<1>3. IsFiniteSet(Before(centre, m)) /\ IsFiniteSet(Before(centre, m + 1))
  BY BucketIdsFacts, FS_Subset DEF Before
<1>4. \A i \in BucketIds : Rank(centre, i) < m + 1 <=> Rank(centre, i) < m \/ i = at
  <2> HIDE DEF m
  <2>1. QED BY <1>1, <1>2
<1>5. at \notin Before(centre, m)
  <2>1. Rank(centre, at) = m
    OBVIOUS
  <2> HIDE DEF m
  <2>2. QED BY <1>1, <2>1 DEF Before
<1> HIDE DEF m
<1>6. CASE at \in BucketIds
  <2>1. Before(centre, m + 1) = Before(centre, m) \cup {at}
    BY <1>4, <1>6 DEF Before
  <2>2. QED BY <1>3, <1>5, <1>6, <2>1, FS_AddElement DEF m
<1>7. CASE at \notin BucketIds
  <2>1. Before(centre, m + 1) = Before(centre, m)
    BY <1>4, <1>7 DEF Before
  <2>2. QED BY <1>3, <1>7, <2>1 DEF m
<1>8. QED BY <1>6, <1>7

LEMMA WalkStarts ==
  ASSUME NEW table, NEW root, NEW subject, BucketOf(root, subject) \in BucketIds,
         NEW amount
  PROVE  WalkOK(table, BucketOf(root, subject), amount,
                Starting(root, subject), 0)
<1> DEFINE c == BucketOf(root, subject)
           w == Starting(root, subject)
<1>1. /\ w \in [at : Int, visited : Nat, nodes : Seq(Node)]
      /\ w.at = c /\ w.visited = 0 /\ w.nodes = <<>>
  BY BucketIdsFacts DEF Starting
<1>2. Rank(c, c) = 0 /\ \A i \in BucketIds : Rank(c, i) \in Nat
  BY RankFacts, BucketIdsFacts
<1>3. Before(c, 0) = {} /\ Cardinality({}) = 0
  <2>1. \A i \in BucketIds : ~(Rank(c, i) < 0)
    BY <1>2
  <2>2. QED BY <2>1, FS_EmptySet DEF Before
<1>4. DOMAIN w.nodes = {} /\ ToSet(w.nodes) = {}
  BY <1>1 DEF ToSet
<1> HIDE DEF w, c
<1>5. UNION {ToSet(table[i].nodes) : i \in Before(c, 0)} = {}
  BY <1>3
<1>6. Distinct(w.nodes)
  BY <1>4 DEF Distinct
<1>7. Rank(c, w.at) = 0
  BY <1>1, <1>2
<1>8. WalkOK(table, c, amount, w, 0)
  <2> DEFINE m == Rank(c, w.at)
  <2>1. /\ m <= 0 /\ m = 0 /\ w.visited = Cardinality(Before(c, m))
        /\ ToSet(w.nodes) = UNION {ToSet(table[i].nodes) : i \in Before(c, m)}
    <3>1. m = 0
      BY <1>7
    <3> HIDE DEF m
    <3>2. Before(c, m) = Before(c, 0) /\ m <= 0
      BY <3>1
    <3>3. w.visited = Cardinality(Before(c, m))
      BY <1>1, <1>3, <3>2, Zenon
    <3>4. ToSet(w.nodes) = UNION {ToSet(table[i].nodes) : i \in Before(c, m)}
      BY <1>4, <1>5, <3>2, Zenon
    <3>5. QED BY <3>1, <3>2, <3>3, <3>4, Zenon
  <2>2. QED BY <1>1, <1>6, <2>1 DEF WalkOK
<1>9. QED BY <1>8 DEF w, c

\* The walk visits the bucket it is at and turns.
LEMMA WalkGoesOn ==
  ASSUME NEW table, NEW root, TableOK(table, root), NEW centre \in BucketIds,
         NEW amount, NEW t \in Nat, NEW w, WalkOK(table, centre, amount, w, t)
  PROVE  WalkOK(table, centre, amount, Further(table, amount, w, t), t + 1)
<1> DEFINE m == Rank(centre, w.at)
           v == Visit(table, w)
           f == Further(table, amount, w, t)
<1>1. /\ w \in [at : Int, visited : Nat, nodes : Seq(Node)]
      /\ m \in Nat /\ m <= t /\ centre \in Int
  BY RankFacts, BucketIdsFacts DEF WalkOK
<1>2. CASE Enough(w, amount)
  <2>1. f = w
    BY <1>2 DEF Further
  <2>2. m <= t + 1
    BY <1>1
  <2> HIDE DEF f
  <2>3. QED BY <1>1, <1>2, <2>1, <2>2 DEF WalkOK, f
<1>3. CASE ~Enough(w, amount)
  <2>1. m = t /\ f = [v EXCEPT !.at = Turn(@, t)]
    BY <1>3 DEF WalkOK, Further
  <2>2. /\ w.visited = Cardinality(Before(centre, m)) /\ Distinct(w.nodes)
        /\ ToSet(w.nodes) = UNION {ToSet(table[i].nodes) : i \in Before(centre, m)}
    BY DEF WalkOK
  <2>3. /\ v \in [at : Int, visited : Nat, nodes : Seq(Node)] /\ v.at = w.at
        /\ v.visited = Cardinality(Before(centre, m + 1))
        /\ ToSet(v.nodes)
             = UNION {ToSet(table[i].nodes) : i \in Before(centre, m + 1)}
        /\ Distinct(v.nodes)
    <3>1. CASE w.at \notin BucketIds
      <4>1. v = w /\ Before(centre, m + 1) = Before(centre, m)
        BY <1>1, <3>1, BeforeFacts DEF Visit
      <4> HIDE DEF v, m
      <4>2. QED BY <1>1, <2>2, <4>1
    <3>2. CASE w.at \in BucketIds
      <4> DEFINE new == table[w.at].nodes
      <4>1. /\ table[w.at] \in Bucket /\ BucketOK(table[w.at])
            /\ \A id \in IdsIn(table[w.at]) : BucketOf(root, id) = w.at
        BY <3>2 DEF TableOK, Table
      <4>2. new \in Seq(Node) /\ Distinct(new)
            /\ \A x \in DOMAIN new : new[x].id \in IdsIn(table[w.at])
        BY <4>1, BucketFacts DEF BucketOK, DistinctIds, Distinct, IdsIn
      <4>3. /\ v.at = w.at /\ v.visited = w.visited + 1 /\ v.nodes = w.nodes \o new
            /\ v = [at |-> w.at, visited |-> w.visited + 1,
                    nodes |-> w.nodes \o new]
        BY <1>1, <3>2 DEF Visit
      <4>4. /\ Before(centre, m + 1) = Before(centre, m) \cup {w.at}
            /\ w.at \notin Before(centre, m)
            /\ Cardinality(Before(centre, m + 1))
                 = Cardinality(Before(centre, m)) + 1
        BY <1>1, <3>2, BeforeFacts
      <4> HIDE DEF v, m
      <4>5. /\ w.nodes \o new \in Seq(Node)
            /\ ToSet(w.nodes \o new) = ToSet(w.nodes) \cup ToSet(new)
        BY <1>1, <4>2, BehindFacts
      <4>6. ToSet(v.nodes)
              = UNION {ToSet(table[i].nodes) : i \in Before(centre, m + 1)}
        BY <2>2, <4>3, <4>4, <4>5
      <4>7. ASSUME NEW x \in DOMAIN w.nodes, NEW y \in DOMAIN new
            PROVE  w.nodes[x].id # new[y].id
        <5>1. w.nodes[x] \in ToSet(w.nodes)
          BY DEF ToSet
        <5>2. PICK i \in Before(centre, m) : w.nodes[x] \in ToSet(table[i].nodes)
          BY <2>2, <5>1
        <5>3. /\ i \in BucketIds /\ w.nodes[x].id \in IdsIn(table[i])
              /\ BucketOf(root, w.nodes[x].id) = i
          BY <5>2 DEF Before, ToSet, IdsIn, TableOK
        <5>4. QED BY <4>1, <4>2, <4>4, <5>2, <5>3
      <4>8. Distinct(w.nodes \o new)
        <5> DEFINE q == w.nodes \o new
        <5>1. \A x \in DOMAIN q :
                \/ x \in DOMAIN w.nodes /\ q[x] = w.nodes[x]
                \/ /\ x \in Int /\ x - Len(w.nodes) \in DOMAIN new
                   /\ q[x] = new[x - Len(w.nodes)]
          <6>1. q \in Seq(Node)
            BY <4>5
          <6>2. \A x \in DOMAIN q :
                  \/ x \in DOMAIN w.nodes /\ q[x] = w.nodes[x]
                  \/ /\ x - Len(w.nodes) \in DOMAIN new
                     /\ q[x] = new[x - Len(w.nodes)]
            BY <1>1, <4>2, BehindFacts
          <6> HIDE DEF q
          <6>3. DOMAIN q \subseteq Int
            BY <6>1, LenProperties
          <6>4. QED BY <6>2, <6>3
        <5>2. Len(w.nodes) \in Int
          BY <1>1, LenProperties
        <5> HIDE DEF q, new
        <5>3. SUFFICES ASSUME NEW x \in DOMAIN q, NEW y \in DOMAIN q,
                              q[x].id = q[y].id
                       PROVE  x = y
          BY DEF Distinct, q
        <5>4. CASE x \in DOMAIN w.nodes /\ q[x] = w.nodes[x]
          BY <2>2, <4>7, <5>1, <5>3, <5>4 DEF Distinct
        <5>5. CASE /\ x \in Int /\ x - Len(w.nodes) \in DOMAIN new
                   /\ q[x] = new[x - Len(w.nodes)]
          <6>1. /\ y \in Int /\ y - Len(w.nodes) \in DOMAIN new
                /\ q[y] = new[y - Len(w.nodes)]
            BY <4>7, <5>1, <5>3, <5>5
          <6>2. x - Len(w.nodes) = y - Len(w.nodes)
            BY <4>2, <5>3, <5>5, <6>1 DEF Distinct
          <6>3. QED BY <5>2, <5>5, <6>1, <6>2
        <5>6. QED BY <5>1, <5>4, <5>5
      <4>9. QED BY <1>1, <2>2, <4>3, <4>4, <4>5, <4>6, <4>8
    <3>3. QED BY <3>1, <3>2
  <2>4. Turn(w.at, t) \in Int /\ Rank(centre, Turn(w.at, t)) = t + 1
    BY <1>1, <2>1, RankFacts
  <2> HIDE DEF v, f, m
  <2>5. /\ f \in [at : Int, visited : Nat, nodes : Seq(Node)]
        /\ f.at = Turn(w.at, t) /\ f.visited = v.visited /\ f.nodes = v.nodes
    BY <2>1, <2>3, <2>4
  <2>6. WalkOK(table, centre, amount, f, t + 1)
    BY <2>1, <2>3, <2>4, <2>5 DEF WalkOK
  <2>7. QED BY <2>6 DEF f
<1>4. QED BY <1>2, <1>3

\* What getClosestNodes returns: everyone in the buckets before some turn,
\* once, and enough of them or all.
LEMMA ClosestFacts ==
  ASSUME NEW table, NEW root \in NodeId, TableOK(table, root),
         NEW subject, BucketOf(root, subject) \in BucketIds, NEW amount
  PROVE  LET nodes  == GetClosestNodes(table, root, subject, amount)
             centre == BucketOf(root, subject)
         IN /\ nodes \in Seq(Node) /\ Distinct(nodes) /\ centre \in BucketIds
            /\ \E m \in Nat :
                 /\ ToSet(nodes)
                      = UNION {ToSet(table[i].nodes) : i \in Before(centre, m)}
                 /\ Len(nodes) >= amount \/ Before(centre, m) = BucketIds
<1> DEFINE nodes  == GetClosestNodes(table, root, subject, amount)
           centre == BucketOf(root, subject)
           last   == 2 * NumBuckets
<1>1. PICK walk : /\ Walked(table, Starting(root, subject), amount, walk, last)
                  /\ nodes = walk[last].nodes
  BY WalkIs
<1>2. centre \in BucketIds /\ last \in Nat
  BY BucketIdsFacts
<1>3. \A t \in 0 .. last :
        walk[t] = IF t = 0 THEN Starting(root, subject)
                  ELSE Further(table, amount, walk[t - 1], t - 1)
  BY <1>1 DEF Walked
<1> DEFINE S == {t \in Nat : t <= last => WalkOK(table, centre, amount, walk[t], t)}
<1>4. 0 \in S
  BY <1>2, <1>3, WalkStarts
<1>5. ASSUME NEW t \in Nat, t \in S
      PROVE  t + 1 \in S
  <2> SUFFICES ASSUME t + 1 <= last
               PROVE  WalkOK(table, centre, amount, walk[t + 1], t + 1)
    OBVIOUS
  <2>1. WalkOK(table, centre, amount, walk[t], t)
    BY <1>2, <1>5
  <2>2. walk[t + 1] = Further(table, amount, walk[t], t)
    <3>1. t + 1 \in 0 .. last /\ t + 1 # 0 /\ (t + 1) - 1 = t
      BY <1>2
    <3> HIDE DEF last
    <3>2. QED BY <1>3, <3>1
  <2> HIDE DEF centre, last
  <2>3. QED BY <1>2, <2>1, <2>2, WalkGoesOn
<1> HIDE DEF S
<1>6. last \in S
  BY <1>2, <1>4, <1>5, SetInduction
<1> DEFINE w == walk[last]
           m == Rank(centre, w.at)
<1>7. WalkOK(table, centre, amount, w, last)
  BY <1>2, <1>6 DEF S
<1>8. m \in Nat
  BY <1>2, <1>7, RankFacts, BucketIdsFacts DEF WalkOK
<1>9. Len(w.nodes) >= amount \/ Before(centre, m) = BucketIds
  <2>1. CASE m = last
    <3>1. \A i \in BucketIds : Rank(centre, i) < last
      BY <1>2, RankFacts, BucketIdsFacts
    <3> HIDE DEF last
    <3>2. QED BY <2>1, <3>1 DEF Before
  <2>2. CASE w.visited = NumBuckets
    <3>1. Cardinality(Before(centre, m)) = Cardinality(BucketIds)
          /\ Before(centre, m) \subseteq BucketIds
      BY <1>7, <2>2, BucketIdsFacts DEF WalkOK, Before
    <3>2. QED BY <3>1, BucketIdsFacts, FS_Subset
  <2>3. QED BY <1>7, <2>1, <2>2 DEF WalkOK, Enough
<1>10. QED BY <1>1, <1>2, <1>7, <1>8, <1>9 DEF WalkOK

-----------------------------------------------------------------------------
(* fillFromCache: the loop comes to what FillFromCache says.                *)

\* The first k of the cache have moved to the list.
Moved(b, k) ==
  [nodes      |-> [x \in 1 .. k |-> b.cacheNodes[b.cacheIds[k + 1 - x]]] \o b.nodes,
   cacheIds   |-> SubSeq(b.cacheIds, k + 1, Len(b.cacheIds)),
   cacheNodes |-> [id \in NodeId |-> IF \E x \in 1 .. k : b.cacheIds[x] = id
                                     THEN NoNode ELSE b.cacheNodes[id]]]

\* A bucket out of which a contact may have been taken.
Fillable(b) ==
  /\ b \in Bucket /\ DistinctIds(b) /\ WithinRoom(b) /\ CacheInSync(b)
  /\ LiveXorCached(b)

LEMMA MovedNone ==
  ASSUME NEW b \in Bucket
  PROVE  Moved(b, 0) = b
<1>1. /\ b = [nodes |-> b.nodes, cacheIds |-> b.cacheIds, cacheNodes |-> b.cacheNodes]
      /\ b.nodes \in Seq(Node) /\ b.cacheIds \in Seq(NodeId)
      /\ b.cacheNodes \in [NodeId -> Node \cup {NoNode}]
  BY DEF Bucket
<1>2. [x \in 1 .. 0 |-> b.cacheNodes[b.cacheIds[0 + 1 - x]]] = <<>>
  OBVIOUS
<1>3. <<>> \o b.nodes = b.nodes
  BY <1>1, ConcatEmptySeq
<1>4. SubSeq(b.cacheIds, 0 + 1, Len(b.cacheIds)) = b.cacheIds
  BY <1>1, SubSeqFull
<1>5. [id \in NodeId |-> IF \E x \in 1 .. 0 : b.cacheIds[x] = id
                         THEN NoNode ELSE b.cacheNodes[id]] = b.cacheNodes
  BY <1>1
<1> QED BY <1>1, <1>2, <1>3, <1>4, <1>5 DEF Moved

\* The cache has k contacts to move.
Moves(b, k) == k \in 0 .. Len(b.cacheIds)

\* What is where when k contacts have moved.
MovedShape(b, k, c) ==
  /\ c.nodes \in Seq(Node) /\ Len(c.nodes) = k + Len(b.nodes)
  /\ \A x \in 1 .. k : c.nodes[x] = b.cacheNodes[b.cacheIds[k + 1 - x]]
  /\ \A x \in k + 1 .. k + Len(b.nodes) : c.nodes[x] = b.nodes[x - k]
  /\ c.cacheIds \in Seq(NodeId) /\ Len(c.cacheIds) = Len(b.cacheIds) - k
  /\ \A x \in 1 .. Len(b.cacheIds) - k : c.cacheIds[x] = b.cacheIds[x + k]

\* The loop goes on when k contacts have moved.
TurnLeft(b, k) == k \in Nat /\ k < Len(b.cacheIds) /\ k + Len(b.nodes) < NodesPerBucket

LEMMA MovedFacts ==
  ASSUME NEW b, Fillable(b), NEW k, Moves(b, k)
  PROVE  MovedShape(b, k, Moved(b, k))
<1> DEFINE c == Moved(b, k)
           nodes == b.nodes
           ids == b.cacheIds
           live == Len(nodes)
           cached == Len(ids)
           pulled == [x \in 1 .. k |-> b.cacheNodes[ids[k + 1 - x]]]
<1>1. /\ nodes \in Seq(Node) /\ ids \in Seq(NodeId) /\ cached \in Nat
      /\ live \in Nat /\ DOMAIN ids = 1 .. cached /\ k \in 0 .. cached /\ k \in Nat
      /\ live = Len(nodes) /\ cached = Len(ids)
      /\ \A x \in 1 .. cached : ids[x] \in NodeId /\ b.cacheNodes[ids[x]] \in Node
  <2>1. nodes \in Seq(Node) /\ ids \in Seq(NodeId)
        /\ b.cacheNodes \in [NodeId -> Node \cup {NoNode}]
    BY DEF Fillable, Bucket
  <2>2. cached \in Nat /\ live \in Nat /\ DOMAIN ids = 1 .. cached
        /\ \A x \in 1 .. cached : ids[x] \in NodeId
    BY <2>1, LenProperties, ElementOfSeq
  <2>4. k \in 0 .. cached
    BY DEF Moves
  <2>3. \A x \in 1 .. cached : b.cacheNodes[ids[x]] # NoNode
    BY <2>2 DEF Fillable, CacheInSync, CacheHolds
  <2> QED BY <2>1, <2>2, <2>3, <2>4
<1>0. k \in Nat /\ live \in Nat /\ cached \in Nat /\ k <= cached
  BY <1>1
<1>2. pulled \in Seq(Node) /\ Len(pulled) = k
  <2>1. \A x \in 1 .. k : b.cacheNodes[ids[k + 1 - x]] \in Node
    BY <1>1
  <2> QED BY <1>1, <2>1
<1>3. c.nodes = pulled \o nodes /\ c.cacheIds = SubSeq(ids, k + 1, cached)
  BY DEF Moved
<1>4. \A x \in 1 .. k : pulled[x] = b.cacheNodes[ids[k + 1 - x]]
  OBVIOUS
<1> HIDE DEF pulled, c, nodes, ids, live, cached
<1>5. /\ pulled \o nodes \in Seq(Node)
      /\ Len(pulled \o nodes) = k + live
      /\ \A x \in 1 .. k + live :
           (pulled \o nodes)[x] = IF x <= k THEN pulled[x] ELSE nodes[x - k]
  BY <1>1, <1>2, ConcatProperties
<1>6. /\ SubSeq(ids, k + 1, cached) \in Seq(NodeId)
      /\ Len(SubSeq(ids, k + 1, cached)) = cached - k
      /\ \A x \in 1 .. cached - k : SubSeq(ids, k + 1, cached)[x] = ids[x + k]
  <2>1. \A x \in k + 1 .. cached : ids[x] \in NodeId
    BY <1>1
  <2>2. k + 1 \in Int /\ cached \in Int
    BY <1>1
  <2>3. /\ SubSeq(ids, k + 1, cached) \in Seq(NodeId)
        /\ Len(SubSeq(ids, k + 1, cached)) =
             IF k + 1 <= cached THEN cached - (k + 1) + 1 ELSE 0
        /\ \A x \in 1 .. cached - (k + 1) + 1 :
             SubSeq(ids, k + 1, cached)[x] = ids[(k + 1) + x - 1]
    BY <2>1, <2>2, SubSeqProperties
  <2>4. (IF k + 1 <= cached THEN cached - (k + 1) + 1 ELSE 0) = cached - k
    BY <1>0
  <2>5. cached - (k + 1) + 1 = cached - k /\ \A x \in Int : (k + 1) + x - 1 = x + k
    BY <1>0
  <2>6. \A x \in 1 .. cached - k : SubSeq(ids, k + 1, cached)[x] = ids[x + k]
    BY <2>3, <2>5
  <2> QED BY <2>3, <2>4, <2>6
<1>7. /\ c.nodes \in Seq(Node) /\ Len(c.nodes) = k + live
      /\ \A x \in 1 .. k : c.nodes[x] = b.cacheNodes[ids[k + 1 - x]]
      /\ \A x \in k + 1 .. k + live : c.nodes[x] = nodes[x - k]
  BY <1>1, <1>3, <1>4, <1>5
<1> QED BY <1>3, <1>6, <1>7 DEF MovedShape, c, nodes, ids, live, cached

\* One turn moves one more.
LEMMA MovedOne ==
  ASSUME NEW b, Fillable(b), NEW k, TurnLeft(b, k)
  PROVE  FillOnce(Moved(b, k)) = Moved(b, k + 1)
<1> DEFINE c == Moved(b, k)
           nodes == b.nodes
           ids == b.cacheIds
           kept == b.cacheNodes
           live == Len(nodes)
           cached == Len(ids)
           d == Moved(b, k + 1)
           id == ids[k + 1]
           node == kept[id]
<1>1. /\ nodes \in Seq(Node) /\ ids \in Seq(NodeId) /\ cached \in Nat
      /\ live \in Nat /\ DOMAIN ids = 1 .. cached
      /\ DOMAIN nodes = 1 .. live
      /\ \A x \in 1 .. cached : ids[x] \in NodeId
      /\ kept \in [NodeId -> Node \cup {NoNode}]
      /\ NodesPerBucket \in Nat /\ live = Len(nodes) /\ cached = Len(ids)
      /\ k \in Nat /\ k < cached /\ k + live < NodesPerBucket
  <2>1. nodes \in Seq(Node) /\ ids \in Seq(NodeId)
        /\ kept \in [NodeId -> Node \cup {NoNode}]
    BY DEF Fillable, Bucket
  <2> QED BY <2>1, LenProperties, ElementOfSeq, BucketAssumption DEF TurnLeft
<1>2. /\ \A x \in 1 .. cached :
           kept[ids[x]] # NoNode /\ kept[ids[x]].id = ids[x]
      /\ \A x, y \in 1 .. cached : ids[x] = ids[y] => x = y
      /\ \A x \in 1 .. live, y \in 1 .. cached : nodes[x].id # ids[y]
  BY <1>1 DEF Fillable, CacheInSync, CacheHolds, DistinctIds, LiveXorCached
<1>3. /\ k \in 0 .. cached /\ k + 1 \in 0 .. cached /\ k + 1 \in 1 .. cached
      /\ k < cached
  BY <1>1
<1>4. id \in NodeId /\ node # NoNode /\ node.id = id /\ node \in Node
  BY <1>1, <1>2, <1>3
<1>5. /\ c.nodes \in Seq(Node) /\ Len(c.nodes) = k + live
      /\ \A x \in 1 .. k : c.nodes[x] = kept[ids[k + 1 - x]]
      /\ \A x \in k + 1 .. k + live : c.nodes[x] = nodes[x - k]
      /\ c.cacheIds \in Seq(NodeId) /\ Len(c.cacheIds) = cached - k
      /\ \A x \in 1 .. cached - k : c.cacheIds[x] = ids[x + k]
  <2>1. MovedShape(b, k, c)
    BY <1>3, MovedFacts DEF Moves
  <2> QED BY <2>1 DEF MovedShape
<1>6. /\ d.nodes \in Seq(Node) /\ Len(d.nodes) = k + 1 + live
      /\ \A x \in 1 .. k + 1 : d.nodes[x] = kept[ids[k + 1 + 1 - x]]
      /\ \A x \in k + 1 + 1 .. k + 1 + live : d.nodes[x] = nodes[x - (k + 1)]
      /\ d.cacheIds \in Seq(NodeId) /\ Len(d.cacheIds) = cached - (k + 1)
      /\ \A x \in 1 .. cached - (k + 1) : d.cacheIds[x] = ids[x + (k + 1)]
  <2>1. MovedShape(b, k + 1, d)
    BY <1>3, MovedFacts DEF Moves
  <2> QED BY <2>1 DEF MovedShape
<1>7. /\ c = [nodes |-> c.nodes, cacheIds |-> c.cacheIds, cacheNodes |-> c.cacheNodes]
      /\ d = [nodes |-> d.nodes, cacheIds |-> d.cacheIds, cacheNodes |-> d.cacheNodes]
      /\ c.cacheNodes = [i \in NodeId |-> IF \E x \in 1 .. k : ids[x] = i
                                          THEN NoNode ELSE kept[i]]
      /\ d.cacheNodes = [i \in NodeId |-> IF \E x \in 1 .. k + 1 : ids[x] = i
                                          THEN NoNode ELSE kept[i]]
  BY DEF Moved
<1>0. k \in Nat /\ live \in Nat /\ cached \in Nat /\ k < cached
  BY <1>1
<1> HIDE DEF c, d, id, node, nodes, ids, kept, live, cached
<1>8. c.cacheIds # <<>> /\ c.cacheIds[1] = id
  <2>1. 1 \in 1 .. cached - k /\ cached - k # 0 /\ 1 + k = k + 1
    BY <1>0
  <2>2. Len(c.cacheIds) # 0 /\ c.cacheIds[1] = ids[1 + k]
    BY <1>5, <2>1
  <2> QED BY <1>5, <2>1, <2>2 DEF id
<1>9. CachePulled(c) = node
  <2>1. ~\E x \in 1 .. k : ids[x] = id
    BY <1>1, <1>2, <1>3 DEF id
  <2>2. c.cacheNodes[id] = kept[id]
    BY <1>4, <1>7, <2>1
  <2> QED BY <1>8, <2>2 DEF CachePulled, node
<1> DEFINE map == [c.cacheNodes EXCEPT ![id] = NoNode]
           pull == CachePull(c)
<1>10. pull = [nodes |-> c.nodes, cacheIds |-> Tail(c.cacheIds), cacheNodes |-> map]
  BY <1>7, <1>8 DEF CachePull
<1>11. ~Holds(c.nodes, id)
  <2> SUFFICES ASSUME NEW x \in DOMAIN c.nodes PROVE c.nodes[x].id # id
    BY DEF Holds
  <2>1. x \in 1 .. k + live
    <3>1. DOMAIN c.nodes = 1 .. Len(c.nodes)
      BY <1>5, LenProperties
    <3> QED BY <1>5, <3>1
  <2>2. CASE x <= k
    <3>1. x \in 1 .. k /\ k + 1 - x \in 1 .. cached /\ k + 1 - x # k + 1
      BY <1>1, <1>3, <2>1, <2>2
    <3>2. c.nodes[x].id = ids[k + 1 - x]
      BY <1>2, <1>5, <3>1
    <3> QED BY <1>2, <1>3, <3>1, <3>2 DEF id
  <2>3. CASE x > k
    <3>1. x \in k + 1 .. k + live /\ x - k \in 1 .. live
      BY <1>1, <2>1, <2>3
    <3> QED BY <1>2, <1>3, <1>5, <3>1 DEF id
  <2> QED BY <1>1, <2>1, <2>2, <2>3
<1> HIDE DEF map
<1>12. Save(pull, node) = [nodes |-> <<node>> \o c.nodes,
                           cacheIds |-> Tail(c.cacheIds), cacheNodes |-> map]
  <2>1. Without(pull.nodes, node.id) = c.nodes
    BY <1>4, <1>10, <1>11 DEF Without
  <2>2. Saved(pull, node)
    <3>1. Len(c.nodes) < NodesPerBucket
      BY <1>1, <1>5
    <3> QED BY <2>1, <3>1 DEF Saved
  <2> HIDE DEF pull
  <2> QED BY <1>10, <2>1, <2>2 DEF Save
<1> HIDE DEF pull
<1>13. <<node>> \o c.nodes = d.nodes
  <2>1. /\ <<node>> \o c.nodes \in Seq(Node)
        /\ Len(<<node>> \o c.nodes) = k + live + 1
        /\ (<<node>> \o c.nodes)[1] = node
        /\ \A x \in 2 .. k + live + 1 : (<<node>> \o c.nodes)[x] = c.nodes[x - 1]
    BY <1>4, <1>5, InFrontFacts
  <2>2. ASSUME NEW x \in 1 .. k + 1 + live
        PROVE  (<<node>> \o c.nodes)[x] = d.nodes[x]
    <3>1. CASE x = 1
      <4>1. 1 \in 1 .. k + 1 /\ k + 1 + 1 - 1 = k + 1
        BY <1>0
      <4>2. d.nodes[1] = kept[ids[k + 1]]
        BY <1>6, <4>1
      <4> QED BY <2>1, <3>1, <4>2 DEF node, id
    <3>2. CASE x > 1 /\ x <= k + 1
      <4>1. x - 1 \in 1 .. k /\ x \in 1 .. k + 1 /\ k + 1 - (x - 1) = k + 1 + 1 - x
            /\ x \in 2 .. k + live + 1
        BY <1>0, <3>2
      <4> QED BY <1>5, <1>6, <2>1, <4>1
    <3>3. CASE x > k + 1
      <4>0. x \in Nat /\ x <= k + 1 + live
        BY <1>0
      <4>1. x - 1 \in k + 1 .. k + live
        BY <1>0, <3>3, <4>0
      <4>2. (x - 1) - k = x - (k + 1)
        BY <1>0, <4>0
      <4>3. x \in k + 1 + 1 .. k + 1 + live /\ x \in 2 .. k + live + 1
        BY <1>0, <3>3, <4>0
      <4>4. (<<node>> \o c.nodes)[x] = c.nodes[x - 1]
        BY <2>1, <4>3
      <4>5. c.nodes[x - 1] = nodes[x - (k + 1)]
        BY <1>5, <4>1, <4>2
      <4>6. d.nodes[x] = nodes[x - (k + 1)]
        BY <1>6, <4>3
      <4> QED BY <4>4, <4>5, <4>6
    <3>4. x = 1 \/ (x > 1 /\ x <= k + 1) \/ x > k + 1
      BY <1>0
    <3> QED BY <3>1, <3>2, <3>3, <3>4
  <2>3. k + 1 + live = k + live + 1
    BY <1>0
  <2>4. Len(d.nodes) = Len(<<node>> \o c.nodes)
        /\ \A x \in 1 .. Len(<<node>> \o c.nodes) : (<<node>> \o c.nodes)[x] = d.nodes[x]
    BY <1>6, <2>1, <2>2, <2>3
  <2>5. d.nodes \in Seq(Node)
    BY <1>6
  <2> QED BY <2>1, <2>4, <2>5, SeqEqual
<1>14. Tail(c.cacheIds) = d.cacheIds
  <2>1. /\ Tail(c.cacheIds) \in Seq(NodeId) /\ Len(Tail(c.cacheIds)) = cached - k - 1
        /\ \A x \in 1 .. cached - k - 1 : Tail(c.cacheIds)[x] = c.cacheIds[x + 1]
    BY <1>5, <1>8, HeadTailProperties
  <2>2. \A x \in 1 .. cached - k - 1 :
          /\ x + 1 \in 1 .. cached - k /\ (x + 1) + k = x + (k + 1)
          /\ x \in 1 .. cached - (k + 1)
    BY <1>1
  <2>3. \A x \in 1 .. cached - k - 1 : Tail(c.cacheIds)[x] = d.cacheIds[x]
    BY <1>5, <1>6, <2>1, <2>2
  <2>4. cached - k - 1 = cached - (k + 1)
    BY <1>1
  <2>5. Len(d.cacheIds) = Len(Tail(c.cacheIds)) /\ d.cacheIds \in Seq(NodeId)
    BY <1>6, <2>1, <2>4
  <2>6. \A x \in 1 .. Len(Tail(c.cacheIds)) : Tail(c.cacheIds)[x] = d.cacheIds[x]
    BY <2>1, <2>3
  <2> QED BY <2>1, <2>5, <2>6, SeqEqual
<1>15. map = d.cacheNodes
  <2>1. \A i \in NodeId : (\E x \in 1 .. k + 1 : ids[x] = i) <=>
                          (i = id \/ \E x \in 1 .. k : ids[x] = i)
    <3>1. \A x : x \in 1 .. k + 1 <=> x = k + 1 \/ x \in 1 .. k
      BY <1>0
    <3> QED BY <3>1 DEF id
  <2> QED BY <1>4, <1>7, <2>1 DEF map
<1>16. FillOnce(c) = Save(pull, node)
  BY <1>4, <1>9 DEF FillOnce, pull
<1>17. FillOnce(c) = d
  BY <1>7, <1>12, <1>13, <1>14, <1>15, <1>16
<1> QED BY <1>17 DEF c, d

\* An empty cache ends the loop.
LEMMA MovedAll ==
  ASSUME NEW b, Fillable(b)
  PROVE  FillOnce(Moved(b, Len(b.cacheIds))) = Moved(b, Len(b.cacheIds))
<1>1. Moves(b, Len(b.cacheIds)) /\ Len(b.cacheIds) \in Nat
  BY LenProperties DEF Fillable, Bucket, Moves
<1> DEFINE cached == Len(b.cacheIds)
           c == Moved(b, cached)
<1>2. MovedShape(b, cached, c)
  BY <1>1, MovedFacts
<1>3. cached \in Nat /\ Len(b.cacheIds) = cached
  BY <1>1
<1> HIDE DEF cached, c
<1>4. c.cacheIds \in Seq(NodeId) /\ Len(c.cacheIds) = 0
  BY <1>2, <1>3 DEF MovedShape
<1>5. c.cacheIds = <<>>
  BY <1>4, EmptySeq
<1>6. FillOnce(c) = c
  BY <1>5 DEF FillOnce, CachePulled, CachePull
<1> QED BY <1>6 DEF c, cached

\* fillFromCache's loop of pull and save comes to what FillFromCache says in
\* one go, in every bucket that a contact may have been taken out of.
THEOREM FillIsLoop ==
  ASSUME NEW b, Fillable(b)
  PROVE  FillLoop(b) = FillFromCache(b)
<1> DEFINE live   == Len(b.nodes)
           cached == Len(b.cacheIds)
           room   == NodesPerBucket - live
           most   == IF room < cached THEN room ELSE cached
           So(n)  == IF n < most THEN n ELSE most
           Next1(c) == IF Len(c.nodes) >= NodesPerBucket THEN c ELSE FillOnce(c)
           Loop(f) == f = [n \in 0 .. NodesPerBucket |->
                             IF n = 0 THEN b
                             ELSE IF Len(f[n - 1].nodes) >= NodesPerBucket
                             THEN f[n - 1] ELSE FillOnce(f[n - 1])]
           after == CHOOSE f : Loop(f)
<1>1. /\ NodesPerBucket \in Nat /\ live \in Nat /\ cached \in Nat
      /\ live <= NodesPerBucket
  BY BucketAssumption, LenProperties DEF Fillable, Bucket, WithinRoom
<1>2. NodesPerBucket \in 0 .. NodesPerBucket /\ b \in Bucket
  BY BucketAssumption DEF Fillable
<1>3. FillFromCache(b) = Moved(b, most)
  BY DEF FillFromCache, Moved
<1>4. \A n : /\ Moves(b, n) <=> n \in 0 .. cached
             /\ TurnLeft(b, n) <=> n \in Nat /\ n < cached /\ n + live < NodesPerBucket
             /\ MovedShape(b, n, Moved(b, n)) => Len(Moved(b, n).nodes) = n + live
  BY DEF Moves, TurnLeft, MovedShape
<1>5. FillOnce(Moved(b, cached)) = Moved(b, cached)
  BY MovedAll
<1> HIDE DEF live, cached
<1>6. /\ most \in 0 .. cached /\ most \in Nat
      /\ most + live <= NodesPerBucket /\ most <= NodesPerBucket
      /\ most = cached \/ most + live = NodesPerBucket
  <2>1. CASE room < cached
    BY <1>1, <2>1
  <2>2. CASE ~(room < cached)
    BY <1>1, <2>2
  <2> QED BY <2>1, <2>2
<1> HIDE DEF room, most
<1>7. ASSUME NEW n \in Nat
      PROVE  Next1(Moved(b, So(n))) = Moved(b, So(n + 1))
  <2>1. CASE n < most
    <3>1. n \in 0 .. cached /\ n < cached /\ n + live < NodesPerBucket
      BY <1>1, <1>6, <2>1
    <3>2. So(n) = n /\ So(n + 1) = n + 1
      BY <1>6, <2>1
    <3>3. Len(Moved(b, n).nodes) = n + live
      BY <1>4, <3>1, MovedFacts
    <3>4. ~(Len(Moved(b, n).nodes) >= NodesPerBucket)
      BY <1>1, <3>1, <3>3
    <3>5. FillOnce(Moved(b, n)) = Moved(b, n + 1)
      BY <1>4, <3>1, MovedOne
    <3> QED BY <3>2, <3>4, <3>5
  <2>2. CASE ~(n < most)
    <3>1. So(n) = most /\ So(n + 1) = most
      BY <1>6, <2>2
    <3>2. CASE most + live = NodesPerBucket
      <4>1. Len(Moved(b, most).nodes) = most + live
        BY <1>4, <1>6, MovedFacts
      <4>2. Len(Moved(b, most).nodes) >= NodesPerBucket
        BY <1>1, <3>2, <4>1
      <4> QED BY <3>1, <4>2
    <3>3. CASE most = cached
      BY <1>5, <3>1, <3>3
    <3> QED BY <1>6, <3>2, <3>3
  <2> QED BY <2>1, <2>2
<1>8. Moved(b, So(0)) = b
  <2>1. So(0) = 0
    BY <1>6
  <2> QED BY <1>2, <2>1, MovedNone
<1>9. Loop(after)
  <2> DEFINE f == [n \in 0 .. NodesPerBucket |-> Moved(b, So(n))]
  <2>1. \A n \in 0 .. NodesPerBucket : n # 0 =>
          n - 1 \in 0 .. NodesPerBucket /\ n - 1 \in Nat /\ (n - 1) + 1 = n
    BY <1>1
  <2>2. \A n \in 0 .. NodesPerBucket : n # 0 => Moved(b, So(n)) = Next1(Moved(b, So(n - 1)))
    BY <1>7, <2>1
  <2> HIDE DEF So
  <2>3. \A n \in 0 .. NodesPerBucket : n # 0 => f[n - 1] = Moved(b, So(n - 1))
    BY <2>1
  <2>4. \A n \in 0 .. NodesPerBucket : f[n] =
          IF n = 0 THEN b ELSE IF Len(f[n - 1].nodes) >= NodesPerBucket
          THEN f[n - 1] ELSE FillOnce(f[n - 1])
    BY <1>8, <2>2, <2>3
  <2> DEFINE g == [n \in 0 .. NodesPerBucket |->
                     IF n = 0 THEN b
                     ELSE IF Len(f[n - 1].nodes) >= NodesPerBucket
                     THEN f[n - 1] ELSE FillOnce(f[n - 1])]
  <2>5. f = g
    <3> HIDE DEF Next1
    <3>1. \A n \in 0 .. NodesPerBucket : f[n] = g[n]
      BY <2>4
    <3>2. DOMAIN f = DOMAIN g /\ f = [n \in DOMAIN f |-> f[n]] /\ g = [n \in DOMAIN g |-> g[n]]
      OBVIOUS
    <3> QED BY <3>1, <3>2
  <2>6. Loop(f)
    BY <2>5
  <2> HIDE DEF f, Loop
  <2> QED BY <2>6
<1>10. FillLoop(b) = after[NodesPerBucket]
  BY DEF FillLoop
<1> HIDE DEF after
<1>11. \A n \in 0 .. NodesPerBucket : after[n] =
        IF n = 0 THEN b ELSE Next1(after[n - 1])
  BY <1>9
<1> HIDE DEF Next1, So, Loop
<1> DEFINE Good == {n \in Nat : n <= NodesPerBucket => after[n] = Moved(b, So(n))}
<1>12. 0 \in Good
  BY <1>1, <1>8, <1>11
<1>13. ASSUME NEW n \in Nat, n \in Good PROVE n + 1 \in Good
  <2>1. SUFFICES ASSUME n + 1 <= NodesPerBucket
                 PROVE  after[n + 1] = Moved(b, So(n + 1))
    OBVIOUS
  <2>2. n + 1 \in 0 .. NodesPerBucket /\ (n + 1) - 1 = n /\ n <= NodesPerBucket
    BY <1>1, <2>1
  <2>3. after[n + 1] = Next1(after[n])
    BY <1>11, <2>2
  <2>4. after[n] = Moved(b, So(n))
    BY <1>13, <2>2
  <2> QED BY <1>7, <2>3, <2>4
<1>14. after[NodesPerBucket] = Moved(b, So(NodesPerBucket))
  <2> HIDE DEF Good
  <2>1. Nat \subseteq Good
    BY <1>12, <1>13, SetInduction
  <2> QED BY <1>1, <2>1 DEF Good
<1>15. So(NodesPerBucket) = most
  BY <1>1, <1>6 DEF So
<1> QED BY <1>3, <1>10, <1>14, <1>15

=============================================================================
