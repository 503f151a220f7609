------------------------- MODULE RoutingTableProofs -------------------------
(***************************************************************************)
(* Theorems about RoutingTable, for any set of ids, any owner, any number  *)
(* of buckets and any room in them: the table is well typed, the lists and *)
(* maps of its buckets agree (TableInv) after any calls in any order, and  *)
(* getClosestNodes gives enough contacts, from the nearest buckets first;  *)
(* the table knows what was heard of a contact last, and its caches are    *)
(* sorted by when that was; it implements PeerSets, and forgets and        *)
(* promotes the right contact. The argument is by induction on the calls;  *)
(* RoutingTableOpsProofs says what they make of a table, and what the walk *)
(* collects from it.                                                       *)
(***************************************************************************)
EXTENDS RoutingTable, RoutingTableOpsProofs

\* The invariant that the calls preserve: types, TableInv, and no contact
\* twice in the history, without which Without(heard, id) says nothing.
HeardDistinct ==
  \A x, y \in DOMAIN heard : heard[x].id = heard[y].id => x = y

IndInv == TypeOK /\ TableInv /\ HeardDistinct

\* What Filed says, in terms of the ids of the bucket.
LEMMA FiledFacts ==
  ASSUME NEW i \in BucketIds
  PROVE  Filed(i) <=>
           \A id \in IdsIn(buckets[i]) : id # Root /\ BucketOf(Root, id) = i
BY Zenon DEF Filed, IdsIn

\* TableInv is what holds of any table.
LEMMA TableIsOK ==
  buckets \in Table /\ TableInv <=> TableOK(buckets, Root)
<1>1. \A i \in BucketIds :
        Filed(i) <=>
          \A id \in IdsIn(buckets[i]) : id # Root /\ BucketOf(Root, id) = i
  BY FiledFacts
<1>2. QED BY <1>1 DEF TableInv, TableOK

LEMMA TableIsOKNext ==
  (buckets \in Table /\ TableInv)' <=> TableOK(buckets, Root)'
BY TableIsOK, PTL

\* The constructor of the table makes the inductive invariant true.
THEOREM InitInd == Init => IndInv
<1> SUFFICES ASSUME Init PROVE IndInv
  OBVIOUS
<1>1. TableOK(buckets, Root)
  BY EmptyTableOK DEF Init
<1>2. heard = <<>> /\ DOMAIN heard = {} /\ heard \in Seq(Node)
  BY DEF Init
<1>3. QED BY <1>1, <1>2, TableIsOK DEF IndInv, TypeOK, HeardDistinct

\* addCandidate, of this peer itself or of another, keeps the invariant.
LEMMA AddCandidateInd ==
  ASSUME IndInv, NEW node \in Node, AddCandidate(node)
  PROVE  IndInv'
<1>1. node.id \in NodeId /\ Root \in NodeId /\ heard \in Seq(Node)
  BY RootAssumption DEF Node, IndInv, TypeOK
<1>2. buckets' \in Table /\ TableInv'
  BY <1>1, TableIsOK, TableIsOKNext, TableWithOK DEF IndInv, TypeOK, AddCandidate
<1>3. heard' \in Seq(Node) /\ HeardDistinct'
  <2>1. CASE node.id = Root
    <3>1. heard' = heard
      BY <2>1 DEF AddCandidate
    <3> QED BY <1>1, <3>1 DEF IndInv, HeardDistinct
  <2>2. CASE node.id # Root
    <3> DEFINE w == Without(heard, node.id)
    <3>1. heard' = <<node>> \o w
      BY <2>2 DEF AddCandidate
    <3>2. \A x, y \in DOMAIN heard : heard[x].id = heard[y].id => x = y
      BY DEF IndInv, HeardDistinct
    <3>3. /\ w \in Seq(Node)
          /\ \A x \in DOMAIN w : w[x].id # node.id
          /\ \A x, y \in DOMAIN w : w[x].id = w[y].id => x = y
      BY <1>1, <3>2, WithoutFacts
    <3>4. Len(w) \in Nat /\ DOMAIN w = 1 .. Len(w)
      BY <3>3, LenProperties
    <3> HIDE DEF w
    <3>5. /\ heard' \in Seq(Node)
          /\ DOMAIN heard' = 1 .. Len(w) + 1
          /\ heard'[1] = node
          /\ \A x \in 2 .. Len(w) + 1 : heard'[x] = w[x - 1]
      BY <3>1, <3>3, InFrontFacts, LenProperties
    <3>6. \A x \in DOMAIN heard' :
            \/ x = 1 /\ heard'[x] = node
            \/ x - 1 \in DOMAIN w /\ heard'[x] = w[x - 1]
      BY <3>4, <3>5
    <3>7. ASSUME NEW x \in DOMAIN heard', NEW y \in DOMAIN heard',
                 heard'[x].id = heard'[y].id
          PROVE  x = y
      <4>1. CASE x = 1 \/ y = 1
        BY <3>3, <3>6, <3>7, <4>1
      <4>2. CASE x # 1 /\ y # 1
        <5>1. x - 1 = y - 1
          BY <3>3, <3>6, <3>7, <4>2
        <5> QED BY <3>5, <5>1
      <4> QED BY <4>1, <4>2
    <3> QED BY <3>5, <3>7 DEF HeardDistinct
  <2> QED BY <2>1, <2>2
<1> QED BY <1>2, <1>3 DEF IndInv, TypeOK

\* removeNode, of a contact that is there or not, keeps the invariant.
LEMMA RemoveNodeInd ==
  ASSUME IndInv, NEW id \in NodeId, RemoveNode(id)
  PROVE  IndInv'
<1>1. buckets' \in Table /\ TableInv'
  BY TableIsOK, TableIsOKNext, TableWithoutOK, RootAssumption
     DEF IndInv, TypeOK, RemoveNode
<1>2. heard' = heard
  BY DEF RemoveNode
<1>3. QED BY <1>1, <1>2 DEF IndInv, TypeOK, HeardDistinct

\* Any call, and any step without one, keeps the invariant.
THEOREM NextInd == IndInv /\ [Next]_vars => IndInv'
<1> SUFFICES ASSUME IndInv, [Next]_vars PROVE IndInv'
  OBVIOUS
<1>1. ASSUME NEW node \in Node, AddCandidate(node) PROVE IndInv'
  BY <1>1, AddCandidateInd
<1>2. ASSUME NEW id \in NodeId, RemoveNode(id) PROVE IndInv'
  BY <1>2, RemoveNodeInd
<1>3. CASE UNCHANGED vars
  BY <1>3 DEF vars, IndInv, TypeOK, TableInv, Filed, HeardDistinct
<1> QED BY <1>1, <1>2, <1>3 DEF Next

\* The table and the history keep their types.
THEOREM TypeCorrect == Spec => []TypeOK
<1>1. Spec => []IndInv
  BY InitInd, NextInd, PTL DEF Spec
<1>2. IndInv => TypeOK
  BY DEF IndInv
<1> QED BY <1>1, <1>2, PTL

\* After any calls in any order the lists and maps of every bucket agree.
THEOREM TableCorrect == Spec => []TableInv
<1>1. Spec => []IndInv
  BY InitInd, NextInd, PTL DEF Spec
<1>2. IndInv => TableInv
  BY DEF IndInv
<1> QED BY <1>1, <1>2, PTL

-----------------------------------------------------------------------------
(* getClosestNodes.                                                        *)

\* The contacts nearest to any subject are live ones, no one twice, and as
\* many as asked for or all there are, after any calls in any order.
THEOREM EnoughCorrect == Spec => []ClosestNodesEnough
<1>1. Spec => []IndInv
  BY InitInd, NextInd, PTL DEF Spec
<1>2. ASSUME IndInv PROVE ClosestNodesEnough
  <2> SUFFICES ASSUME NEW subject \in NodeId,
                      NEW amount \in 1 .. NodesPerBucket + 1
               PROVE  LET nodes == GetClosestNodes(buckets, Root, subject, amount)
                      IN /\ ToSet(nodes) \subseteq LiveNodes
                         /\ Cardinality(ToSet(nodes)) = Len(nodes)
                         /\ Len(nodes) >= amount \/ ToSet(nodes) = LiveNodes
    BY DEF ClosestNodesEnough
  <2> DEFINE nodes  == GetClosestNodes(buckets, Root, subject, amount)
             centre == BucketOf(Root, subject)
  <2>1. TableOK(buckets, Root)
    BY <1>2, TableIsOK DEF IndInv, TypeOK
  <2>2. /\ nodes \in Seq(Node) /\ Distinct(nodes)
        /\ \E m \in Nat :
             /\ ToSet(nodes)
                  = UNION {ToSet(buckets[i].nodes) : i \in Before(centre, m)}
             /\ Len(nodes) >= amount \/ Before(centre, m) = BucketIds
    BY <2>1, ClosestFacts, BucketInRange, RootAssumption
  <2> HIDE DEF nodes, centre
  <2>3. Cardinality(ToSet(nodes)) = Len(nodes)
    BY <2>2, CountDistinct DEF Distinct, ToSet
  <2>4. PICK m \in Nat :
          /\ ToSet(nodes)
               = UNION {ToSet(buckets[i].nodes) : i \in Before(centre, m)}
          /\ Len(nodes) >= amount \/ Before(centre, m) = BucketIds
    BY <2>2
  <2>5. ToSet(nodes) \subseteq LiveNodes
    BY <2>4 DEF LiveNodes, Before
  <2>6. Before(centre, m) = BucketIds => ToSet(nodes) = LiveNodes
    BY <2>4 DEF LiveNodes
  <2>7. QED BY <2>3, <2>4, <2>5, <2>6 DEF nodes
<1>3. QED BY <1>1, <1>2, PTL

\* No bucket is left out that is nearer than one whose contacts are handed out.
THEOREM NearestCorrect == Spec => []NearestBucketsFirst
<1>1. Spec => []IndInv
  BY InitInd, NextInd, PTL DEF Spec
<1>2. ASSUME IndInv PROVE NearestBucketsFirst
  <2> DEFINE Away(d) == IF d < 0 THEN -d ELSE d
  <2> SUFFICES ASSUME NEW subject \in NodeId,
                      NEW in \in ToSet(GetClosestNodes(buckets, Root, subject,
                                                       NodesPerBucket)),
                      NEW out \in LiveNodes \
                            ToSet(GetClosestNodes(buckets, Root, subject,
                                                  NodesPerBucket))
               PROVE  Away(BucketOf(Root, in.id) - BucketOf(Root, subject))
                        <= Away(BucketOf(Root, out.id) - BucketOf(Root, subject))
    BY DEF NearestBucketsFirst
  <2> DEFINE nodes  == GetClosestNodes(buckets, Root, subject, NodesPerBucket)
             centre == BucketOf(Root, subject)
  <2>1. TableOK(buckets, Root)
    BY <1>2, TableIsOK DEF IndInv, TypeOK
  <2>2. PICK m \in Nat :
          ToSet(nodes) = UNION {ToSet(buckets[i].nodes) : i \in Before(centre, m)}
    BY <2>1, ClosestFacts, BucketInRange, RootAssumption
  <2>3. centre \in BucketIds
    BY BucketInRange, RootAssumption
  <2>4. PICK i \in Before(centre, m) : in \in ToSet(buckets[i].nodes)
    BY <2>2
  <2>5. PICK j \in BucketIds : out \in ToSet(buckets[j].nodes)
    BY DEF LiveNodes
  <2>6. j \notin Before(centre, m)
    BY <2>2, <2>5
  <2>7. \A b \in BucketIds : \A node \in ToSet(buckets[b].nodes) :
          BucketOf(Root, node.id) = b
    BY <2>1 DEF TableOK, ToSet, IdsIn
  <2>8. i \in BucketIds /\ BucketOf(Root, in.id) = i /\ BucketOf(Root, out.id) = j
    BY <2>4, <2>5, <2>7 DEF Before
  <2>9. Rank(centre, i) < m /\ ~(Rank(centre, j) < m)
    BY <2>4, <2>5, <2>6 DEF Before
  <2> HIDE DEF nodes, centre
  <2>10. Away(i - centre) <= Away(j - centre)
    BY <2>3, <2>5, <2>8, <2>9, BucketIdsFacts DEF Rank
  <2>11. QED BY <2>8, <2>10 DEF centre
<1>3. QED BY <1>1, <1>2, PTL

-----------------------------------------------------------------------------
(* In which order contacts were heard: every object of a bucket is one of  *)
(* the history (InHistory), and of two ids in a cache the first one comes  *)
(* before the other there (Sorted).                                        *)

InHistory ==
  \A i \in BucketIds : \A o \in ObjectsOf(buckets[i]) :
    \E x \in DOMAIN heard : heard[x] = o

\* One was heard after the other: it is before it in the history.
Fresher(h, one, other) ==
  \E x, y \in DOMAIN h : x < y /\ h[x].id = one /\ h[y].id = other

\* The history once node is heard.
Hearing(h, node) == <<node>> \o Without(h, node.id)

Sorted(b, h) ==
  \A x, y \in DOMAIN b.cacheIds :
    x < y => Fresher(h, b.cacheIds[x], b.cacheIds[y])

AgeInv == IndInv /\ InHistory /\ \A i \in BucketIds : Sorted(buckets[i], heard)

-----------------------------------------------------------------------------
(* The history.                                                            *)

\* Hearing node: it comes first, everyone else keeps object and order.
LEMMA HeardFacts ==
  ASSUME NEW h \in Seq(Node), NEW node \in Node, Distinct(h)
  PROVE  /\ 1 \in DOMAIN Hearing(h, node) /\ Hearing(h, node)[1] = node
         /\ \A x \in DOMAIN h :
              h[x].id # node.id =>
                /\ \E z \in DOMAIN Hearing(h, node) :
                     Hearing(h, node)[z] = h[x]
                /\ Fresher(Hearing(h, node), node.id, h[x].id)
         /\ \A one, other :
              /\ one # node.id /\ other # node.id
              /\ Fresher(h, one, other)
              => Fresher(Hearing(h, node), one, other)
<1> DEFINE h2 == Hearing(h, node)
           w == Without(h, node.id)
<1>1. /\ w \in Seq(Node) /\ Len(w) \in Nat /\ DOMAIN w = 1 .. Len(w)
      /\ Len(h) \in Nat /\ DOMAIN h = 1 .. Len(h)
  BY WithoutFacts, LenProperties DEF Distinct
<1>2. PICK p \in Nat \ {0} : \A x \in DOMAIN h :
        \/ h[x].id = node.id
        \/ x < p /\ x \in DOMAIN w /\ w[x] = h[x]
        \/ x > p /\ x - 1 \in DOMAIN w /\ w[x - 1] = h[x]
  <2>1. \E p \in Nat \ {0} : \A x \in DOMAIN h :
          \/ h[x].id = node.id
          \/ /\ x < p /\ x \in DOMAIN Without(h, node.id)
             /\ Without(h, node.id)[x] = h[x]
          \/ /\ x > p /\ x - 1 \in DOMAIN Without(h, node.id)
             /\ Without(h, node.id)[x - 1] = h[x]
    <3> HIDE DEF w
    <3> QED BY WithoutPlaces
  <2> QED BY <2>1
<1> HIDE DEF w
<1>3. /\ DOMAIN h2 = 1 .. Len(w) + 1 /\ h2[1] = node
      /\ \A x \in 2 .. Len(w) + 1 : h2[x] = w[x - 1]
  BY <1>1, InFrontFacts, LenProperties DEF w, Hearing
<1> HIDE DEF h2
<1>4. \A x \in DOMAIN w : x + 1 \in DOMAIN h2 /\ h2[x + 1] = w[x]
  BY <1>1, <1>3
<1>5. \A x \in DOMAIN h :
        \/ h[x].id = node.id
        \/ x < p /\ x + 1 \in DOMAIN h2 /\ h2[x + 1] = h[x]
        \/ x > p /\ x \in DOMAIN h2 /\ h2[x] = h[x]
  BY <1>1, <1>2, <1>4
<1>6. ASSUME NEW x \in DOMAIN h, h[x].id # node.id
      PROVE  \E z \in DOMAIN h2 : z > 1 /\ h2[z] = h[x]
  <2>1. x \in Nat /\ x >= 1
    BY <1>1
  <2>2. CASE x < p /\ x + 1 \in DOMAIN h2 /\ h2[x + 1] = h[x]
    <3>1. x + 1 > 1
      BY <2>1
    <3> QED BY <2>2, <3>1
  <2>3. CASE x > p /\ x \in DOMAIN h2 /\ h2[x] = h[x]
    <3>1. x > 1
      BY <2>1, <2>3
    <3> QED BY <2>3, <3>1
  <2> QED BY <1>5, <1>6, <2>2, <2>3
<1>7. 1 \in DOMAIN h2
  BY <1>1, <1>3
<1>8. ASSUME NEW x \in DOMAIN h, h[x].id # node.id
      PROVE  /\ \E z \in DOMAIN h2 : h2[z] = h[x]
             /\ Fresher(h2, node.id, h[x].id)
  <2>1. PICK z \in DOMAIN h2 : z > 1 /\ h2[z] = h[x]
    BY <1>6, <1>8
  <2>2. 1 < z
    BY <1>1, <1>3, <2>1
  <2> QED BY <1>3, <1>7, <2>1, <2>2 DEF Fresher
<1>9. ASSUME NEW one, NEW other, one # node.id, other # node.id,
             Fresher(h, one, other)
      PROVE  Fresher(h2, one, other)
  <2>1. PICK x, y \in DOMAIN h : x < y /\ h[x].id = one /\ h[y].id = other
    BY <1>9 DEF Fresher
  <2>2. \/ x < p /\ x + 1 \in DOMAIN h2 /\ h2[x + 1] = h[x]
        \/ x > p /\ x \in DOMAIN h2 /\ h2[x] = h[x]
    BY <1>5, <1>9, <2>1
  <2>3. \/ y < p /\ y + 1 \in DOMAIN h2 /\ h2[y + 1] = h[y]
        \/ y > p /\ y \in DOMAIN h2 /\ h2[y] = h[y]
    BY <1>5, <1>9, <2>1
  <2>4. \E u, v \in DOMAIN h2 : u < v /\ h2[u] = h[x] /\ h2[v] = h[y]
    <3>1. x \in Nat /\ y \in Nat
      BY <1>1
    <3>2. CASE x < p /\ y < p
      <4>1. x + 1 < y + 1
        BY <2>1, <3>1
      <4> QED BY <2>2, <2>3, <3>1, <3>2, <4>1
    <3>3. CASE x < p /\ y > p
      <4>1. x + 1 < y
        BY <3>1, <3>3
      <4> QED BY <2>2, <2>3, <3>1, <3>3, <4>1
    <3>4. CASE x > p
      <4>1. y > p
        BY <2>1, <3>1, <3>4
      <4> QED BY <2>1, <2>2, <2>3, <3>1, <3>4, <4>1
    <3> QED BY <2>2, <2>3, <3>2, <3>3, <3>4
  <2> QED BY <2>1, <2>4 DEF Fresher
<1> QED BY <1>3, <1>7, <1>8, <1>9 DEF h2

-----------------------------------------------------------------------------
(* The order of a bucket's cache.                                          *)

\* Of two ids in the cache after a push to a full bucket, the first is the one
\* pushed or they were in the cache before, in that order.
LEMMA PushOrder ==
  ASSUME NEW b \in Bucket, BucketOK(b), NEW node \in Node, ~Saved(b, node),
         NEW c, c = Save(b, node),
         NEW x \in DOMAIN c.cacheIds, NEW y \in DOMAIN c.cacheIds, x < y
  PROVE  /\ CacheHolds(b, c.cacheIds[y]) /\ c.cacheIds[y] # node.id
         /\ \/ c.cacheIds[x] = node.id
            \/ /\ c.cacheIds[x] # node.id
               /\ \E v, u \in DOMAIN b.cacheIds :
                    /\ v < u
                    /\ b.cacheIds[v] = c.cacheIds[x]
                    /\ b.cacheIds[u] = c.cacheIds[y]
<1>f. /\ b = [nodes |-> b.nodes, cacheIds |-> b.cacheIds,
              cacheNodes |-> b.cacheNodes]
      /\ b.nodes \in Seq(Node) /\ b.cacheIds \in Seq(NodeId)
      /\ Len(b.nodes) \in Nat /\ Len(b.nodes) <= NodesPerBucket
      /\ Len(b.cacheIds) \in Nat
      /\ DOMAIN b.cacheIds = 1 .. Len(b.cacheIds)
      /\ NodesPerBucket \in Nat \ {0} /\ node.id \in NodeId
  BY BucketFacts DEF Node
<1>1. c \in Bucket /\ BucketOK(c)
  BY SaveFacts
<1>2. DOMAIN c.cacheIds = 1 .. Len(c.cacheIds) /\ Len(c.cacheIds) \in Nat
  BY <1>1, BucketFacts
<1>3. ~Holds(b.nodes, node.id) /\ c = CachePush(b, node)
  <2>1. ~Holds(b.nodes, node.id)
    <3>1. Holds(b.nodes, node.id) =>
            Len(Without(b.nodes, node.id)) = Len(b.nodes) - 1
      BY <1>f, WithoutFacts DEF BucketOK, DistinctIds
    <3> QED BY <1>f, <3>1 DEF Saved
  <2>2. Without(b.nodes, node.id) = b.nodes
    BY <2>1 DEF Without
  <2>3. [b EXCEPT !.nodes = Without(@, node.id)] = b
    BY <1>f, <2>2
  <2> QED BY <2>1, <2>3 DEF Save
<1>4. \E kept \in Seq(NodeId) :
        /\ c.cacheIds = <<node.id>> \o kept
        /\ \A z \in DOMAIN kept : \E u \in DOMAIN b.cacheIds :
             b.cacheIds[u] = kept[z]
        /\ \A z, s \in DOMAIN kept : z < s =>
             \E v, u \in DOMAIN b.cacheIds :
               v < u /\ b.cacheIds[v] = kept[z] /\ b.cacheIds[u] = kept[s]
  <2>1. CASE CacheHolds(b, node.id) \/ Len(b.cacheIds) >= NodesPerBucket
    <3> DEFINE p == CachePlaceLost(b, node)
               kept == RemoveAt(b.cacheIds, p)
    <3>1. p \in 1 .. Len(b.cacheIds)
      <4>1. CASE CacheHolds(b, node.id)
        <5>1. PICK z \in 1 .. Len(b.cacheIds) : b.cacheIds[z] = node.id
          BY <1>f, <4>1 DEF CacheHolds
        <5>2. \A s \in 1 .. z - 1 : b.cacheIds[s] # node.id
          BY <1>f, <5>1 DEF BucketOK, DistinctIds
        <5>3. CachePlaceOf(b, node.id) \in 1 .. Len(b.cacheIds)
          BY <1>f, <5>1, <5>2 DEF CachePlaceOf
        <5> QED BY <4>1, <5>3 DEF CachePlaceLost
      <4>2. CASE ~CacheHolds(b, node.id)
        BY <1>f, <2>1, <4>2 DEF CachePlaceLost
      <4> QED BY <4>1, <4>2
    <3>2. /\ kept \in Seq(NodeId)
          /\ Len(kept) = Len(b.cacheIds) - 1
          /\ \A z \in 1 .. Len(b.cacheIds) - 1 :
               kept[z] = IF z < p THEN b.cacheIds[z] ELSE b.cacheIds[z + 1]
      BY <1>f, <3>1, RemoveAtFacts
    <3>3. c.cacheIds = <<node.id>> \o kept
      BY <1>f, <1>3, <2>1 DEF CachePush
    <3>4. DOMAIN kept = 1 .. Len(b.cacheIds) - 1
      BY <3>2, LenProperties
    <3> HIDE DEF p, kept
    <3> DEFINE Old(z) == IF z < p THEN z ELSE z + 1
    <3>5. \A z \in DOMAIN kept :
            Old(z) \in DOMAIN b.cacheIds /\ b.cacheIds[Old(z)] = kept[z]
      BY <1>f, <3>1, <3>2, <3>4
    <3>6. \A z, s \in DOMAIN kept : z < s => Old(z) < Old(s)
      BY <1>f, <3>1, <3>4
    <3> HIDE DEF Old
    <3> QED BY <3>2, <3>3, <3>5, <3>6
  <2>2. CASE ~(CacheHolds(b, node.id) \/ Len(b.cacheIds) >= NodesPerBucket)
    <3>1. c.cacheIds = <<node.id>> \o b.cacheIds
      BY <1>f, <1>3, <2>2 DEF CachePush
    <3> QED BY <1>f, <3>1
  <2> QED BY <2>1, <2>2
<1>5. PICK kept \in Seq(NodeId) :
        /\ c.cacheIds = <<node.id>> \o kept
        /\ \A z \in DOMAIN kept : \E u \in DOMAIN b.cacheIds :
             b.cacheIds[u] = kept[z]
        /\ \A z, s \in DOMAIN kept : z < s =>
             \E v, u \in DOMAIN b.cacheIds :
               v < u /\ b.cacheIds[v] = kept[z] /\ b.cacheIds[u] = kept[s]
  BY <1>4
<1>6. /\ Len(kept) \in Nat /\ DOMAIN kept = 1 .. Len(kept)
      /\ Len(c.cacheIds) = Len(kept) + 1
      /\ c.cacheIds[1] = node.id
      /\ \A z \in 2 .. Len(kept) + 1 : c.cacheIds[z] = kept[z - 1]
  BY <1>f, <1>5, InFrontFacts, LenProperties
<1>7. \A z \in DOMAIN c.cacheIds : z # 1 =>
        /\ z - 1 \in DOMAIN kept /\ c.cacheIds[z] = kept[z - 1]
        /\ c.cacheIds[z] # node.id
  <2>1. 1 \in DOMAIN c.cacheIds
    BY <1>2, <1>6
  <2>2. \A z, s \in DOMAIN c.cacheIds :
          c.cacheIds[z] = c.cacheIds[s] => z = s
    BY <1>1 DEF BucketOK, DistinctIds
  <2> QED BY <1>2, <1>6, <2>1, <2>2
<1>8. y # 1 /\ y \in Nat /\ x \in Nat
  BY <1>2
<1>9. CacheHolds(b, c.cacheIds[y]) /\ c.cacheIds[y] # node.id
  BY <1>5, <1>7, <1>8 DEF CacheHolds
<1>10. CASE x = 1
  BY <1>6, <1>9, <1>10
<1>11. CASE x # 1
  <2>1. /\ x - 1 \in DOMAIN kept /\ c.cacheIds[x] = kept[x - 1]
        /\ y - 1 \in DOMAIN kept /\ c.cacheIds[y] = kept[y - 1]
        /\ c.cacheIds[x] # node.id /\ x - 1 < y - 1
    BY <1>7, <1>8, <1>11
  <2>2. PICK v, u \in DOMAIN b.cacheIds :
          /\ v < u
          /\ b.cacheIds[v] = kept[x - 1] /\ b.cacheIds[u] = kept[y - 1]
    BY <1>5, <2>1
  <2>3. b.cacheIds[v] = c.cacheIds[x] /\ b.cacheIds[u] = c.cacheIds[y]
    BY <2>1, <2>2
  <2> QED BY <1>9, <2>1, <2>2, <2>3
<1> QED BY <1>10, <1>11

\* A bucket that did not hear the contact keeps its order.
LEMMA SortedOther ==
  ASSUME NEW b, NEW h \in Seq(Node), NEW node \in Node, Distinct(h),
         ~CacheHolds(b, node.id), Sorted(b, h)
  PROVE  Sorted(b, Hearing(h, node))
<1>1. \A one, other :
        one # node.id /\ other # node.id /\ Fresher(h, one, other)
        => Fresher(Hearing(h, node), one, other)
  BY HeardFacts
<1> QED BY <1>1 DEF Sorted, CacheHolds

\* save puts the contact in front of its bucket's cache, or leaves the cache
\* alone.
LEMMA SortedSave ==
  ASSUME NEW b \in Bucket, BucketOK(b), NEW h \in Seq(Node),
         NEW node \in Node, Distinct(h),
         \A id : CacheHolds(b, id) => Holds(h, id),
         Sorted(b, h)
  PROVE  Sorted(Save(b, node), Hearing(h, node))
<1> DEFINE c == Save(b, node)
<1>1. CASE Saved(b, node)
  <2>1. /\ c.cacheIds = b.cacheIds
        /\ c.nodes = <<node>> \o Without(b.nodes, node.id)
    <3>1. b = [nodes |-> b.nodes, cacheIds |-> b.cacheIds,
               cacheNodes |-> b.cacheNodes]
      BY BucketFacts
    <3> QED BY <1>1, <3>1 DEF Save
  <2>2. BucketOK(c) /\ Without(b.nodes, node.id) \in Seq(Node)
    BY SaveFacts, BucketFacts, WithoutFacts DEF BucketOK, DistinctIds
  <2>3. 1 \in DOMAIN c.nodes /\ c.nodes[1] = node
    BY <2>1, <2>2, InFrontFacts, LenProperties
  <2>4. ~CacheHolds(c, node.id)
    BY <2>2, <2>3 DEF BucketOK, LiveXorCached
  <2>5. Sorted(c, h)
    BY <2>1 DEF Sorted
  <2> QED BY <2>4, <2>5, SortedOther
<1>2. CASE ~Saved(b, node)
  <2> SUFFICES ASSUME NEW x \in DOMAIN c.cacheIds,
                      NEW y \in DOMAIN c.cacheIds, x < y
               PROVE  Fresher(Hearing(h, node), c.cacheIds[x], c.cacheIds[y])
    BY DEF Sorted
  <2>1. /\ CacheHolds(b, c.cacheIds[y]) /\ c.cacheIds[y] # node.id
        /\ \/ c.cacheIds[x] = node.id
           \/ /\ c.cacheIds[x] # node.id
              /\ \E v, u \in DOMAIN b.cacheIds :
                   /\ v < u
                   /\ b.cacheIds[v] = c.cacheIds[x]
                   /\ b.cacheIds[u] = c.cacheIds[y]
    BY <1>2, PushOrder
  <2> HIDE DEF c
  <2>2. CASE c.cacheIds[x] = node.id
    <3>1. PICK z \in DOMAIN h : h[z].id = c.cacheIds[y]
      BY <2>1 DEF Holds
    <3> QED BY <2>1, <2>2, <3>1, HeardFacts
  <2>3. CASE c.cacheIds[x] # node.id
    <3>1. Fresher(h, c.cacheIds[x], c.cacheIds[y])
      BY <2>1, <2>3 DEF Sorted
    <3> QED BY <2>1, <2>3, <3>1, HeardFacts
  <2> QED BY <2>2, <2>3
<1> QED BY <1>1, <1>2

\* removeNode takes the first of the cache or none.
LEMMA SortedRemove ==
  ASSUME NEW b \in Bucket, BucketOK(b), NEW id, NEW h, Sorted(b, h)
  PROVE  Sorted(RemoveContact(b, id), h)
<1> DEFINE c == RemoveContact(b, id)
<1>1. CASE Dropped(b, c, id)
  BY <1>1 DEF Dropped, Sorted
<1>2. CASE Promoted(b, c, id)
  <2>1. /\ DOMAIN b.cacheIds = 1 .. Len(b.cacheIds)
        /\ DOMAIN c.cacheIds = 1 .. Len(b.cacheIds) - 1
        /\ Len(b.cacheIds) \in Nat
        /\ \A x \in DOMAIN c.cacheIds : c.cacheIds[x] = b.cacheIds[x + 1]
    BY <1>2, BucketFacts, RemoveContactFacts DEF Promoted
  <2> HIDE DEF c
  <2>2. ASSUME NEW x \in DOMAIN c.cacheIds, NEW y \in DOMAIN c.cacheIds, x < y
        PROVE  Fresher(h, c.cacheIds[x], c.cacheIds[y])
    <3>1. x + 1 \in DOMAIN b.cacheIds /\ y + 1 \in DOMAIN b.cacheIds
          /\ x + 1 < y + 1
      BY <2>1, <2>2
    <3> QED BY <2>1, <3>1 DEF Sorted
  <2> QED BY <2>2 DEF Sorted, c
<1> QED BY <1>1, <1>2, RemoveShape

-----------------------------------------------------------------------------
(* The table.                                                              *)

\* What the invariant of the table says of one bucket.
LEMMA BucketOfTable ==
  ASSUME IndInv, NEW i \in BucketIds
  PROVE  /\ buckets[i] \in Bucket /\ BucketOK(buckets[i])
         /\ heard \in Seq(Node) /\ Distinct(heard)
         /\ \A id \in IdsIn(buckets[i]) : id # Root /\ BucketOf(Root, id) = i
         /\ \A id : CacheHolds(buckets[i], id) => id \in IdsIn(buckets[i])
         /\ \A o \in ObjectsOf(buckets[i]) : o.id \in IdsIn(buckets[i])
<1>1. buckets[i] \in Bucket /\ BucketOK(buckets[i]) /\ Filed(i)
  BY DEF IndInv, TypeOK, Table, TableInv
<1>2. heard \in Seq(Node) /\ Distinct(heard)
  BY DEF IndInv, TypeOK, HeardDistinct, Distinct
<1>3. \A id : CacheHolds(buckets[i], id) => id \in IdsIn(buckets[i])
  BY IdsInFacts
<1>4. ASSUME NEW o \in ObjectsOf(buckets[i])
      PROVE  o.id \in IdsIn(buckets[i])
  <2>1. \/ \E x \in DOMAIN buckets[i].nodes : o = buckets[i].nodes[x]
        \/ CacheHolds(buckets[i], o.id)
    BY <1>1, ObjectFacts
  <2> QED BY <1>3, <2>1 DEF IdsIn
<1> QED BY <1>1, <1>2, <1>3, <1>4, FiledFacts

\* Whoever is in a cache was heard.
LEMMA CachedHeard ==
  ASSUME AgeInv, NEW i \in BucketIds, NEW id, CacheHolds(buckets[i], id)
  PROVE  Holds(heard, id)
<1> DEFINE b == buckets[i]
           o == b.cacheNodes[id]
<1>1. b \in Bucket /\ BucketOK(b)
  BY BucketOfTable DEF AgeInv
<1>2. id \in NodeId
  BY <1>1, BucketFacts DEF CacheHolds
<1>3. o # NoNode /\ o.id = id
  BY <1>1, <1>2 DEF BucketOK, CacheInSync
<1>4. o \in ObjectsOf(b)
  BY <1>2, <1>3 DEF ObjectsOf
<1>5. \E x \in DOMAIN heard : heard[x] = o
  BY <1>4 DEF AgeInv, InHistory
<1> QED BY <1>3, <1>5 DEF Holds

\* The constructor of the table: nothing was heard, no one is known.
LEMMA InitAge == Init => AgeInv
<1> SUFFICES ASSUME Init PROVE AgeInv
  OBVIOUS
<1>1. \A i \in BucketIds : /\ DOMAIN buckets[i].nodes = {}
                           /\ DOMAIN buckets[i].cacheIds = {}
                           /\ \A id \in NodeId : buckets[i].cacheNodes[id] = NoNode
  BY DEF Init, EmptyTable, EmptyBucket
<1>2. \A i \in BucketIds : ObjectsOf(buckets[i]) = {}
  BY <1>1 DEF ObjectsOf
<1>3. InHistory /\ \A i \in BucketIds : Sorted(buckets[i], heard)
  BY <1>1, <1>2 DEF InHistory, Sorted
<1> QED BY <1>3, InitInd DEF AgeInv

\* addCandidate: the contact is the first of the history, wherever it is filed
\* the object is the new one, and if it is cached it is the first.
LEMMA AddCandidateAge ==
  ASSUME AgeInv, NEW node \in Node, AddCandidate(node)
  PROVE  AgeInv'
<1>1. IndInv /\ IndInv'
  BY AddCandidateInd DEF AgeInv
<1>2. CASE node.id = Root
  <2>1. buckets' = buckets /\ heard' = heard
    BY <1>2 DEF AddCandidate, TableWith
  <2> QED BY <1>1, <2>1 DEF AgeInv, InHistory
<1>3. CASE node.id # Root
  <2> DEFINE j == BucketOf(Root, node.id)
             b == buckets[j]
             h2 == Hearing(heard, node)
  <2>1. j \in BucketIds
    BY RootAssumption, BucketInRange DEF Node
  <2>2. \A i \in BucketIds :
          buckets'[i] = IF i = j THEN Save(b, node) ELSE buckets[i]
    BY <1>1, <1>3, <2>1 DEF AddCandidate, TableWith, IndInv, TypeOK, Table
  <2>3. heard' = h2
    BY <1>3 DEF AddCandidate, Hearing
  <2>4. heard \in Seq(Node) /\ Distinct(heard)
    BY <1>1, <2>1, BucketOfTable
  <2>5. b \in Bucket /\ BucketOK(b)
    BY <1>1, <2>1, BucketOfTable
  <2>6. \A i \in BucketIds : i # j => node.id \notin IdsIn(buckets[i])
    BY <1>1, BucketOfTable
  <2>7. \A o : o.id # node.id /\ (\E x \in DOMAIN heard : heard[x] = o)
               => \E z \in DOMAIN h2 : h2[z] = o
    BY <2>4, HeardFacts
  <2>8. \E z \in DOMAIN h2 : h2[z] = node
    BY <2>4, HeardFacts
  <2>9. \A i \in BucketIds : \A o \in ObjectsOf(buckets[i]) :
          \E x \in DOMAIN heard : heard[x] = o
    BY DEF AgeInv, InHistory
  <2>10. \A i \in BucketIds : Sorted(buckets[i], heard)
    BY DEF AgeInv
  <2>11. \A id : CacheHolds(b, id) => Holds(heard, id)
    BY <2>1, CachedHeard
  <2>12. Sorted(Save(b, node), h2)
    BY <2>1, <2>4, <2>5, <2>10, <2>11, SortedSave
  <2> HIDE DEF h2
  <2>13. ASSUME NEW i \in BucketIds, NEW o \in ObjectsOf(buckets'[i])
         PROVE  \E z \in DOMAIN h2 : h2[z] = o
    <3>1. CASE i = j
      <4>1. o \in ObjectsOf(Save(b, node))
        BY <2>2, <2>13, <3>1
      <4>2. o = node \/ (o \in ObjectsOf(b) /\ o.id # node.id)
        BY <2>5, <4>1, SaveObjects
      <4> QED BY <2>1, <2>7, <2>8, <2>9, <4>2
    <3>2. CASE i # j
      <4>1. o \in ObjectsOf(buckets[i])
        BY <2>2, <2>13, <3>2
      <4>2. o.id # node.id
        BY <1>1, <2>6, <3>2, <4>1, BucketOfTable
      <4> QED BY <2>7, <2>9, <4>1, <4>2
    <3> QED BY <3>1, <3>2
  <2>14. ASSUME NEW i \in BucketIds
         PROVE  Sorted(buckets'[i], h2)
    <3>1. CASE i = j
      BY <2>2, <2>12, <3>1
    <3>2. CASE i # j
      <4>1. ~CacheHolds(buckets[i], node.id)
        BY <2>6, <3>2, IdsInFacts
      <4>2. Sorted(buckets[i], h2)
        BY <2>4, <2>10, <4>1, SortedOther DEF h2
      <4> QED BY <2>2, <3>2, <4>2
    <3> QED BY <3>1, <3>2
  <2> QED BY <1>1, <2>3, <2>13, <2>14 DEF AgeInv, InHistory
<1> QED BY <1>2, <1>3

\* removeNode: no one is heard, no object is new, and the cache loses its
\* first id or none.
LEMMA RemoveNodeAge ==
  ASSUME AgeInv, NEW id \in NodeId, RemoveNode(id)
  PROVE  AgeInv'
<1> DEFINE j == BucketOf(Root, id)
           b == buckets[j]
<1>1. IndInv /\ IndInv' /\ heard' = heard
  BY RemoveNodeInd DEF AgeInv, RemoveNode
<1>2. j \in BucketIds
  BY RootAssumption, BucketInRange
<1>3. \A i \in BucketIds :
        buckets'[i] = IF i = j THEN RemoveContact(b, id) ELSE buckets[i]
  BY <1>1, <1>2 DEF RemoveNode, TableWithout, IndInv, TypeOK, Table
<1>4. b \in Bucket /\ BucketOK(b) /\ Sorted(b, heard)
  BY <1>1, <1>2, BucketOfTable DEF AgeInv
<1>5. ASSUME NEW i \in BucketIds, NEW o \in ObjectsOf(buckets'[i])
      PROVE  o \in ObjectsOf(buckets[i])
  <2>1. CASE i = j
    <3>1. o \in ObjectsOf(RemoveContact(b, id))
      BY <1>3, <1>5, <2>1
    <3> QED BY <1>4, <2>1, <3>1, RemoveObjects
  <2>2. CASE i # j
    BY <1>3, <1>5, <2>2
  <2> QED BY <2>1, <2>2
<1>6. ASSUME NEW i \in BucketIds
      PROVE  Sorted(buckets'[i], heard)
  <2>1. CASE i = j
    BY <1>3, <1>4, <2>1, SortedRemove
  <2>2. CASE i # j
    BY <1>3, <2>2 DEF AgeInv
  <2> QED BY <2>1, <2>2
<1> QED BY <1>1, <1>5, <1>6 DEF AgeInv, InHistory

\* Any call, and any step without one, keeps the invariant.
LEMMA NextAge == AgeInv /\ [Next]_vars => AgeInv'
<1> SUFFICES ASSUME AgeInv, [Next]_vars PROVE AgeInv'
  OBVIOUS
<1>1. ASSUME NEW node \in Node, AddCandidate(node) PROVE AgeInv'
  BY <1>1, AddCandidateAge
<1>2. ASSUME NEW id \in NodeId, RemoveNode(id) PROVE AgeInv'
  BY <1>2, RemoveNodeAge
<1>3. CASE UNCHANGED vars
  <2>1. buckets' = buckets /\ heard' = heard
    BY <1>3 DEF vars
  <2>2. IndInv'
    BY <1>3, NextInd DEF AgeInv
  <2> QED BY <2>1, <2>2 DEF AgeInv, InHistory
<1> QED BY <1>1, <1>2, <1>3 DEF Next

\* What the table knows of a contact, live or cached, is what was heard of it
\* last, after any calls in any order.
THEOREM FreshestCorrect == Spec => []FreshestObject
<1>1. Spec => []AgeInv
  BY InitAge, NextAge, PTL DEF Spec
<1>2. ASSUME AgeInv PROVE FreshestObject
  <2> SUFFICES ASSUME NEW id \in NodeId, GetNode(buckets, Root, id) # NoNode
               PROVE  /\ Holds(heard, id)
                      /\ GetNode(buckets, Root, id) = heard[PlaceOf(heard, id)]
    BY DEF FreshestObject
  <2> DEFINE i == BucketOf(Root, id)
             node == GetNode(buckets, Root, id)
  <2>1. i \in BucketIds
    BY RootAssumption, BucketInRange
  <2>2. /\ buckets[i] \in Bucket /\ BucketOK(buckets[i])
        /\ heard \in Seq(Node) /\ Distinct(heard)
    BY <1>2, <2>1, BucketOfTable DEF AgeInv
  <2>3. node \in ObjectsOf(buckets[i]) /\ node.id = id
    BY <2>2, FetchFacts DEF GetNode
  <2>4. PICK x \in DOMAIN heard : heard[x] = node
    BY <1>2, <2>1, <2>3 DEF AgeInv, InHistory
  <2>5. PlaceOf(heard, id) = x
    BY <2>2, <2>3, <2>4, PlaceFacts
  <2> QED BY <2>3, <2>4, <2>5 DEF Holds
<1> QED BY <1>1, <1>2, PTL

\* A cache that is sorted by the history is sorted by the places in it.
LEMMA AgeRecency == AgeInv => CacheByRecency
<1> SUFFICES ASSUME AgeInv, NEW i \in BucketIds,
                    NEW x \in DOMAIN buckets[i].cacheIds,
                    NEW y \in DOMAIN buckets[i].cacheIds, x < y
             PROVE  PlaceOf(heard, buckets[i].cacheIds[x])
                      < PlaceOf(heard, buckets[i].cacheIds[y])
  BY DEF CacheByRecency
<1>1. heard \in Seq(Node) /\ Distinct(heard)
  BY BucketOfTable DEF AgeInv
<1>2. PICK u, v \in DOMAIN heard :
        /\ u < v
        /\ heard[u].id = buckets[i].cacheIds[x]
        /\ heard[v].id = buckets[i].cacheIds[y]
  BY DEF AgeInv, Sorted, Fresher
<1>3. /\ PlaceOf(heard, heard[u].id) = u
      /\ PlaceOf(heard, heard[v].id) = v
  BY <1>1, PlaceFacts
<1> QED BY <1>2, <1>3

\* The caches list contacts from the one heard last to the one heard longest
\* ago, after any calls in any order.
THEOREM RecencyCorrect == Spec => []CacheByRecency
<1>1. Spec => []AgeInv
  BY InitAge, NextAge, PTL DEF Spec
<1> QED BY <1>1, AgeRecency, PTL

-----------------------------------------------------------------------------
(* PeerSets: lists, places and maps do what the sets of live and spare     *)
(* contacts promise. What a bucket is to PeerSets is whom it holds, live   *)
(* (Holds) or cached (CacheHolds), and what it finds of them (Fetch); the  *)
(* lemmas say what the calls do to these three, removeNode first. Every    *)
(* call is then a step of PeerSets or none.                                *)

\* removeNode of someone who is not live does nothing.
LEMMA RemoveOther ==
  ASSUME NEW b \in Bucket, BucketOK(b), NEW id, ~Holds(b.nodes, id)
  PROVE  RemoveContact(b, id) = b
<1> DEFINE c == RemoveContact(b, id)
<1>1. Dropped(b, c, id)
  BY RemoveShape DEF Promoted
<1>2. c.nodes = b.nodes /\ c.cacheIds = b.cacheIds /\ c.cacheNodes = b.cacheNodes
  BY <1>1 DEF Dropped, Without
<1>3. c \in Bucket
  BY RemoveContactFacts
<1> HIDE DEF c
<1>4. c = [nodes |-> c.nodes, cacheIds |-> c.cacheIds,
           cacheNodes |-> c.cacheNodes]
  BY <1>3 DEF Bucket
<1> QED BY <1>2, <1>4, BucketFacts DEF c

\* removeNode of a live contact: it is forgotten, nobody else is, and if
\* someone is cached one of them is live instead.
LEMMA RemoveLive ==
  ASSUME NEW b \in Bucket, BucketOK(b), NEW id \in NodeId, Holds(b.nodes, id)
  PROVE  /\ \A i \in NodeId :
              Fetch(RemoveContact(b, id), i)
                = IF i = id THEN NoNode ELSE Fetch(b, i)
         /\ \/ /\ b.cacheIds = <<>>
               /\ \A i \in NodeId :
                    Holds(RemoveContact(b, id).nodes, i)
                      <=> i # id /\ Holds(b.nodes, i)
            \/ \E next \in NodeId :
                 /\ CacheHolds(b, next) /\ next = b.cacheIds[1]
                 /\ \A i \in NodeId :
                      Holds(RemoveContact(b, id).nodes, i)
                        <=> i = next \/ (i # id /\ Holds(b.nodes, i))
<1> DEFINE w == Without(b.nodes, id)
           c == RemoveContact(b, id)
<1>1. /\ b.nodes \in Seq(Node) /\ Distinct(b.nodes) /\ w \in Seq(Node)
      /\ c \in Bucket /\ BucketOK(c)
  BY BucketFacts, WithoutFacts, RemoveContactFacts
     DEF BucketOK, DistinctIds, Distinct
<1>2. /\ \A i : Holds(w, i) <=> i # id /\ Holds(b.nodes, i)
      /\ \A x \in DOMAIN b.nodes : b.nodes[x].id # id =>
           \E y \in DOMAIN w : w[y] = b.nodes[x]
  BY <1>1, WithoutWho
<1>3. ~CacheHolds(b, id)
  BY DEF BucketOK, LiveXorCached, Holds
<1>4. b.cacheNodes[id] = NoNode
  BY <1>3 DEF BucketOK, CacheInSync
<1>5. CASE Dropped(b, c, id)
  <2>1. c.nodes = w /\ c.cacheNodes = b.cacheNodes /\ b.cacheIds = <<>>
    BY <1>5 DEF Dropped
  <2> HIDE DEF w, c
  <2>2. ASSUME NEW i \in NodeId, i # id
        PROVE  Fetch(c, i) = Fetch(b, i)
    <3>1. CASE Holds(b.nodes, i)
      <4>1. PICK x \in DOMAIN b.nodes : b.nodes[x].id = i
        BY <3>1 DEF Holds
      <4>2. \E y \in DOMAIN c.nodes : c.nodes[y] = b.nodes[x]
        BY <1>2, <2>1, <2>2, <4>1
      <4>3. b.nodes[x] \in ObjectsOf(b) /\ b.nodes[x] \in ObjectsOf(c)
        BY <4>2 DEF ObjectsOf
      <4> QED BY <1>1, <4>1, <4>3, FetchObject
    <3>2. CASE ~Holds(b.nodes, i)
      BY <1>2, <2>1, <3>2 DEF Fetch
    <3> QED BY <3>1, <3>2
  <2>3. Fetch(c, id) = NoNode
    BY <1>2, <1>4, <2>1 DEF Fetch
  <2> QED BY <1>2, <2>1, <2>2, <2>3 DEF c
<1>6. CASE Promoted(b, c, id)
  <2> DEFINE first == b.cacheIds[1]
             node == b.cacheNodes[first]
  <2>1. first \in NodeId /\ CacheHolds(b, first)
    BY <1>6, BucketFacts DEF Promoted, CacheHolds
  <2>2. node \in Node /\ node.id = first /\ node # NoNode
    BY <2>1, BucketFacts DEF BucketOK, CacheInSync
  <2>3. /\ c.nodes = <<node>> \o w
        /\ \A i \in NodeId :
             c.cacheNodes[i] = IF i = first THEN NoNode ELSE b.cacheNodes[i]
    BY <1>6 DEF Promoted
  <2> HIDE DEF w, c, node, first
  <2>4. \A i : Holds(c.nodes, i) <=> i = first \/ (i # id /\ Holds(b.nodes, i))
    BY <1>1, <1>2, <2>2, <2>3, FrontWho
  <2>5. /\ \E y \in DOMAIN c.nodes : c.nodes[y] = node
        /\ \A x \in DOMAIN w : \E y \in DOMAIN c.nodes : c.nodes[y] = w[x]
    <3>1. /\ \E y \in DOMAIN (<<node>> \o w) : (<<node>> \o w)[y] = node
          /\ \A x \in DOMAIN w :
               \E y \in DOMAIN (<<node>> \o w) : (<<node>> \o w)[y] = w[x]
      BY <1>1, <2>2, FrontWho
    <3>2. c.nodes = <<node>> \o w
      BY <2>3
    <3> QED BY <3>1, <3>2, Zenon
  <2>6. ~Holds(b.nodes, first) /\ first # id
    BY <1>3, <2>1 DEF BucketOK, LiveXorCached, Holds
  <2>7. Fetch(c, first) = Fetch(b, first)
    <3>1. node \in ObjectsOf(c)
      BY <2>5 DEF ObjectsOf
    <3>2. Fetch(c, first) = node
      BY <1>1, <2>2, <3>1, FetchObject
    <3> QED BY <2>6, <3>2 DEF Fetch, node
  <2>8. Fetch(c, id) = NoNode
    BY <1>4, <2>3, <2>4, <2>6 DEF Fetch
  <2>9. ASSUME NEW i \in NodeId, i # id, i # first
        PROVE  Fetch(c, i) = Fetch(b, i)
    <3>1. CASE Holds(b.nodes, i)
      <4>1. PICK x \in DOMAIN b.nodes : b.nodes[x].id = i
        BY <3>1 DEF Holds
      <4>2. \E y \in DOMAIN c.nodes : c.nodes[y] = b.nodes[x]
        BY <1>2, <2>5, <2>9, <4>1
      <4>3. b.nodes[x] \in ObjectsOf(b) /\ b.nodes[x] \in ObjectsOf(c)
        BY <4>2 DEF ObjectsOf
      <4> QED BY <1>1, <4>1, <4>3, FetchObject
    <3>2. CASE ~Holds(b.nodes, i)
      BY <2>3, <2>4, <2>9, <3>2 DEF Fetch
    <3> QED BY <3>1, <3>2
  <2>10. first = b.cacheIds[1]
    BY DEF first
  <2> QED BY <2>1, <2>4, <2>7, <2>8, <2>9, <2>10 DEF c
<1> QED BY <1>5, <1>6, RemoveShape

-----------------------------------------------------------------------------
(* What the table is to PeerSets.                                          *)

\* The live ones are those in the lists, each in the bucket of its distance.
LiveAsHeld ==
  /\ LiveIds \subseteq NodeId \ {Root}
  /\ \A id \in NodeId :
       id \in LiveIds <=> Holds(buckets[BucketOf(Root, id)].nodes, id)

LEMMA LiveFacts == IndInv => LiveAsHeld
<1> SUFFICES ASSUME IndInv PROVE LiveAsHeld
  OBVIOUS
<1>1. LiveIds = UNION {{buckets[i].nodes[x].id : x \in DOMAIN buckets[i].nodes} :
                         i \in BucketIds}
  BY DEF LiveIds, LiveNodes, ToSet
<1>2. ASSUME NEW i \in BucketIds, NEW x \in DOMAIN buckets[i].nodes
      PROVE  /\ buckets[i].nodes[x].id \in NodeId \ {Root}
             /\ BucketOf(Root, buckets[i].nodes[x].id) = i
  <2>1. buckets[i].nodes[x] \in Node
    BY BucketOfTable, BucketFacts
  <2>2. buckets[i].nodes[x].id \in IdsIn(buckets[i])
    BY DEF IdsIn
  <2> QED BY <2>1, <2>2, BucketOfTable DEF Node
<1>3. \A id \in NodeId : BucketOf(Root, id) \in BucketIds
  BY RootAssumption, BucketInRange
<1> QED BY <1>1, <1>2, <1>3 DEF LiveAsHeld, Holds

LEMMA LiveFactsNext == IndInv' => LiveAsHeld'
BY LiveFacts, PTL

\* What is known of a contact, and whether anything is.
LEMMA KnownFacts ==
  ASSUME IndInv, NEW id \in NodeId \ {Root}
  PROVE  /\ AddressOf[id] # NoNode
              <=> \/ Holds(buckets[BucketOf(Root, id)].nodes, id)
                  \/ CacheHolds(buckets[BucketOf(Root, id)], id)
         /\ AddressOf[id] = IF GetNode(buckets, Root, id) = NoNode THEN NoNode
                            ELSE GetNode(buckets, Root, id).address
<1> DEFINE b == buckets[BucketOf(Root, id)]
<1>1. BucketOf(Root, id) \in BucketIds
  BY RootAssumption, BucketInRange
<1>2. b \in Bucket /\ BucketOK(b)
  BY <1>1, BucketOfTable
<1>3. GetNode(buckets, Root, id) = Fetch(b, id)
  BY DEF GetNode
<1>4. AddressOf[id] = IF GetNode(buckets, Root, id) = NoNode THEN NoNode
                      ELSE GetNode(buckets, Root, id).address
  BY DEF AddressOf
<1>5. Fetch(b, id) # NoNode => Fetch(b, id).address # NoNode
  BY <1>2, FetchWho, BucketAssumption DEF Node
<1> QED BY <1>2, <1>3, <1>4, <1>5, FetchWho

\* A group has as many live contacts as its bucket's list has places taken.
LEMMA LiveCount ==
  ASSUME IndInv, NEW g \in BucketIds
  PROVE  Cardinality(Peers!Live(g)) = Len(buckets[g].nodes)
<1> DEFINE nodes == buckets[g].nodes
           ids == [x \in 1 .. Len(nodes) |-> nodes[x].id]
<1>1. /\ nodes \in Seq(Node) /\ Distinct(nodes)
      /\ Len(nodes) \in Nat /\ DOMAIN nodes = 1 .. Len(nodes)
      /\ \A x \in 1 .. Len(nodes) : nodes[x].id \in NodeId
      /\ \A x \in DOMAIN nodes : BucketOf(Root, nodes[x].id) = g
  <2>1. buckets[g] \in Bucket /\ BucketOK(buckets[g])
    BY BucketOfTable
  <2>2. \A x \in DOMAIN nodes : nodes[x].id \in IdsIn(buckets[g])
    BY DEF IdsIn
  <2>3. Distinct(nodes)
    BY <2>1 DEF BucketOK, DistinctIds, Distinct
  <2>4. /\ nodes \in Seq(Node)
        /\ Len(nodes) \in Nat /\ DOMAIN nodes = 1 .. Len(nodes)
        /\ \A x \in 1 .. Len(nodes) : nodes[x] \in Node
    BY <2>1, BucketFacts
  <2>5. \A x \in DOMAIN nodes : BucketOf(Root, nodes[x].id) = g
    BY <2>2, BucketOfTable
  <2> QED BY <2>3, <2>4, <2>5 DEF Node
<1>2. /\ ids \in Seq(NodeId) /\ Len(ids) = Len(nodes)
      /\ DOMAIN ids = DOMAIN nodes
      /\ \A x \in DOMAIN nodes : ids[x] = nodes[x].id
  BY <1>1
<1>3. Peers!Live(g) = {id \in LiveIds : BucketOf(Root, id) = g}
  BY LiveFacts DEF Peers!Live, LiveAsHeld
<1> HIDE DEF ids
<1>4. Peers!Live(g) = {ids[x] : x \in DOMAIN ids}
  <2>1. ASSUME NEW id \in LiveIds, BucketOf(Root, id) = g
        PROVE  \E x \in DOMAIN ids : id = ids[x]
    <3>1. Holds(nodes, id)
      BY <2>1, LiveFacts DEF LiveAsHeld
    <3> QED BY <1>2, <3>1 DEF Holds
  <2>2. ASSUME NEW x \in DOMAIN ids
        PROVE  ids[x] \in LiveIds /\ BucketOf(Root, ids[x]) = g
    <3>1. Holds(nodes, nodes[x].id) /\ nodes[x].id \in NodeId
      BY <1>1, <1>2 DEF Holds
    <3> QED BY <1>1, <1>2, <3>1, LiveFacts DEF LiveAsHeld
  <2> QED BY <1>3, <2>1, <2>2
<1>5. \A x, y \in DOMAIN ids : ids[x] = ids[y] => x = y
  BY <1>1, <1>2 DEF Distinct
<1> QED BY <1>2, <1>4, <1>5, CountDistinct

\* The spares of a group are the ids of its bucket's cache.
LEMMA SpareFacts ==
  ASSUME IndInv, NEW g \in BucketIds
  PROVE  /\ \A id : id \in Peers!Spare(g) <=> CacheHolds(buckets[g], id)
         /\ IsFiniteSet(Peers!Spare(g))
         /\ Cardinality(Peers!Spare(g)) = Len(buckets[g].cacheIds)
<1> DEFINE b == buckets[g]
<1>1. b \in Bucket /\ BucketOK(b)
  BY BucketOfTable
<1>2. Peers!Spare(g) =
        {id \in (NodeId \ {Root}) \ LiveIds :
           BucketOf(Root, id) = g /\ AddressOf[id] # NoNode}
  BY DEF Peers!Spare
<1>3. ASSUME NEW id, CacheHolds(b, id)
      PROVE  id \in Peers!Spare(g)
  <2>1. id \in NodeId \ {Root} /\ BucketOf(Root, id) = g
    BY <1>1, <1>3, BucketOfTable, BucketFacts DEF CacheHolds
  <2>2. ~Holds(b.nodes, id)
    BY <1>1, <1>3 DEF BucketOK, LiveXorCached, Holds
  <2>3. id \notin LiveIds
    BY <2>1, <2>2, LiveFacts DEF LiveAsHeld
  <2>4. AddressOf[id] # NoNode
    BY <1>3, <2>1, KnownFacts
  <2> QED BY <1>2, <2>1, <2>3, <2>4
<1>4. ASSUME NEW id \in Peers!Spare(g)
      PROVE  CacheHolds(b, id)
  <2>1. id \in NodeId \ {Root} /\ id \notin LiveIds /\ BucketOf(Root, id) = g
        /\ AddressOf[id] # NoNode
    BY <1>2
  <2>2. ~Holds(b.nodes, id)
    BY <2>1, LiveFacts DEF LiveAsHeld
  <2> QED BY <2>1, <2>2, KnownFacts
<1>5. Peers!Spare(g) = {b.cacheIds[x] : x \in DOMAIN b.cacheIds}
  BY <1>3, <1>4 DEF CacheHolds
<1>6. b.cacheIds \in Seq(NodeId)
      /\ \A x, y \in DOMAIN b.cacheIds : b.cacheIds[x] = b.cacheIds[y] => x = y
  BY <1>1, BucketFacts DEF BucketOK, DistinctIds
<1>7. IsFiniteSet(Peers!Spare(g)) /\ Cardinality(Peers!Spare(g)) = Len(b.cacheIds)
  <2> HIDE DEF b
  <2>1. /\ IsFiniteSet({b.cacheIds[x] : x \in DOMAIN b.cacheIds})
        /\ Cardinality({b.cacheIds[x] : x \in DOMAIN b.cacheIds}) = Len(b.cacheIds)
    BY <1>6, CountDistinct
  <2> QED BY <1>5, <2>1
<1> QED BY <1>3, <1>4, <1>7

-----------------------------------------------------------------------------
(* The refinement.                                                         *)

\* PeerSets counts as the table does.
LEMMA SameCount == \A S : Peers!Cardinality(S) = Cardinality(S)
BY DEF Cardinality, Peers!Cardinality

\* A new table is one where nothing is known of anyone.
LEMMA InitSets == Init => Peers!Init
<1> SUFFICES ASSUME Init PROVE Peers!Init
  OBVIOUS
<1>1. IndInv
  BY InitInd
<1>2. \A i \in BucketIds : /\ DOMAIN buckets[i].nodes = {}
                           /\ DOMAIN buckets[i].cacheIds = {}
  BY DEF Init, EmptyTable, EmptyBucket
<1>3. \A id \in NodeId : BucketOf(Root, id) \in BucketIds
  BY RootAssumption, BucketInRange
<1>4. \A id \in NodeId : /\ ~Holds(buckets[BucketOf(Root, id)].nodes, id)
                         /\ ~CacheHolds(buckets[BucketOf(Root, id)], id)
  BY <1>2, <1>3 DEF Holds, CacheHolds
<1>5. LiveIds = {}
  BY <1>1, <1>4, LiveFacts DEF LiveAsHeld
<1>6. \A id \in NodeId \ {Root} : AddressOf[id] = NoNode
  BY <1>1, <1>4, KnownFacts
<1>7. AddressOf = [id \in NodeId \ {Root} |-> NoNode]
  BY <1>6 DEF AddressOf
<1> QED BY <1>5, <1>7 DEF Peers!Init

\* A call that makes bucket j into c changes what is known and who is live as
\* c differs from the bucket before.
LEMMA SetsChange ==
  ASSUME IndInv, IndInv', NEW j \in BucketIds, NEW c,
         buckets' = [buckets EXCEPT ![j] = c]
  PROVE  /\ \A id \in NodeId \ {Root} :
              GetNode(buckets, Root, id)' =
                IF BucketOf(Root, id) = j THEN Fetch(c, id)
                ELSE GetNode(buckets, Root, id)
         /\ \A id \in NodeId :
              id \in LiveIds' <=>
                IF BucketOf(Root, id) = j THEN Holds(c.nodes, id)
                ELSE id \in LiveIds
         /\ LiveIds \subseteq NodeId /\ LiveIds' \subseteq NodeId
<1>1. \A i \in BucketIds : buckets'[i] = IF i = j THEN c ELSE buckets[i]
  BY DEF IndInv, TypeOK, Table
<1>2. \A id \in NodeId : BucketOf(Root, id) \in BucketIds
  BY RootAssumption, BucketInRange
<1>3. \A id \in NodeId :
        /\ id \in LiveIds <=> Holds(buckets[BucketOf(Root, id)].nodes, id)
        /\ id \in LiveIds' <=> Holds(buckets'[BucketOf(Root, id)].nodes, id)
  BY LiveFacts, LiveFactsNext DEF LiveAsHeld
<1>4. LiveIds \subseteq NodeId /\ LiveIds' \subseteq NodeId
  BY LiveFacts, LiveFactsNext DEF LiveAsHeld
<1>5. \A id \in NodeId : GetNode(buckets, Root, id)' =
                           Fetch(buckets'[BucketOf(Root, id)], id)
  BY DEF GetNode
<1>6. \A id \in NodeId : GetNode(buckets, Root, id) =
                           Fetch(buckets[BucketOf(Root, id)], id)
  BY DEF GetNode
<1> QED BY <1>1, <1>2, <1>3, <1>4, <1>5, <1>6

\* addCandidate of another peer is hearing a live contact or a spare.
LEMMA AddCandidateSets ==
  ASSUME IndInv, IndInv', NEW node \in Node, AddCandidate(node),
         node.id # Root
  PROVE  Peers!HearLive(node.id, node.address)
           \/ Peers!HearSpare(node.id, node.address)
<1> DEFINE me == node.id
           j == BucketOf(Root, me)
           b == buckets[j]
           c == Save(b, node)
<1>1. me \in NodeId \ {Root} /\ node.address \in Address /\ node # NoNode
  BY BucketAssumption DEF Node
<1>2. j \in BucketIds
  BY <1>1, RootAssumption, BucketInRange
<1>3. b \in Bucket /\ BucketOK(b)
  BY <1>2, BucketOfTable
<1>4. buckets' = [buckets EXCEPT ![j] = c]
  BY <1>2 DEF AddCandidate, TableWith, IndInv, TypeOK, Table
<1> DEFINE GroupMap == [id \in NodeId |-> BucketOf(Root, id)]
<1>5. GroupMap[me] = j
  BY <1>1
<1>6. Cardinality(Peers!Live(j)) = Len(b.nodes)
  BY <1>2, LiveCount
<1>7. /\ \A id : id \in Peers!Spare(j) <=> CacheHolds(b, id)
      /\ IsFiniteSet(Peers!Spare(j))
      /\ Cardinality(Peers!Spare(j)) = Len(b.cacheIds)
  BY <1>2, SpareFacts
<1>8. me \in LiveIds <=> Holds(b.nodes, me)
  BY <1>1, LiveFacts DEF LiveAsHeld
<1>9. BucketOf(Root, me) = j
  OBVIOUS
<1> HIDE DEF j, c
<1>10. /\ \A id \in NodeId \ {Root} :
            GetNode(buckets, Root, id)' =
              IF BucketOf(Root, id) = j THEN Fetch(c, id)
              ELSE GetNode(buckets, Root, id)
       /\ \A id \in NodeId :
            id \in LiveIds' <=>
              IF BucketOf(Root, id) = j THEN Holds(c.nodes, id)
              ELSE id \in LiveIds
       /\ LiveIds \subseteq NodeId /\ LiveIds' \subseteq NodeId
  BY <1>2, <1>4, SetsChange
<1>11. \A id \in NodeId : BucketOf(Root, id) = j =>
         /\ id \in LiveIds <=> Holds(b.nodes, id)
         /\ GetNode(buckets, Root, id) = Fetch(b, id)
  BY LiveFacts DEF LiveAsHeld, GetNode
<1>12. /\ AddressOf = [id \in NodeId \ {Root} |->
                         IF GetNode(buckets, Root, id) = NoNode THEN NoNode
                         ELSE GetNode(buckets, Root, id).address]
       /\ AddressOf' = [id \in NodeId \ {Root} |->
                          IF GetNode(buckets, Root, id)' = NoNode THEN NoNode
                          ELSE GetNode(buckets, Root, id)'.address]
  BY DEF AddressOf
<1>13. CASE Saved(b, node)
  <2>1. /\ Holds(b.nodes, me) \/ Len(b.nodes) < NodesPerBucket
        /\ \A id \in NodeId :
             /\ Holds(c.nodes, id) <=> id = me \/ Holds(b.nodes, id)
             /\ Fetch(c, id) = IF id = me THEN node ELSE Fetch(b, id)
    BY <1>3, <1>13, SaveWithRoom DEF c
  <2> HIDE DEF b, me
  <2>2. LiveIds' = LiveIds \cup {me}
    BY <1>1, <1>9, <1>10, <1>11, <2>1
  <2>3. \A id \in NodeId \ {Root} :
          GetNode(buckets, Root, id)' =
            IF id = me THEN node ELSE GetNode(buckets, Root, id)
    BY <1>1, <1>9, <1>10, <1>11, <2>1
  <2>4. AddressOf' = [AddressOf EXCEPT ![me] = node.address]
    BY <1>1, <1>12, <2>3
  <2>5. me \in LiveIds \/ Cardinality(Peers!Live(GroupMap[me])) < NodesPerBucket
    BY <1>5, <1>6, <1>8, <2>1
  <2> QED BY <2>2, <2>4, <2>5, SameCount DEF Peers!HearLive, me
<1>14. CASE ~Saved(b, node)
  <2>1. /\ ~Holds(b.nodes, me) /\ Len(b.nodes) = NodesPerBucket
        /\ c.nodes = b.nodes
        /\ \/ /\ CacheHolds(b, me) \/ Len(b.cacheIds) < NodesPerBucket
              /\ \A id \in NodeId :
                   Fetch(c, id) = IF id = me THEN node ELSE Fetch(b, id)
           \/ /\ ~CacheHolds(b, me) /\ Len(b.cacheIds) = NodesPerBucket
              /\ \E lost \in NodeId :
                   /\ CacheHolds(b, lost)
                   /\ \A id \in NodeId :
                        Fetch(c, id) = IF id = me THEN node
                                       ELSE IF id = lost THEN NoNode
                                       ELSE Fetch(b, id)
    BY <1>3, <1>14, SaveWithoutRoom DEF c
  <2> DEFINE others == Peers!Spare(GroupMap[me]) \ {me}
  <2>2. /\ Len(b.cacheIds) \in Nat /\ Len(b.cacheIds) <= NodesPerBucket
        /\ NodesPerBucket \in Nat
    BY <1>3, BucketFacts
  <2>3. /\ others = Peers!Spare(j) \ {me}
        /\ Cardinality(others) = IF CacheHolds(b, me) THEN Len(b.cacheIds) - 1
                                 ELSE Len(b.cacheIds)
    <3>1. others = Peers!Spare(j) \ {me}
      BY <1>5
    <3> HIDE DEF others
    <3>2. Cardinality(Peers!Spare(j) \ {me})
            = IF me \in Peers!Spare(j) THEN Cardinality(Peers!Spare(j)) - 1
              ELSE Cardinality(Peers!Spare(j))
      BY <1>7, FS_RemoveElement
    <3> QED BY <1>7, <3>1, <3>2
  <2>a. Cardinality(Peers!Live(GroupMap[me])) = NodesPerBucket
    BY <1>5, <1>6, <2>1
  <2> HIDE DEF b, me, others
  <2>4. LiveIds' = LiveIds /\ me \notin LiveIds
    BY <1>8, <1>10, <1>11, <2>1
  <2>5. CASE /\ CacheHolds(b, me) \/ Len(b.cacheIds) < NodesPerBucket
             /\ \A id \in NodeId :
                  Fetch(c, id) = IF id = me THEN node ELSE Fetch(b, id)
    <3>1. Cardinality(others) < NodesPerBucket
      BY <2>2, <2>3, <2>5
    <3>2. \A id \in NodeId \ {Root} :
            GetNode(buckets, Root, id)' =
              IF id = me THEN node ELSE GetNode(buckets, Root, id)
      BY <1>1, <1>9, <1>10, <1>11, <2>5
    <3>3. AddressOf' = [AddressOf EXCEPT ![me] = node.address]
      BY <1>1, <1>12, <3>2
    <3> QED BY <2>a, <2>4, <3>1, <3>3, SameCount DEF Peers!HearSpare, me, others
  <2>6. CASE /\ ~CacheHolds(b, me) /\ Len(b.cacheIds) = NodesPerBucket
             /\ \E lost \in NodeId :
                  /\ CacheHolds(b, lost)
                  /\ \A id \in NodeId :
                       Fetch(c, id) = IF id = me THEN node
                                      ELSE IF id = lost THEN NoNode
                                      ELSE Fetch(b, id)
    <3>1. PICK lost \in NodeId :
            /\ CacheHolds(b, lost)
            /\ \A id \in NodeId :
                 Fetch(c, id) = IF id = me THEN node
                                ELSE IF id = lost THEN NoNode
                                ELSE Fetch(b, id)
      BY <2>6
    <3>2. ~(Cardinality(others) < NodesPerBucket)
      BY <2>2, <2>3, <2>6
    <3>3. lost \in others /\ lost # me
      BY <1>7, <2>3, <2>6, <3>1
    <3>4. lost \in NodeId \ {Root} /\ BucketOf(Root, lost) = j
      <4>1. lost \in IdsIn(buckets[j])
        BY <3>1, IdsInFacts DEF b
      <4> QED BY <1>2, <3>1, <4>1, BucketOfTable
    <3>5. \A id \in NodeId \ {Root} :
            GetNode(buckets, Root, id)' =
              IF id = me THEN node
              ELSE IF id = lost THEN NoNode ELSE GetNode(buckets, Root, id)
      BY <1>1, <1>9, <1>10, <1>11, <3>1, <3>4
    <3>6. AddressOf' = [AddressOf EXCEPT ![me] = node.address, ![lost] = NoNode]
      BY <1>1, <1>12, <3>3, <3>4, <3>5
    <3> QED BY <2>a, <2>4, <3>2, <3>3, <3>6, SameCount DEF Peers!HearSpare, me, others
  <2> QED BY <2>1, <2>5, <2>6
<1> QED BY <1>13, <1>14

\* removeNode is the failure of a live contact, or nothing.
LEMMA RemoveNodeSets ==
  ASSUME IndInv, IndInv', NEW id \in NodeId, RemoveNode(id)
  PROVE  UNCHANGED buckets \/ (id # Root /\ Peers!Fail(id))
<1> DEFINE j == BucketOf(Root, id)
           b == buckets[j]
           c == RemoveContact(b, id)
           GroupMap == [i \in NodeId |-> BucketOf(Root, i)]
<1>1. j \in BucketIds
  BY RootAssumption, BucketInRange
<1>2. b \in Bucket /\ BucketOK(b) /\ buckets \in Table
  BY <1>1, BucketOfTable DEF IndInv, TypeOK
<1>3. buckets' = [buckets EXCEPT ![j] = c]
  BY <1>1, <1>2 DEF RemoveNode, TableWithout, Table
<1>4. CASE ~Holds(b.nodes, id)
  <2>1. c = b
    BY <1>2, <1>4, RemoveOther
  <2> QED BY <1>1, <1>2, <1>3, <2>1 DEF Table
<1>5. CASE Holds(b.nodes, id)
  <2>1. id \in LiveIds /\ id # Root
    BY <1>5, LiveFacts DEF LiveAsHeld
  <2>2. \A i : i \in Peers!Spare(j) <=> CacheHolds(b, i)
    BY <1>1, SpareFacts
  <2>3. GroupMap[id] = j /\ BucketOf(Root, id) = j
    OBVIOUS
  <2>4. /\ \A i \in NodeId :
             Fetch(c, i) = IF i = id THEN NoNode ELSE Fetch(b, i)
        /\ \/ /\ b.cacheIds = <<>>
              /\ \A i \in NodeId :
                   Holds(c.nodes, i) <=> i # id /\ Holds(b.nodes, i)
           \/ \E next \in NodeId :
                /\ CacheHolds(b, next)
                /\ \A i \in NodeId :
                     Holds(c.nodes, i)
                       <=> i = next \/ (i # id /\ Holds(b.nodes, i))
    BY <1>2, <1>5, RemoveLive
  <2> HIDE DEF j, c
  <2>5. /\ \A i \in NodeId \ {Root} :
             GetNode(buckets, Root, i)' =
               IF BucketOf(Root, i) = j THEN Fetch(c, i)
               ELSE GetNode(buckets, Root, i)
        /\ \A i \in NodeId :
             i \in LiveIds' <=>
               IF BucketOf(Root, i) = j THEN Holds(c.nodes, i)
               ELSE i \in LiveIds
        /\ LiveIds \subseteq NodeId /\ LiveIds' \subseteq NodeId
    BY <1>1, <1>3, SetsChange
  <2>6. \A i \in NodeId : BucketOf(Root, i) = j =>
          /\ i \in LiveIds <=> Holds(b.nodes, i)
          /\ GetNode(buckets, Root, i) = Fetch(b, i)
    BY LiveFacts DEF LiveAsHeld, GetNode
  <2>7. /\ AddressOf = [i \in NodeId \ {Root} |->
                          IF GetNode(buckets, Root, i) = NoNode THEN NoNode
                          ELSE GetNode(buckets, Root, i).address]
        /\ AddressOf' = [i \in NodeId \ {Root} |->
                           IF GetNode(buckets, Root, i)' = NoNode THEN NoNode
                           ELSE GetNode(buckets, Root, i)'.address]
    BY DEF AddressOf
  <2> HIDE DEF b
  <2>8. \A i \in NodeId \ {Root} :
          GetNode(buckets, Root, i)' =
            IF i = id THEN NoNode ELSE GetNode(buckets, Root, i)
    BY <2>3, <2>4, <2>5, <2>6
  <2>9. AddressOf' = [AddressOf EXCEPT ![id] = NoNode]
    BY <2>1, <2>7, <2>8
  <2>10. CASE /\ b.cacheIds = <<>>
              /\ \A i \in NodeId :
                   Holds(c.nodes, i) <=> i # id /\ Holds(b.nodes, i)
    <3>1. DOMAIN b.cacheIds = {}
      BY <2>10
    <3>2. Peers!Spare(GroupMap[id]) = {}
      BY <2>2, <2>3, <3>1 DEF CacheHolds
    <3>3. LiveIds' = LiveIds \ {id}
      BY <2>3, <2>5, <2>6, <2>10
    <3> QED BY <2>1, <2>9, <3>2, <3>3 DEF Peers!Fail
  <2>11. CASE \E next \in NodeId :
                /\ CacheHolds(b, next)
                /\ \A i \in NodeId :
                     Holds(c.nodes, i)
                       <=> i = next \/ (i # id /\ Holds(b.nodes, i))
    <3>1. PICK next \in NodeId :
            /\ CacheHolds(b, next)
            /\ \A i \in NodeId :
                 Holds(c.nodes, i) <=> i = next \/ (i # id /\ Holds(b.nodes, i))
      BY <2>11
    <3>2. next \in Peers!Spare(GroupMap[id])
      BY <2>2, <2>3, <3>1
    <3>3. BucketOf(Root, next) = j
      <4>1. next \in IdsIn(buckets[j])
        BY <3>1, IdsInFacts DEF b
      <4> QED BY <1>1, <4>1, BucketOfTable
    <3>4. LiveIds' = (LiveIds \ {id}) \cup {next}
      BY <2>3, <2>5, <2>6, <3>1, <3>3
    <3>5. Peers!Spare(GroupMap[id]) # {}
      BY <3>2
    <3> QED BY <2>1, <2>9, <3>2, <3>4, <3>5 DEF Peers!Fail
  <2> QED BY <2>4, <2>10, <2>11
<1> QED BY <1>4, <1>5

\* Every call of addCandidate and removeNode, with the lists, places and maps
\* it works on, is a step of PeerSets or changes nothing there: the table
\* implements what it promises.
THEOREM SetsImplemented == Spec => ImplementsPeerSets
<1>1. Spec => []IndInv
  BY InitInd, NextInd, PTL DEF Spec
<1>2. ASSUME IndInv, IndInv', [Next]_vars
      PROVE  [Peers!Next]_(Peers!vars)
  <2>1. ASSUME UNCHANGED buckets
        PROVE  UNCHANGED Peers!vars
    BY <2>1 DEF Peers!vars, AddressOf, LiveIds, LiveNodes
  <2>2. ASSUME NEW node \in Node, AddCandidate(node)
        PROVE  [Peers!Next]_(Peers!vars)
    <3>1. CASE node.id = Root
      BY <2>1, <2>2, <3>1 DEF AddCandidate, TableWith
    <3>2. CASE node.id # Root
      <4>1. node.id \in NodeId \ {Root} /\ node.address \in Address
        BY <3>2 DEF Node
      <4> QED BY <1>2, <2>2, <3>2, <4>1, AddCandidateSets DEF Peers!Next
    <3> QED BY <3>1, <3>2
  <2>3. ASSUME NEW id \in NodeId, RemoveNode(id)
        PROVE  [Peers!Next]_(Peers!vars)
    <3>1. CASE UNCHANGED buckets
      BY <2>1, <3>1
    <3>2. CASE id # Root /\ Peers!Fail(id)
      BY <3>2 DEF Peers!Next
    <3> QED BY <1>2, <2>3, <3>1, <3>2, RemoveNodeSets
  <2>4. CASE UNCHANGED vars
    BY <2>1, <2>4 DEF vars
  <2> QED BY <1>2, <2>2, <2>3, <2>4 DEF Next
<1> QED BY <1>1, <1>2, InitSets, PTL DEF Spec, ImplementsPeerSets, Peers!Spec

-----------------------------------------------------------------------------
(* What one call may do: whom it may cost their place and who gets the     *)
(* place of a contact that is removed, from the invariant that caches are  *)
(* sorted by when their contacts were heard (AgeInv).                      *)

\* Who is known, in terms of the contact's bucket: the owner is not.
KnownAsHeld ==
  \A id \in NodeId :
    /\ id \in KnownIds <=>
         \/ Holds(buckets[BucketOf(Root, id)].nodes, id)
         \/ CacheHolds(buckets[BucketOf(Root, id)], id)
    /\ id \in KnownIds \ LiveIds <=>
         CacheHolds(buckets[BucketOf(Root, id)], id)

LEMMA WhoIsKnown == IndInv => KnownAsHeld
<1> SUFFICES ASSUME IndInv, NEW id \in NodeId
             PROVE  /\ id \in KnownIds <=>
                         \/ Holds(buckets[BucketOf(Root, id)].nodes, id)
                         \/ CacheHolds(buckets[BucketOf(Root, id)], id)
                    /\ id \in KnownIds \ LiveIds <=>
                         CacheHolds(buckets[BucketOf(Root, id)], id)
  BY DEF KnownAsHeld
<1> DEFINE b == buckets[BucketOf(Root, id)]
<1>1. BucketOf(Root, id) \in BucketIds
  BY RootAssumption, BucketInRange
<1>2. b \in Bucket /\ BucketOK(b)
  BY <1>1, BucketOfTable
<1>3. id \in KnownIds <=> Fetch(b, id) # NoNode
  BY DEF KnownIds, GetNode
<1>4. id \in LiveIds <=> Holds(b.nodes, id)
  BY LiveFacts DEF LiveAsHeld
<1>5. ~(Holds(b.nodes, id) /\ CacheHolds(b, id))
  BY <1>2 DEF BucketOK, LiveXorCached, Holds
<1> QED BY <1>2, <1>3, <1>4, <1>5, FetchWho

\* Of two ids in a cache the one before was heard after the other.
LEMMA CacheAges ==
  ASSUME AgeInv, NEW i \in BucketIds,
         NEW x \in DOMAIN buckets[i].cacheIds,
         NEW y \in DOMAIN buckets[i].cacheIds, x < y
  PROVE  PlaceOf(heard, buckets[i].cacheIds[x])
           < PlaceOf(heard, buckets[i].cacheIds[y])
BY AgeRecency DEF CacheByRecency

\* The one at the end of a cache was heard before all the others in it, the
\* one at its front after them.
LEMMA CacheEnds ==
  ASSUME AgeInv, NEW i \in BucketIds, NEW id, CacheHolds(buckets[i], id)
  PROVE  LET ids == buckets[i].cacheIds
         IN /\ id # ids[Len(ids)] =>
                 PlaceOf(heard, id) < PlaceOf(heard, ids[Len(ids)])
            /\ id # ids[1] => PlaceOf(heard, ids[1]) < PlaceOf(heard, id)
<1> DEFINE ids == buckets[i].cacheIds
<1>1. DOMAIN ids = 1 .. Len(ids) /\ Len(ids) \in Nat
  <2>1. buckets[i] \in Bucket /\ BucketOK(buckets[i])
    BY BucketOfTable DEF AgeInv
  <2> QED BY <2>1, BucketFacts
<1>2. PICK x \in DOMAIN ids : ids[x] = id
  BY DEF CacheHolds
<1>3. 1 \in DOMAIN ids /\ Len(ids) \in DOMAIN ids
  BY <1>1, <1>2
<1>4. ASSUME id # ids[Len(ids)]
      PROVE  PlaceOf(heard, id) < PlaceOf(heard, ids[Len(ids)])
  <2>1. x < Len(ids)
    BY <1>1, <1>2, <1>4
  <2> QED BY <1>2, <1>3, <2>1, CacheAges
<1>5. ASSUME id # ids[1]
      PROVE  PlaceOf(heard, ids[1]) < PlaceOf(heard, id)
  <2>1. 1 < x
    BY <1>1, <1>2, <1>5
  <2> QED BY <1>2, <1>3, <2>1, CacheAges
<1> QED BY <1>4, <1>5

\* Whoever a call forgets was removed while live, or was the one of a full
\* cache heard longest ago when someone of the same bucket was heard.
LEMMA Forgotten ==
  ASSUME AgeInv, AgeInv', Next, NEW id \in KnownIds \ KnownIds'
  PROVE  \/ id \in LiveIds /\ RemoveNode(id)
         \/ /\ id \notin LiveIds
            /\ \E node \in Node : /\ AddCandidate(node)
                                  /\ node.id # Root
                                  /\ BucketOf(Root, node.id) = BucketOf(Root, id)
            /\ \A other \in KnownIds \ (LiveIds \cup {id}) :
                 BucketOf(Root, other) = BucketOf(Root, id) =>
                   PlaceOf(heard, other) < PlaceOf(heard, id)
<1>1. IndInv /\ IndInv' /\ id \in NodeId
  BY DEF AgeInv, KnownIds
<1>2. /\ GetNode(buckets, Root, id) # NoNode
      /\ GetNode(buckets, Root, id)' = NoNode
  BY DEF KnownIds
<1>3. ASSUME NEW node \in Node, AddCandidate(node)
      PROVE  /\ id \notin LiveIds /\ node.id # Root
             /\ BucketOf(Root, node.id) = BucketOf(Root, id)
             /\ \A other \in KnownIds \ (LiveIds \cup {id}) :
                  BucketOf(Root, other) = BucketOf(Root, id) =>
                    PlaceOf(heard, other) < PlaceOf(heard, id)
  <2> DEFINE j == BucketOf(Root, node.id)
             b == buckets[j]
             c == Save(b, node)
  <2>1. node.id # Root
    <3>1. CASE node.id = Root
      <4>1. buckets' = buckets
        BY <1>3, <3>1 DEF AddCandidate, TableWith
      <4> QED BY <1>2, <4>1
    <3> QED BY <3>1
  <2>2. j \in BucketIds /\ node # NoNode /\ node.id \in NodeId
    BY RootAssumption, BucketInRange, BucketAssumption DEF Node
  <2>3. b \in Bucket /\ BucketOK(b)
    BY <1>1, <2>2, BucketOfTable
  <2>4. buckets' = [buckets EXCEPT ![j] = c]
    BY <1>1, <1>3, <2>1, <2>2 DEF AddCandidate, TableWith, IndInv, TypeOK, Table
  <2>5. \A i \in BucketIds : buckets'[i] = IF i = j THEN c ELSE buckets[i]
    BY <1>1, <2>4 DEF IndInv, TypeOK, Table
  <2>6. BucketOf(Root, id) \in BucketIds
    BY <1>1, RootAssumption, BucketInRange
  <2>7. BucketOf(Root, id) = j
    BY <1>2, <2>5, <2>6 DEF GetNode
  <2>8. Fetch(b, id) # NoNode /\ Fetch(c, id) = NoNode
    BY <1>2, <2>5, <2>6, <2>7 DEF GetNode
  <2>9. ~Saved(b, node)
    BY <1>1, <2>2, <2>3, <2>8, SaveWithRoom
  <2>10. id = b.cacheIds[Len(b.cacheIds)] /\ CacheHolds(b, id)
    BY <1>1, <2>2, <2>3, <2>8, <2>9, SaveWithoutRoom
  <2>11. id \notin LiveIds
    BY <1>1, <2>7, <2>10, WhoIsKnown DEF KnownAsHeld
  <2>12. ASSUME NEW other \in KnownIds \ (LiveIds \cup {id}),
                BucketOf(Root, other) = BucketOf(Root, id)
         PROVE  PlaceOf(heard, other) < PlaceOf(heard, id)
    <3>1. CacheHolds(b, other)
      BY <1>1, <2>7, <2>12, WhoIsKnown DEF KnownAsHeld, KnownIds
    <3> QED BY <2>2, <2>10, <2>12, <3>1, CacheEnds
  <2> QED BY <2>1, <2>7, <2>11, <2>12
<1>4. ASSUME NEW gone \in NodeId, RemoveNode(gone)
      PROVE  id \in LiveIds /\ id = gone
  <2> DEFINE j == BucketOf(Root, gone)
             b == buckets[j]
             c == RemoveContact(b, gone)
  <2>1. j \in BucketIds
    BY RootAssumption, BucketInRange
  <2>2. b \in Bucket /\ BucketOK(b)
    BY <1>1, <2>1, BucketOfTable
  <2>3. \A i \in BucketIds : buckets'[i] = IF i = j THEN c ELSE buckets[i]
    BY <1>1, <1>4, <2>1 DEF RemoveNode, TableWithout, IndInv, TypeOK, Table
  <2>4. BucketOf(Root, id) \in BucketIds
    BY <1>1, RootAssumption, BucketInRange
  <2>5. BucketOf(Root, id) = j
    BY <1>2, <2>3, <2>4 DEF GetNode
  <2>6. Fetch(b, id) # NoNode /\ Fetch(c, id) = NoNode
    BY <1>2, <2>3, <2>4, <2>5 DEF GetNode
  <2>7. Holds(b.nodes, gone)
    BY <2>2, <2>6, RemoveOther
  <2>8. id = gone
    BY <1>1, <2>2, <2>6, <2>7, RemoveLive
  <2> QED BY <1>1, <2>7, <2>8, LiveFacts DEF LiveAsHeld
<1> QED BY <1>3, <1>4 DEF Next

\* The freshest of those who wait gets the place of a live contact removed.
LEMMA Promotion ==
  ASSUME AgeInv, AgeInv', NEW id \in LiveIds, RemoveNode(id)
  PROVE  LET waiting == {other \in KnownIds \ LiveIds :
                           BucketOf(Root, other) = BucketOf(Root, id)}
         IN IF waiting = {} THEN LiveIds' = LiveIds \ {id}
            ELSE \E next \in waiting :
                   /\ LiveIds' = (LiveIds \ {id}) \cup {next}
                   /\ \A other \in waiting \ {next} :
                        PlaceOf(heard, next) < PlaceOf(heard, other)
<1> DEFINE waiting == {other \in KnownIds \ LiveIds :
                         BucketOf(Root, other) = BucketOf(Root, id)}
           j == BucketOf(Root, id)
           b == buckets[j]
           c == RemoveContact(b, id)
<1>1. /\ IndInv /\ IndInv' /\ id \in NodeId
      /\ Holds(b.nodes, id)
  BY LiveFacts DEF AgeInv, LiveAsHeld
<1>2. j \in BucketIds
  BY <1>1, RootAssumption, BucketInRange
<1>3. b \in Bucket /\ BucketOK(b)
  BY <1>1, <1>2, BucketOfTable
<1>4. buckets' = [buckets EXCEPT ![j] = c]
  BY <1>1, <1>2 DEF RemoveNode, TableWithout, IndInv, TypeOK, Table
<1>5. \A other : other \in waiting <=> CacheHolds(b, other)
  <2>1. \A other : CacheHolds(b, other) => other \in NodeId
    BY <1>3, BucketFacts DEF CacheHolds
  <2>2. \A other : CacheHolds(b, other) => BucketOf(Root, other) = j
    BY <1>1, <1>2, BucketOfTable
  <2>3. KnownIds \subseteq NodeId
    BY DEF KnownIds
  <2> QED BY <1>1, <2>1, <2>2, <2>3, WhoIsKnown DEF KnownAsHeld
<1>6. \/ /\ b.cacheIds = <<>>
         /\ \A i \in NodeId : Holds(c.nodes, i) <=> i # id /\ Holds(b.nodes, i)
      \/ \E next \in NodeId :
           /\ CacheHolds(b, next) /\ next = b.cacheIds[1]
           /\ \A i \in NodeId :
                Holds(c.nodes, i) <=> i = next \/ (i # id /\ Holds(b.nodes, i))
  BY <1>1, <1>3, RemoveLive
<1>7. /\ \A i \in NodeId :
           i \in LiveIds' <=> IF BucketOf(Root, i) = j THEN Holds(c.nodes, i)
                              ELSE i \in LiveIds
      /\ LiveIds \subseteq NodeId /\ LiveIds' \subseteq NodeId
  BY <1>1, <1>2, <1>4, SetsChange
<1>8. \A i \in NodeId : BucketOf(Root, i) = j =>
        (i \in LiveIds <=> Holds(b.nodes, i))
  BY <1>1, LiveFacts DEF LiveAsHeld
<1>9. BucketOf(Root, id) = j
  OBVIOUS
<1>10. \A other : CacheHolds(b, other) /\ other # b.cacheIds[1] =>
         PlaceOf(heard, b.cacheIds[1]) < PlaceOf(heard, other)
  BY <1>2, CacheEnds
<1>11. \A other : CacheHolds(b, other) => BucketOf(Root, other) = j
  BY <1>5
<1> HIDE DEF waiting, j, b, c
<1>12. CASE /\ b.cacheIds = <<>>
            /\ \A i \in NodeId : Holds(c.nodes, i) <=> i # id /\ Holds(b.nodes, i)
  <2>1. DOMAIN b.cacheIds = {}
    BY <1>12
  <2>2. waiting = {}
    BY <1>5, <2>1 DEF CacheHolds
  <2>3. LiveIds' = LiveIds \ {id}
    BY <1>7, <1>8, <1>9, <1>12
  <2> QED BY <2>2, <2>3 DEF waiting
<1>13. ASSUME NEW next \in NodeId,
              CacheHolds(b, next) /\ next = b.cacheIds[1],
              \A i \in NodeId :
                Holds(c.nodes, i) <=> i = next \/ (i # id /\ Holds(b.nodes, i))
       PROVE  /\ waiting # {} /\ next \in waiting
              /\ LiveIds' = (LiveIds \ {id}) \cup {next}
              /\ \A other \in waiting \ {next} :
                   PlaceOf(heard, next) < PlaceOf(heard, other)
  <2>1. next \in waiting /\ BucketOf(Root, next) = j
    BY <1>5, <1>11, <1>13
  <2>2. LiveIds' = (LiveIds \ {id}) \cup {next}
    BY <1>7, <1>8, <1>9, <1>13, <2>1
  <2>3. \A other \in waiting \ {next} :
          PlaceOf(heard, next) < PlaceOf(heard, other)
    BY <1>5, <1>10, <1>13
  <2> QED BY <2>1, <2>2, <2>3
<1> QED BY <1>6, <1>12, <1>13 DEF waiting

\* A contact is forgotten only when it is removed from the live ones, or is
\* the stalest of a full cache when someone of its bucket is heard.
THEOREM ForgottenCorrect == Spec => OnlyTheStalestForgotten
<1>1. Spec => []AgeInv
  BY InitAge, NextAge, PTL DEF Spec
<1>2. ASSUME AgeInv, AgeInv', [Next]_vars
      PROVE  [\A id \in KnownIds \ KnownIds' :
                \/ id \in LiveIds /\ RemoveNode(id)
                \/ /\ id \notin LiveIds
                   /\ \E node \in Node :
                        /\ AddCandidate(node)
                        /\ node.id # Root
                        /\ BucketOf(Root, node.id) = BucketOf(Root, id)
                   /\ \A other \in KnownIds \ (LiveIds \cup {id}) :
                        BucketOf(Root, other) = BucketOf(Root, id) =>
                          PlaceOf(heard, other) < PlaceOf(heard, id)]_vars
  BY <1>2, Forgotten
<1> QED BY <1>1, <1>2, PTL DEF Spec, OnlyTheStalestForgotten

\* Whoever takes the place of a contact that is removed is the one heard last
\* of those waiting in its bucket.
THEOREM PromotedCorrect == Spec => FreshestPromoted
<1>1. Spec => []AgeInv
  BY InitAge, NextAge, PTL DEF Spec
<1>2. ASSUME AgeInv, AgeInv', [Next]_vars
      PROVE  [\A id \in LiveIds : RemoveNode(id) =>
                LET waiting == {other \in KnownIds \ LiveIds :
                                  BucketOf(Root, other) = BucketOf(Root, id)}
                IN IF waiting = {} THEN LiveIds' = LiveIds \ {id}
                   ELSE \E next \in waiting :
                          /\ LiveIds' = (LiveIds \ {id}) \cup {next}
                          /\ \A other \in waiting \ {next} :
                               PlaceOf(heard, next) < PlaceOf(heard, other)]_vars
  BY <1>2, Promotion
<1> QED BY <1>1, <1>2, PTL DEF Spec, FreshestPromoted

=============================================================================
