--------------------------- MODULE RoutingTableOps ---------------------------
(***************************************************************************)
(* The routing table of a peer (RoutingTable.js) as operators on a table,  *)
(* a function from bucket numbers to buckets, and the id of the peer that  *)
(* owns it (rootNode.id). The modules with a table or several of them use  *)
(* these operators.                                                        *)
(*                                                                         *)
(* An id is the set of the positions of its one bits, so that xor is the   *)
(* symmetric difference and the count of zero bits a cardinality.          *)
(***************************************************************************)
EXTENDS RoutingTableBucket, FiniteSets

CONSTANTS
  IdBits,      \* the bits of an id (256, of a sha256)
  NumBuckets   \* the buckets of a table (256)

ASSUME TableAssumption ==
  /\ IdBits \in Nat
  /\ NumBuckets \in Nat \ {0}
  /\ NodeId \subseteq SUBSET (0 .. IdBits - 1)

BucketIds == 0 .. NumBuckets - 1

Table == [BucketIds -> Bucket]

EmptyTable == [i \in BucketIds |-> EmptyBucket]

Xor(a, b) == (a \ b) \cup (b \ a)

\* The number of the bucket for a distance. What the code calls
\* commonPrefixCount counts every zero bit, not only the leading ones.
BucketIndex(distance) ==
  LET commonPrefixCount == IdBits - Cardinality(distance)
      index             == NumBuckets - commonPrefixCount - 1
  IN IF index < 0 THEN 0 ELSE index

BucketOf(root, id) == BucketIndex(Xor(id, root))

-----------------------------------------------------------------------------

\* The table after addCandidate(node): a peer never files itself.
TableWith(table, root, node) ==
  IF node.id = root THEN table
  ELSE [table EXCEPT ![BucketOf(root, node.id)] = Save(@, node)]

\* Whether addCandidate(node) hands back the (full) bucket, for its oldest
\* contacts to be pinged.
Overflows(table, root, node) ==
  node.id # root /\ ~Saved(table[BucketOf(root, node.id)], node)

TableWithout(table, root, id) ==
  [table EXCEPT ![BucketOf(root, id)] = RemoveContact(@, id)]

GetNode(table, root, id) == Fetch(table[BucketOf(root, id)], id)

-----------------------------------------------------------------------------
(* getClosestNodes: the buckets around the subject's own, nearest first,   *)
(* below before above, until enough nodes are found. at is the code's      *)
(* bucketIndex, which strays out of the table on its way.                  *)

\* Mutant: the walk turns twice as far and skips every other bucket.
TurnWide(at, iteration) ==
  IF iteration % 2 = 0 THEN at - 2 * (iteration + 1)
  ELSE at + 2 * (iteration + 1)

\* Mutant: iteration is used before it is incremented.
TurnShort(at, iteration) ==
  IF iteration % 2 = 0 THEN at - iteration ELSE at + iteration

Turn(at, iteration) ==
  IF iteration % 2 = 0 THEN at - (iteration + 1) ELSE at + (iteration + 1)

GetClosestNodes(table, root, subject, amount) ==
  LET start == [at |-> BucketOf(root, subject), visited |-> 0, nodes |-> <<>>]
      Enough(w) == Len(w.nodes) >= amount \/ w.visited = NumBuckets
      Visit(w) == IF w.at \in BucketIds
                  THEN [w EXCEPT !.nodes   = @ \o table[w.at].nodes,
                                 !.visited = @ + 1]
                  ELSE w
      walk[t \in 0 .. 2 * NumBuckets] ==
        IF t = 0 THEN start
        ELSE IF Enough(walk[t - 1]) THEN walk[t - 1]
        ELSE [Visit(walk[t - 1]) EXCEPT !.at = Turn(@, t - 1)]
  IN walk[2 * NumBuckets].nodes

=============================================================================
