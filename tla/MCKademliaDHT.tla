--------------------------- MODULE MCKademliaDHT ---------------------------
(* The values of the constants of KademliaDHT's run.                       *)
EXTENDS KademliaDHT

\* The owner, and contacts in its two buckets, two in the upper one.
Ids   == {{}, {0}, {1}, {0, 1}}
Owner == {}
Seed  == {0}
File  == {1}

CONSTANT a1

Homes == [id \in Ids |-> a1]

\* A chain: the seed knows the next one only.
Chain == [id \in Ids |-> CASE id = {0} -> {{1}}
                           [] id = {1} -> {{0}, {0, 1}}
                           [] OTHER -> {{1}}]

Nobody == {}
LastOne == {{0, 1}}

=============================================================================
