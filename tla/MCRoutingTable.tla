--------------------------- MODULE MCRoutingTable ---------------------------
(* The values of the constants of RoutingTable's runs.                     *)
EXTENDS RoutingTable

\* The owner is 0 and all the others are at Hamming distance one of it: they
\* share a bucket.
OneBucketIds == {{}, {0}, {1}, {2}, {3}, {4}}

\* Contacts in three buckets, one alone in the middle one.
ManyBucketIds == {{}, {0}, {1}, {0, 2}, {0, 1, 2}}

Owner == {}

=============================================================================
