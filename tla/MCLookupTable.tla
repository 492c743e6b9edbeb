---------------------------- MODULE MCLookupTable ----------------------------
(* Three threads make any calls on a table of two buckets.  Threads and values are *)
(* symmetric, and so are the keys of a bucket.                                      *)
EXTENDS LookupTable, TLC

ASSUME BucketsAndNones

CONSTANTS k1, k2, k3

\* Two of the keys share a bucket; one hash is beyond the number of buckets.
MCHasher == [k \in {k1, k2, k3} |-> IF k = k3 THEN 3 ELSE 2]

Symmetry == Permutations(Thread) \cup Permutations(Value) \cup Permutations({k1, k2})
=============================================================================
