-------------------------- MODULE MCFineGrainedQueue --------------------------
(* Three threads make any calls; a queue holds at most four values beside its dummy. *)
(* Threads, addresses and values are symmetric.                                        *)
EXTENDS FineGrainedQueue, TLC

Symmetry == Permutations(Thread) \cup Permutations(Node) \cup Permutations(Value)
=============================================================================
