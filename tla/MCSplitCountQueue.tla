------------------------- MODULE MCSplitCountQueue -------------------------
(* SplitCountQueue for TLC, where every thread pushes and pops. *)
EXTENDS SplitCountQueue, TLC

MCCasts  == {[pushers |-> Thread, poppers |-> Thread]}
Symmetry == Permutations(Thread) \cup Permutations(Node) \cup Permutations(Value)
=============================================================================
