------------------------- MODULE MCCustomOrderStack -------------------------
(* CustomOrderStack for TLC: symmetric threads, addresses and values. *)
EXTENDS CustomOrderStack, TLC

Symmetry == Permutations(Thread) \cup Permutations(Node) \cup Permutations(Value)
=============================================================================
