-------------------------- MODULE MCThreadsafeList --------------------------
(* Every thread makes any calls on a list of at most three nodes. *)
EXTENDS ThreadsafeList

CONSTANTS v1, v2

\* A predicate that holds for one of the values, and the one of ~threadsafe_list().
MCPredicate == {{v1}, {v1, v2}}
=============================================================================
