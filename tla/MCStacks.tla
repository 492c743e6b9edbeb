------------------------------- MODULE MCStacks -------------------------------
(* The stacks but the one with split reference counts: the two that delete popped  *)
(* nodes, by hazard pointers or by counting the threads in pop, and the ones with a  *)
(* mutex; one of them at a time.  Threads, addresses and values are symmetric.       *)
EXTENDS HazardPointerStack, TLC

VARIABLES to_be_deleted, threads_in_pop, first, last,   \* of the stack that counts
          items, m, at, call, val,                      \* of the stacks with a mutex
          kind                                          \* which of them it is

Counting == INSTANCE CountedReclaimStack
Monitor  == INSTANCE MonitorStack WITH MaxItems <- 2

reclaiming == <<to_be_deleted, threads_in_pop, first, last>>
guarded    == <<items, m, at, call, val>>

\* The slots belong to nobody where there are no hazard pointers.
AnyInit == /\ Init /\ Counting!Init /\ Monitor!Init
           /\ kind \in {"hazards", "counting", "monitor"}
           /\ kind # "hazards" => \A s \in Slot : owner[s] = NoThread

HazardsNext  == kind = "hazards" /\ Next /\ UNCHANGED <<reclaiming, guarded, kind>>
CountingNext == kind = "counting" /\ Counting!Next
                                   /\ UNCHANGED <<hazards, lists, guarded, kind>>
MonitorNext  == kind = "monitor" /\ Monitor!Next /\ UNCHANGED <<vars, reclaiming, kind>>

AnySpec == AnyInit /\ [][HazardsNext \/ CountingNext \/ MonitorNext]_
                            <<vars, reclaiming, guarded, kind>>

-----------------------------------------------------------------------------
(* The properties of the stack there is; the ones with a mutex have no nodes of their own. *)

\* Every variable stays in its range; a pop only returns the data of a node with some.
TypesOK == IF kind = "counting" THEN Counting!TypeOK ELSE TypeOK

\* No thread uses a node that is deleted, and none is deleted twice.
NoUseAfterDelete == IF kind = "counting" THEN Counting!NoUseAfterFree ELSE NoUseAfterFree

\* No node is lost: what is allocated is on the stack, in a call, or waits for a pop.
NoLostNodes == IF kind = "counting" THEN Counting!NoLeak ELSE NoLeak

AnyResult(t) == CASE kind = "hazards"  -> Result(t)
                  [] kind = "counting" -> Counting!Result(t)
                  [] kind = "monitor"  -> Monitor!Result(t)

Stack == INSTANCE LifoStack WITH items <- IF kind = "monitor" THEN items ELSE Items,
                                 answer <- [t \in Thread |-> AnyResult(t)],
                                 IsEmpty <- "empty", Undecided <- "undecided"

\* Every pop returns what one atomic stack would: though addresses are reused, though
\* the next of a popped node changes under other pops where threads are counted, and
\* though a value may throw on its way out of a stack with a mutex.
AreLifo == Stack!Spec

Symmetry == Permutations(Thread) \cup Permutations(Node) \cup Permutations(Value)
=============================================================================
