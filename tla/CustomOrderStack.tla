-------------------------- MODULE CustomOrderStack --------------------------
(***************************************************************************)
(* lockfree_stack of "Chapter 7 - Lockfree stack with custom memory           *)
(* ordering.cpp": the stack of SplitCountStack, with the memory orders that    *)
(* file asks for.  Its steps are those of SplitCountStack; beside them this    *)
(* module keeps which accesses to a node happen before which (a release        *)
(* passes on what its thread knows, an acquire takes it over, and a relaxed    *)
(* exchange or addition keeps what the value it replaces had released).        *)
(*                                                                          *)
(* Every write to head and to an internal_count is part of a read-modify-      *)
(* write.  A load reads the latest value: a stale one is the latest value of an  *)
(* earlier load, and the exchange that follows tests it.  Slips that do not       *)
(* compile (`++neo_counter`, `ptr = old_head`) are read as SplitCountStack does.  *)
(***************************************************************************)
EXTENDS SplitCountStack

VARIABLES accesses,   \* the accesses there were to the nodes now allocated
          known,      \* per thread, those that happen before its next step
          headRel,    \* those released with the value of head
          countRel    \* per node, those released with its internal_count

orders == <<accesses, known, headRel, countRel>>

\* A node is constructed once, and its data swapped once; its next may be read by
\* several threads: ReadBy(n, t) is the last time t did.
Made(n)       == <<"made", n>>
Swapped(n)    == <<"swapped", n>>
ReadBy(n, t)  == <<"read", n, t>>
AccessesTo(n) == {a \in accesses : a[2] = n}

OrdersInit == /\ accesses = {}
              /\ known = [t \in Thread |-> {}]
              /\ headRel = {}
              /\ countRel = [n \in Node |-> {}]

-----------------------------------------------------------------------------
\* Thread t accesses a node.  What others know of an earlier such access of its
\* does not tell them of this one.
Do(t, a) == /\ accesses' = accesses \cup {a}
            /\ known' = [u \in Thread |-> IF u = t THEN known[u] \cup {a} ELSE known[u] \ {a}]
            /\ headRel' = headRel \ {a}
            /\ countRel' = [n \in Node |-> countRel[n] \ {a}]

\* The node's life is over; the allocator orders its next one after this.
Forget(n) == LET gone == AccessesTo(n)
             IN  /\ accesses' = accesses \ gone
                 /\ known' = [u \in Thread |-> known[u] \ gone]
                 /\ headRel' = headRel \ gone
                 /\ countRel' = [m \in Node |-> countRel[m] \ gone]

-----------------------------------------------------------------------------
(* push(data): head.load relaxed, the exchange release, or relaxed if it fails. *)

OrderedCallPush(t, v) == CallPush(t, v) /\ Do(t, Made(mine'[t]))

\* Mutant: the exchange of push is relaxed.
LinkRelaxed(t)   == headRel
LinkReleased(t)  == headRel \cup known[t]

OrderedLinkNode(t) == /\ LinkNode(t)
                      /\ headRel' = LinkReleased(t)
                      /\ UNCHANGED <<accesses, known, countRel>>

(* pop(): increase_head_count acquires; the exchange that takes the node and the *)
(* load before it are relaxed.                                                   *)

OrderedAnnounce(t) == /\ Announce(t)
                      /\ known' = [known EXCEPT ![t] = @ \cup headRel]
                      /\ UNCHANGED <<accesses, headRel, countRel>>

OrderedReadNext(t) == ReadNext(t) /\ Do(t, ReadBy(ptr[t], t))

OrderedSwap(t) == Swap(t) /\ Do(t, Swapped(ptr[t]))

\* The addition leaves nobody with the node.
LastUser(t, amount) == internal[ptr[t]] = -amount

\* fetch_add (count_increase, release), and delete ptr.  Mutant: it is relaxed.
AddRelaxed(t)  == countRel[ptr[t]]
AddReleased(t) == countRel[ptr[t]] \cup known[t]

OrderedAdd(t) ==
    /\ Add(t)
    /\ IF LastUser(t, CountIncrease(t))
       THEN Forget(ptr[t])
       ELSE /\ countRel' = [countRel EXCEPT ![ptr[t]] = AddReleased(t)]
            /\ UNCHANGED <<accesses, known, headRel>>

\* fetch_add (-1, relaxed); the last user then loads internal_count with acquire.
OrderedSub(t) == /\ Sub(t)
                 /\ IF LastUser(t, -1) THEN Forget(ptr[t]) ELSE UNCHANGED orders

\* A relaxed step, one that fails, or one on local variables.
Unordered(t) == \/ LinkNodeFails(t) \/ CallPop(t) \/ AnnounceFails(t) \/ ReturnEmpty(t)
                \/ Take(t) \/ TakeFails(t)

-----------------------------------------------------------------------------
OrderedNext == \E t \in Thread :
                  \/ \E v \in Value : OrderedCallPush(t, v)
                  \/ OrderedLinkNode(t) \/ OrderedAnnounce(t) \/ OrderedReadNext(t)
                  \/ OrderedSwap(t) \/ OrderedAdd(t) \/ OrderedSub(t)
                  \/ Unordered(t) /\ UNCHANGED orders

OrderedInit == Init /\ OrdersInit

OrderedSpec == OrderedInit /\ [][OrderedNext]_<<vars, orders>>

-----------------------------------------------------------------------------
(* Properties *)

\* What happens before the delete of thread t, if its next step is one.
Deletes(t)     == \/ pc[t] = "add" /\ LastUser(t, CountIncrease(t))
                  \/ pc[t] = "sub" /\ LastUser(t, -1)
KnownByDelete(t) == IF pc[t] = "sub" THEN known[t] \cup countRel[ptr[t]] ELSE known[t]

Ordered(kinds) == \A t \in Thread :
                     Deletes(t) => \A a \in AccessesTo(ptr[t]) :
                                      a[1] \in kinds => a \in KnownByDelete(t)

\* "release so that the neo_node.ptr is valid for thread tries to access the data
\* inside" (line 44): the thread that reads a node's next or takes its data has
\* synchronized with the push that built it, through whatever exchanges of head by
\* other threads came between.
NodesAreVisible ==
    \A t \in Thread : (ptr[t] # NoNode /\ pc[t] \in {"read", "take", "swap"})
                         => Made(ptr[t]) \in known[t]

\* "We need to make sure that swap happens before any thread tries to delete the ptr"
\* (line 63): whichever thread deletes the node, the swap of its data, by it or by
\* another thread, happens before.
SwapBeforeDelete == Ordered({"made", "swapped"})

\* "It's dangerous to delete ptr without knowing if another thread is still accessing
\* or not" (line 62): every read of ptr->next (line 58) happens before the delete too.
ReadsBeforeDelete == Ordered({"read"})
=============================================================================
