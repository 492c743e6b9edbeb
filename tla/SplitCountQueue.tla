--------------------------- MODULE SplitCountQueue ---------------------------
(***************************************************************************)
(* lockfree_queue of "Chapter 7 - Lockfree queue with split reference          *)
(* counting.cpp".  A push claims the dummy node by storing its data there;      *)
(* until it has moved tail, every other push retries.                          *)
(***************************************************************************)
EXTENDS CountedQueueNodes

vars == queueVars

PCs == {"idle", "announce tail", "claim", "link", "move", "free tail", "release tail"} \cup PopPCs

Init == QueueInit

-----------------------------------------------------------------------------
\* data.compare_exchange_strong (nullptr, neo_data) succeeds.  Mutant: a store.
Unclaimed(t) == TRUE
Claimable(t) == data[ptr[t]] = NoValue

Claim(t) ==
    /\ pc[t] = "claim"
    /\ Claimable(t)
    /\ data' = [data EXCEPT ![ptr[t]] = arg[t]]
    /\ Goto(t, "link")
    /\ UNCHANGED <<cast, head, tail, next, counts, old, ptr, nxt, queue, push>>

ClaimFails(t) ==
    /\ pc[t] = "claim"
    /\ ~Claimable(t)
    /\ Goto(t, "release tail")
    /\ UNCHANGED <<cast, head, tail, nodes, old, ptr, nxt, queue, push>>

\* old_tail.ptr->next = neo_next
Link(t) ==
    /\ pc[t] = "link"
    /\ next' = [next EXCEPT ![ptr[t]] = Counted(1, mine[t])]
    /\ Goto(t, "move")
    /\ UNCHANGED <<cast, head, tail, data, counts, old, ptr, nxt, queue, push>>

\* old_tail = tail.exchange (neo_next)
Move(t) ==
    /\ pc[t] = "move"
    /\ old' = [old EXCEPT ![t] = tail]
    /\ tail' = Counted(1, mine[t])
    /\ queue' = Append(queue, ptr[t])
    /\ arg' = [arg EXCEPT ![t] = NoValue]
    /\ mine' = [mine EXCEPT ![t] = NoNode]
    /\ Goto(t, "free tail")
    /\ UNCHANGED <<cast, head, nodes, ptr, nxt>>

\* free_external_counter (old_tail), and return.
FreeTail(t) ==
    /\ pc[t] = "free tail"
    /\ FreeExternalCounter(t)
    /\ Goto(t, "idle")
    /\ UNCHANGED <<cast, head, tail, nxt, queue, push>>

\* Another push has the dummy node: release_ref, and try again.
ReleaseTail(t) ==
    /\ pc[t] = "release tail"
    /\ ReleaseRef(t)
    /\ Goto(t, "announce tail")
    /\ UNCHANGED <<cast, head, tail, old, nxt, queue, push>>

Push(t) == \/ \E v \in Value : CallPush(t, v)
           \/ AnnounceTail(t) \/ AnnounceTailFails(t)
           \/ Claim(t) \/ ClaimFails(t) \/ Link(t) \/ Move(t) \/ FreeTail(t) \/ ReleaseTail(t)

Next == \/ \E t \in cast.pushers : Push(t)
        \/ \E t \in cast.poppers : Pop(t)

Spec == Init /\ [][Next]_vars

-----------------------------------------------------------------------------
(* Properties *)

\* The push that claimed the dummy node, and has not yet moved tail from it.
Claimers == {t \in Thread : pc[t] \in {"link", "move"}}

\* "Only go through if the data is still nullptr (aka no thread has change the
\* tail)" (line 79): the dummy node has a value exactly while one push, which has
\* announced it, is between its exchange of data and its exchange of tail.
TailIsClaimed ==
    /\ data[tail.ptr] \in Value <=> Claimers # {}
    /\ \A t \in Claimers : ptr[t] = tail.ptr /\ Claimers = {t}
=============================================================================
