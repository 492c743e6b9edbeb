---------------------------- MODULE HelpingQueue ----------------------------
(***************************************************************************)
(* lockfree_queue of "Chapter 7 - Lockfree queue with split reference          *)
(* counting and helping suspended thread.cpp".  A push that finds the dummy     *)
(* node claimed gives it a next, and moves tail, for the push that claimed it.  *)
(***************************************************************************)
EXTENDS CountedQueueNodes

VARIABLE neo                 \* set_new_tail's new_tail

vars == <<queueVars, neo>>

PCs == {"idle", "announce tail", "claim", "link", "help", "renew", "set",
        "free tail", "free again"} \cup PopPCs

Init == QueueInit /\ neo = [t \in Thread |-> Null]

-----------------------------------------------------------------------------
\* data.compare_exchange_strong (nullptr, new_data) succeeds: the data is the
\* node's.  Otherwise another push has the node, and is helped.
Claim(t) ==
    /\ pc[t] = "claim"
    /\ data[ptr[t]] = NoValue
    /\ data' = [data EXCEPT ![ptr[t]] = arg[t]]
    /\ arg' = [arg EXCEPT ![t] = NoValue]
    /\ Goto(t, "link")
    /\ UNCHANGED <<cast, head, tail, next, counts, old, ptr, nxt, mine, queue, neo>>

ClaimFails(t) ==
    /\ pc[t] = "claim"
    /\ data[ptr[t]] # NoValue
    /\ Goto(t, "help")
    /\ UNCHANGED <<cast, head, tail, nodes, old, ptr, nxt, queue, push, neo>>

\* next.compare_exchange_strong ({0}, new_next), in either branch.
Unlinked(t) == next[ptr[t]] = Null

LinkOwn(t, l) ==
    /\ Unlinked(t)
    /\ next' = [next EXCEPT ![ptr[t]] = Counted(1, mine[t])]
    /\ neo' = [neo EXCEPT ![t] = Counted(1, mine[t])]
    /\ mine' = [mine EXCEPT ![t] = NoNode]
    /\ Goto(t, l)
    /\ UNCHANGED <<cast, head, tail, data, counts, old, ptr, nxt, arg, queue>>

\* The push that claimed the node links its own.
Link(t) == pc[t] = "link" /\ LinkOwn(t, "set")

\* Mutant: new_next.ptr is not deleted.
HelpedNodeKept(t) ==
    /\ pc[t] = "link"
    /\ ~Unlinked(t)
    /\ neo' = [neo EXCEPT ![t] = next[ptr[t]]]
    /\ mine' = [mine EXCEPT ![t] = NoNode]
    /\ Goto(t, "set")
    /\ UNCHANGED <<cast, head, tail, nodes, old, ptr, nxt, arg, queue>>

\* It was helped: delete new_next.ptr, and go on with the node there is.
LinkHelped(t) ==
    /\ pc[t] = "link"
    /\ ~Unlinked(t)
    /\ neo' = [neo EXCEPT ![t] = next[ptr[t]]]
    /\ live' = live \ {mine[t]}
    /\ external' = [external EXCEPT ![mine[t]] = 0]
    /\ data' = [data EXCEPT ![mine[t]] = NoValue]
    /\ mine' = [mine EXCEPT ![t] = NoNode]
    /\ Goto(t, "set")
    /\ UNCHANGED <<cast, head, tail, next, internal, old, ptr, nxt, arg, queue>>

\* Mutant: the helper goes on with the node it gave away.
HelpWithoutNew(t) ==
    /\ pc[t] = "help"
    /\ Unlinked(t)
    /\ next' = [next EXCEPT ![ptr[t]] = Counted(1, mine[t])]
    /\ neo' = [neo EXCEPT ![t] = Counted(1, mine[t])]
    /\ Goto(t, "set")
    /\ UNCHANGED <<cast, head, tail, data, counts, old, ptr, nxt, queue, push>>

\* The helper's node becomes the next of the dummy node; it makes another.
Help(t) == pc[t] = "help" /\ LinkOwn(t, "renew")

Renew(t) ==
    /\ pc[t] = "renew"
    /\ \E n \in Node : New(n) /\ mine' = [mine EXCEPT ![t] = n]
    /\ Goto(t, "set")
    /\ UNCHANGED <<cast, head, tail, old, ptr, nxt, arg, queue, neo>>

\* Somebody linked a node already.
HelpFails(t) ==
    /\ pc[t] = "help"
    /\ ~Unlinked(t)
    /\ neo' = [neo EXCEPT ![t] = next[ptr[t]]]
    /\ Goto(t, "set")
    /\ UNCHANGED <<cast, head, tail, nodes, old, ptr, nxt, push, queue>>

-----------------------------------------------------------------------------
(* set_new_tail (old_tail, new_tail) *)

\* tail.compare_exchange_weak (old_tail, new_tail) succeeds.
SetTail(t) ==
    /\ pc[t] = "set"
    /\ tail = old[t]
    /\ tail' = neo[t]
    /\ queue' = Append(queue, tail.ptr)
    /\ neo' = [neo EXCEPT ![t] = Null]
    /\ Goto(t, "free tail")
    /\ UNCHANGED <<cast, head, nodes, old, ptr, nxt, push>>

\* It fails because another thread announced the same node: try again.
SetTailRetry(t) ==
    /\ pc[t] = "set"
    /\ tail # old[t] /\ tail.ptr = ptr[t]
    /\ old' = [old EXCEPT ![t] = tail]
    /\ UNCHANGED <<cast, head, tail, nodes, pc, ptr, nxt, push, queue, neo>>

\* It fails because another thread moved tail, and old_tail is now the new one.  Line 52
\* makes its node the old one again, `if (old_tail.ptr = current_tail_ptr)`, and is true:
\* the release_ref of line 56 is never reached.
SetTailHelped(t) ==
    /\ pc[t] = "set"
    /\ tail.ptr # ptr[t]
    /\ old' = [old EXCEPT ![t] = Counted(tail.external_count, ptr[t])]
    /\ neo' = [neo EXCEPT ![t] = Null]
    /\ Goto(t, "free again")
    /\ UNCHANGED <<cast, head, tail, nodes, ptr, nxt, push, queue>>

\* The push returns if its data is in a node, and tries again if it only helped.
\* (It begins with old_tail; what set_new_tail freed, no tail is equal to.)
AfterSet(t) == Goto(t, IF arg[t] = NoValue THEN "idle" ELSE "announce tail")

\* "We are the one change the tail": free_external_counter (old_tail), by the push that
\* did, and by one that came late.
FreeTail(t) ==
    /\ pc[t] \in {"free tail", "free again"}
    /\ FreeExternalCounter(t)
    /\ AfterSet(t)
    /\ UNCHANGED <<cast, head, tail, nxt, push, queue, neo>>

-----------------------------------------------------------------------------
Push(t) == \/ \E v \in Value : CallPush(t, v) /\ UNCHANGED neo
           \/ ((AnnounceTail(t) \/ AnnounceTailFails(t)) /\ UNCHANGED neo)
           \/ Claim(t) \/ ClaimFails(t) \/ Link(t) \/ LinkHelped(t)
           \/ Help(t) \/ Renew(t) \/ HelpFails(t)
           \/ SetTail(t) \/ SetTailRetry(t) \/ SetTailHelped(t)
           \/ FreeTail(t)

Next == \/ \E t \in cast.pushers : Push(t)
        \/ \E t \in cast.poppers : Pop(t) /\ UNCHANGED neo

Spec == Init /\ [][Next]_vars

-----------------------------------------------------------------------------
(* Properties *)

\* Where the code goes wrong: a push that did not move tail is about to free the external
\* counter that the one which did has freed (line 52), or tail has come to a node whose
\* data node() left as it was, and which every push takes for claimed (line 70).
Astray == \/ \E t \in Thread : pc[t] = "free again"
          \/ data[tail.ptr] \notin Value \cup {NoValue}

\* Helping leaves no trace: the node that follows the dummy one, if there is one, is
\* allocated and has no value, follows no other, and is nobody's to delete.
NextTailIsFresh ==
    LET n == next[tail.ptr].ptr
    IN  n # NoNode => /\ n \in live \ Linked
                      /\ data[n] \notin Value
                      /\ next[n] = Null
                      /\ \A t \in Thread : mine[t] # n
=============================================================================
