------------------------- MODULE CountedReclaimStack -------------------------
(***************************************************************************)
(* lockfree_stack of "Chapter 7 - Reclaim leaked nodes using                  *)
(* reference-counted.cpp".  threads_in_pop counts the pops that may still read  *)
(* nodes; the nodes popped while there are several are chained, through their   *)
(* next, from to_be_deleted, and a pop that finds itself alone deletes them.    *)
(*                                                                          *)
(* The file declares no threads_in_pop (an atomic counter here) and spells      *)
(* try_reclaim's oldHead in two ways (one parameter here).                     *)
(***************************************************************************)
EXTENDS StackNodes

VARIABLES to_be_deleted,     \* atomic<node*>: the first of the pending nodes
          threads_in_pop,
          first,             \* nodes_to_delete, then chain_pending_nodes' first
          last               \* chain_pending_nodes' last

reclaiming == <<to_be_deleted, threads_in_pop, first, last>>
vars       == <<stackVars, reclaiming>>

PCs == {"idle", "push", "load", "read", "exchange", "swap", "check", "claim", "leave",
        "delete_nodes", "walk", "link", "splice", "delete", "depart", "crashed"}

\* A null pointer was written through: the program is gone.
Running == \A t \in Thread : pc[t] # "crashed"

Init == /\ StackInit
        /\ to_be_deleted = NoNode
        /\ threads_in_pop = 0
        /\ first = [t \in Thread |-> NoNode]
        /\ last = [t \in Thread |-> NoNode]

-----------------------------------------------------------------------------
(* pop() *)

\* ++threads_in_pop
CallPop(t) ==
    /\ pc[t] = "idle"
    /\ threads_in_pop' = threads_in_pop + 1
    /\ Goto(t, "load")
    /\ UNCHANGED <<head, nodes, mine, popping, stack, to_be_deleted, first, last>>

\* oldHead = head.load ()
LoadHead(t) ==
    /\ pc[t] = "load"
    /\ old' = [old EXCEPT ![t] = head]
    /\ Goto(t, "read")
    /\ UNCHANGED <<head, nodes, mine, nxt, stack, reclaiming>>

\* while (oldHead && ...), and if (oldHead): there is nothing to pop.
FindEmpty(t) ==
    /\ pc[t] = "read"
    /\ old[t] = NoNode
    /\ Goto(t, "check")
    /\ UNCHANGED <<head, nodes, mine, popping, stack, reclaiming>>

Exchange(t) == /\ Take(t, "swap") \/ TakeFails(t, "read")
               /\ UNCHANGED reclaiming

\* res.swap (oldHead->data)
Swap(t) ==
    /\ pc[t] = "swap"
    /\ data' = [data EXCEPT ![old[t]] = NoValue]
    /\ Goto(t, "check")
    /\ UNCHANGED <<head, next, live, mine, popping, stack, reclaiming>>

-----------------------------------------------------------------------------
(* try_reclaim(oldHead) *)

\* if (threads_in_pop == 1).  Otherwise chain_pending_node (old_head).
Check(t) ==
    /\ pc[t] = "check"
    /\ IF threads_in_pop = 1
       THEN /\ Goto(t, "claim")
            /\ UNCHANGED <<first, last>>
       ELSE /\ Goto(t, "link")
            /\ first' = [first EXCEPT ![t] = old[t]]
            /\ last' = [last EXCEPT ![t] = old[t]]
    /\ UNCHANGED <<head, nodes, mine, popping, stack, to_be_deleted, threads_in_pop>>

\* to_be_deleted.exchange (nullptr).  Mutant: a load.
ListShared(t) ==
    /\ pc[t] = "claim"
    /\ first' = [first EXCEPT ![t] = to_be_deleted]
    /\ Goto(t, "leave")
    /\ UNCHANGED <<head, nodes, mine, popping, stack, to_be_deleted, threads_in_pop, last>>

Claim(t) ==
    /\ pc[t] = "claim"
    /\ first' = [first EXCEPT ![t] = to_be_deleted]
    /\ to_be_deleted' = NoNode
    /\ Goto(t, "leave")
    /\ UNCHANGED <<head, nodes, mine, popping, stack, threads_in_pop, last>>

\* Nobody entered pop meanwhile.  Mutant: threads_in_pop is not looked at again.
StillAloneAssumed == TRUE
StillAlone        == threads_in_pop = 1

\* if (!(--threads_in_pop)) ... else if (nodes_to_delete)
Leave(t) ==
    /\ pc[t] = "leave"
    /\ threads_in_pop' = threads_in_pop - 1
    /\ Goto(t, IF first[t] = NoNode THEN "delete"
               ELSE IF StillAlone THEN "delete_nodes" ELSE "walk")
    /\ last' = [last EXCEPT ![t] = first[t]]
    /\ UNCHANGED <<head, nodes, mine, popping, stack, to_be_deleted, first>>

\* delete_nodes: the next of them.
DeleteNodes(t) ==
    /\ pc[t] = "delete_nodes"
    /\ first' = [first EXCEPT ![t] = next[first[t]]]
    /\ Delete({first[t]})
    /\ IF next[first[t]] = NoNode
       THEN last' = [last EXCEPT ![t] = NoNode] /\ Goto(t, "delete")
       ELSE UNCHANGED <<last, pc>>
    /\ UNCHANGED <<head, mine, popping, stack, to_be_deleted, threads_in_pop>>

\* delete old_head
DeleteOwn(t) ==
    /\ pc[t] = "delete"
    /\ Delete({old[t]})
    /\ old' = [old EXCEPT ![t] = NoNode]
    /\ first' = [first EXCEPT ![t] = NoNode]
    /\ last' = [last EXCEPT ![t] = NoNode]
    /\ Goto(t, "idle")
    /\ UNCHANGED <<head, mine, nxt, stack, to_be_deleted, threads_in_pop>>

\* --threads_in_pop
Depart(t) ==
    /\ pc[t] = "depart"
    /\ threads_in_pop' = threads_in_pop - 1
    /\ old' = [old EXCEPT ![t] = NoNode]
    /\ first' = [first EXCEPT ![t] = NoNode]
    /\ last' = [last EXCEPT ![t] = NoNode]
    /\ Goto(t, "idle")
    /\ UNCHANGED <<head, nodes, mine, nxt, stack, to_be_deleted>>

-----------------------------------------------------------------------------
(* chain_pending_nodes *)

\* while (next = last->next) last = next.  Mutant: the list is taken for one node.
WalkOnce(t) ==
    /\ pc[t] = "walk"
    /\ Goto(t, "link")
    /\ UNCHANGED <<head, nodes, mine, popping, stack, reclaiming>>

Walk(t) ==
    /\ pc[t] = "walk"
    /\ IF next[last[t]] = NoNode
       THEN /\ Goto(t, "link")
            /\ UNCHANGED last
       ELSE /\ last' = [last EXCEPT ![t] = next[last[t]]]
            /\ UNCHANGED pc
    /\ UNCHANGED <<head, nodes, mine, popping, stack, to_be_deleted, threads_in_pop, first>>

\* last->next = to_be_deleted
Link(t) ==
    /\ pc[t] = "link"
    /\ last[t] # NoNode
    /\ next' = [next EXCEPT ![last[t]] = to_be_deleted]
    /\ Goto(t, "splice")
    /\ UNCHANGED <<head, data, live, mine, popping, stack, reclaiming>>

\* The same, when a pop of the empty stack has passed nullptr.
LinkNull(t) ==
    /\ pc[t] = "link"
    /\ last[t] = NoNode
    /\ Goto(t, "crashed")
    /\ UNCHANGED <<head, nodes, mine, popping, stack, reclaiming>>

\* The exchange succeeds: back to try_reclaim, to wherever it called from.
Splice(t) ==
    /\ pc[t] = "splice"
    /\ to_be_deleted = next[last[t]]
    /\ to_be_deleted' = first[t]
    /\ Goto(t, IF first[t] = old[t] THEN "depart" ELSE "delete")
    /\ UNCHANGED <<head, nodes, mine, popping, stack, threads_in_pop, first, last>>

\* It fails, and loads to_be_deleted into last->next.
SpliceFails(t) ==
    /\ pc[t] = "splice"
    /\ to_be_deleted # next[last[t]]
    /\ next' = [next EXCEPT ![last[t]] = to_be_deleted]
    /\ UNCHANGED <<head, data, live, pc, mine, popping, stack, reclaiming>>

Pop(t) == \/ LoadHead(t) \/ FindEmpty(t)
          \/ (ReadNext(t) /\ UNCHANGED reclaiming)
          \/ Exchange(t) \/ Swap(t)
          \/ Check(t) \/ Claim(t) \/ Leave(t) \/ DeleteNodes(t) \/ DeleteOwn(t) \/ Depart(t)
          \/ Walk(t) \/ Link(t) \/ LinkNull(t) \/ Splice(t) \/ SpliceFails(t)

Next == /\ Running
        /\ \E t \in Thread : \/ (Push(t) /\ UNCHANGED reclaiming)
                             \/ CallPop(t) \/ Pop(t)

Spec == Init /\ [][Next]_vars

-----------------------------------------------------------------------------
(* Properties *)

\* The pops that count themselves in threads_in_pop.
Counted == {t \in Thread : \/ pc[t] \in {"load", "read", "exchange", "swap", "check", "claim",
                                         "leave", "depart"}
                           \/ pc[t] \in {"link", "splice"} /\ first[t] = old[t]}

\* Every variable stays in its range, threads_in_pop is the number of pops that
\* have not left, and a pop only returns the data of a node that has some.
TypeOK == /\ StackTypeOK
          /\ pc \in [Thread -> PCs]
          /\ to_be_deleted \in Nodes
          /\ first \in [Thread -> Nodes]
          /\ last \in [Thread -> Nodes]
          /\ Running => threads_in_pop = Cardinality(Counted)
          /\ \A t \in Thread : pc[t] = "swap" => data[old[t]] \in Value

\* The node a pop has taken and not yet handed over.
Claimed(t) ==
    IF \/ pc[t] \in {"swap", "check", "claim", "leave", "delete_nodes", "walk", "delete"}
       \/ pc[t] \in {"link", "splice"}
    THEN {old[t]} \ {NoNode} ELSE {}

\* The nodes found by following f from n, as far as stop: what is in every set that
\* holds n and the successor of each of its nodes but stop.
Path(f, n, stop) ==
    {m \in Node : \A S \in SUBSET Node :
        /\ {n} \ {NoNode} \subseteq S
        /\ \A k \in S \ {stop} : {f[k]} \ {NoNode} \subseteq S
        => m \in S}

\* The pending nodes a pop has taken over; once it has joined them to to_be_deleted
\* they end at last.
Stop(t)  == IF pc[t] = "splice" THEN last[t] ELSE NoNode
Taken(t) ==
    IF \/ pc[t] \in {"leave", "delete_nodes", "walk"}
       \/ pc[t] \in {"link", "splice"} /\ first[t] # old[t]
    THEN Path(next, first[t], Stop(t))
    ELSE {}

Pending == Path(next, to_be_deleted, NoNode)

\* "Only 1 threads popping ==> maybe safe" (line 29): a pop that is about to read a
\* node, or to delete or chain one, finds it allocated (so none is deleted twice).
NoUseAfterFree ==
    /\ Linked \cup Pending \subseteq live
    /\ \A t \in Thread : /\ pc[t] = "read" => old[t] \in live \cup {NoNode}
                         /\ Claimed(t) \cup Taken(t) \subseteq live
                         /\ pc[t] \in {"walk", "splice"} => last[t] \in live

\* No node leaks: each that is allocated is on the stack, in a call, or pending.
NoLeak ==
    live \subseteq Linked \cup Pending
                   \cup UNION {Claimed(t) \cup Taken(t) \cup {mine[t]} : t \in Thread}

-----------------------------------------------------------------------------
(* What a pop has found, once it has taken head away, or found it null.  The two *)
(* stacks are shown to be atomic ones in MCReclaimingStacks.                      *)

Result(t) == IF pc[t] = "read" /\ old[t] = NoNode THEN "empty"
             ELSE IF pc[t] = "swap" THEN data[old[t]]
             ELSE "undecided"
=============================================================================
