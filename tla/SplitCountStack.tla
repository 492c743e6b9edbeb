--------------------------- MODULE SplitCountStack ---------------------------
(***************************************************************************)
(* lockfree_stack of "Chapter 7 - Lockfree stack using split reference      *)
(* counting.cpp".  head is one atomic word, a counted pointer: how often a   *)
(* thread announced that it is going to use the node (external_count), and   *)
(* the node.  A node's internal_count takes back the announcements of the    *)
(* threads that are done with it; whoever brings the sum to zero deletes it. *)
(*                                                                          *)
(* A step is one atomic operation, or one access to a node.  Memory is       *)
(* sequentially consistent, as the default orderings of this file ask.       *)
(* A node deleted may be returned by a later `new` (the ABA hazard).         *)
(***************************************************************************)
EXTENDS Integers, FiniteSets, Sequences

CONSTANTS Thread,     \* the calling threads
          Node,       \* the addresses the allocator may return
          Value,      \* the values pushed
          NoNode,     \* nullptr
          NoValue,    \* an empty shared_ptr<T>
          MaxCount    \* bound: external_count stays below INT_MAX

ASSUME ThreadsFinite == IsFiniteSet(Thread)
ASSUME NullsDistinct == NoNode \notin Node /\ NoValue \notin Value
ASSUME BoundPositive == MaxCount \in Nat \ {0}

VARIABLES head,       \* atomic<count_node_ptr>
          next,       \* node::next
          data,       \* node::data
          internal,   \* node::internal_count
          live,       \* the allocated nodes
          pc,         \* where each thread is in its call
          old,        \* pop's old_head
          ptr,        \* pop's ptr: the node the thread has announced
          nxt,        \* ptr->next, once pop has read it
          mine,       \* push's neoNode.ptr, until head points at it
          res,        \* pop's res
          stack       \* history variable, read by no step: the nodes pushed and
                      \* not yet popped, bottom first

nodes == <<next, data, internal, live>>
vars  == <<head, nodes, pc, old, ptr, nxt, mine, res, stack>>

Counted(c, n) == [external_count |-> c, ptr |-> n]
Null          == Counted(0, NoNode)
CountedPtrs   == [external_count : 0 .. MaxCount, ptr : Node \cup {NoNode}]
PCs           == {"idle", "push", "announce", "read", "take", "swap", "add", "sub"}

Goto(t, l) == pc' = [pc EXCEPT ![t] = l]

-----------------------------------------------------------------------------
(* A zero-initialised stack. *)
Init == /\ head = Null
        /\ next = [n \in Node |-> Null]
        /\ data = [n \in Node |-> NoValue]
        /\ internal = [n \in Node |-> 0]
        /\ live = {}
        /\ pc = [t \in Thread |-> "idle"]
        /\ old = [t \in Thread |-> Null]
        /\ ptr = [t \in Thread |-> NoNode]
        /\ nxt = [t \in Thread |-> Null]
        /\ mine = [t \in Thread |-> NoNode]
        /\ res = [t \in Thread |-> NoValue]
        /\ stack = <<>>

-----------------------------------------------------------------------------
(* push(data) *)

\* new node (data), and neoNode.ptr->next = head.load ().
CallPush(t, v) ==
    /\ pc[t] = "idle"
    /\ \E n \in Node \ live :
          /\ live' = live \cup {n}
          /\ data' = [data EXCEPT ![n] = v]
          /\ internal' = [internal EXCEPT ![n] = 0]
          /\ next' = [next EXCEPT ![n] = head]
          /\ mine' = [mine EXCEPT ![t] = n]
    /\ Goto(t, "push")
    /\ UNCHANGED <<head, old, ptr, nxt, res, stack>>

\* neoNode.external_count: head is the one reference there is.
UncountedHead == 0      \* mutant
FirstCount    == 1

\* compare_exchange_weak succeeds: head still is what next says.
NextIsHead(t) == head = next[mine[t]]

LinkNode(t) ==
    /\ pc[t] = "push"
    /\ NextIsHead(t)
    /\ head' = Counted(FirstCount, mine[t])
    /\ stack' = Append(stack, mine[t])
    /\ mine' = [mine EXCEPT ![t] = NoNode]
    /\ Goto(t, "idle")
    /\ UNCHANGED <<nodes, old, ptr, nxt, res>>

\* It fails, and loads head into next.  (A spurious failure changes nothing.)
LinkNodeFails(t) ==
    /\ pc[t] = "push"
    /\ ~NextIsHead(t)
    /\ next' = [next EXCEPT ![mine[t]] = head]
    /\ UNCHANGED <<head, data, internal, live, pc, old, ptr, nxt, mine, res, stack>>

-----------------------------------------------------------------------------
(* pop() *)

\* old_head = head.load ()
CallPop(t) ==
    /\ pc[t] = "idle"
    /\ old' = [old EXCEPT ![t] = head]
    /\ Goto(t, "announce")
    /\ UNCHANGED <<head, nodes, ptr, nxt, mine, res, stack>>

\* The new external_count of increase_head_count.
Increased(c) == c + 1

\* increase_head_count: the exchange succeeds.
Announce(t) ==
    /\ pc[t] = "announce"
    /\ head = old[t]
    /\ head.external_count < MaxCount
    /\ LET neoCounter == Counted(Increased(head.external_count), head.ptr)
       IN  /\ head' = neoCounter
           /\ old' = [old EXCEPT ![t] = neoCounter]
    /\ ptr' = [ptr EXCEPT ![t] = head.ptr]
    /\ Goto(t, "read")
    /\ UNCHANGED <<nodes, nxt, mine, res, stack>>

\* It fails, and loads head into old_counter.
AnnounceFails(t) ==
    /\ pc[t] = "announce"
    /\ head # old[t]
    /\ old' = [old EXCEPT ![t] = head]
    /\ UNCHANGED <<head, nodes, pc, ptr, nxt, mine, res, stack>>

\* if (!ptr) return: the stack was empty.
ReturnEmpty(t) ==
    /\ pc[t] = "read"
    /\ ptr[t] = NoNode
    /\ old' = [old EXCEPT ![t] = Null]
    /\ Goto(t, "idle")
    /\ UNCHANGED <<head, nodes, ptr, nxt, mine, res, stack>>

\* The argument ptr->next of the exchange.
ReadNext(t) ==
    /\ pc[t] = "read"
    /\ ptr[t] # NoNode
    /\ nxt' = [nxt EXCEPT ![t] = next[ptr[t]]]
    /\ Goto(t, "take")
    /\ UNCHANGED <<head, nodes, old, ptr, mine, res, stack>>

\* Mutant: the exchange ignores that head may have changed.
HeadUnchecked(t) == head.ptr # NoNode
HeadUnchanged(t) == head = old[t]

\* head.compare_exchange_strong (old_head, ptr->next) succeeds.
Take(t) ==
    /\ pc[t] = "take"
    /\ HeadUnchanged(t)
    /\ head' = nxt[t]
    /\ nxt' = [nxt EXCEPT ![t] = Null]
    /\ stack' = SubSeq(stack, 1, Len(stack) - 1)
    /\ Goto(t, "swap")
    /\ UNCHANGED <<nodes, old, ptr, mine, res>>

\* It fails, and loads head into old_head.
TakeFails(t) ==
    /\ pc[t] = "take"
    /\ ~HeadUnchanged(t)
    /\ old' = [old EXCEPT ![t] = head]
    /\ nxt' = [nxt EXCEPT ![t] = Null]
    /\ Goto(t, "sub")
    /\ UNCHANGED <<head, nodes, ptr, mine, res, stack>>

\* res.swap (ptr->data)
Swap(t) ==
    /\ pc[t] = "swap"
    /\ res' = [res EXCEPT ![t] = data[ptr[t]]]
    /\ data' = [data EXCEPT ![ptr[t]] = NoValue]
    /\ Goto(t, "add")
    /\ UNCHANGED <<head, next, internal, live, old, ptr, nxt, mine, stack>>

\* internal_count.fetch_add (amount), and delete ptr if that leaves nobody; what
\* a deleted node held is forgotten.
Release(t, amount) ==
    /\ IF internal[ptr[t]] = -amount
       THEN /\ live' = live \ {ptr[t]}
            /\ internal' = [internal EXCEPT ![ptr[t]] = 0]
            /\ next' = [next EXCEPT ![ptr[t]] = Null]
            /\ data' = [data EXCEPT ![ptr[t]] = NoValue]
       ELSE /\ internal' = [internal EXCEPT ![ptr[t]] = @ + amount]
            /\ UNCHANGED <<live, next, data>>
    /\ ptr' = [ptr EXCEPT ![t] = NoNode]

\* count_increase: without the reference of head and that of this thread.
KeepsHeadCount(t) == old[t].external_count - 1      \* mutant
CountIncrease(t)  == old[t].external_count - 2

\* The thread that took the node gives its external count to internal_count.
Add(t) ==
    /\ pc[t] = "add"
    /\ Release(t, CountIncrease(t))
    /\ old' = [old EXCEPT ![t] = Null]
    /\ res' = [res EXCEPT ![t] = NoValue]
    /\ Goto(t, "idle")
    /\ UNCHANGED <<head, nxt, mine, stack>>

\* The thread that did not takes its announcement back, and tries again.
Sub(t) ==
    /\ pc[t] = "sub"
    /\ Release(t, -1)
    /\ Goto(t, "announce")
    /\ UNCHANGED <<head, old, nxt, mine, res, stack>>

-----------------------------------------------------------------------------
Next == \E t \in Thread :
           \/ \E v \in Value : CallPush(t, v)
           \/ LinkNode(t) \/ LinkNodeFails(t)
           \/ CallPop(t) \/ Announce(t) \/ AnnounceFails(t)
           \/ ReturnEmpty(t) \/ ReadNext(t) \/ Take(t) \/ TakeFails(t)
           \/ Swap(t) \/ Add(t) \/ Sub(t)

Spec == Init /\ [][Next]_vars

-----------------------------------------------------------------------------
(* Properties *)

\* Every variable stays in its range; a pop that is about to return has a value.
TypeOK == /\ head \in CountedPtrs
          /\ next \in [Node -> CountedPtrs]
          /\ data \in [Node -> Value \cup {NoValue}]
          /\ internal \in [Node -> Int]
          /\ live \subseteq Node
          /\ pc \in [Thread -> PCs]
          /\ old \in [Thread -> CountedPtrs]
          /\ ptr \in [Thread -> Node \cup {NoNode}]
          /\ nxt \in [Thread -> CountedPtrs]
          /\ mine \in [Thread -> Node \cup {NoNode}]
          /\ res \in [Thread -> Value \cup {NoValue}]
          /\ stack \in Seq(Node)
          /\ \A t \in Thread : pc[t] = "add" => res[t] \in Value

\* The threads that have announced that they use node n.
Holders(n) == {t \in Thread : ptr[t] = n}

Linked == {stack[i] : i \in DOMAIN stack}

\* The counted pointer that leads to the i-th node: head, or the next of the
\* node above it.
PointerTo(i) == IF i = Len(stack) THEN head ELSE next[stack[i + 1]]

\* Following head and next visits the nodes pushed and not yet popped, newest
\* first: no failed exchange, retry or reused address ever drops or repeats one.
ListIsStack ==
    /\ stack = <<>> <=> head.ptr = NoNode
    /\ \A i \in DOMAIN stack : PointerTo(i).ptr = stack[i]
    /\ stack # <<>> => next[stack[1]].ptr = NoNode

\* A thread that has announced a node, and whoever follows the list, finds an
\* allocated node: nothing is deleted while it may still be used.
NoUseAfterFree ==
    /\ Linked \subseteq live
    /\ \A t \in Thread : ptr[t] # NoNode => ptr[t] \in live

\* "Sum of external and internal counts is total reference" (line 88): a linked
\* node is announced by exactly as many threads as its two counts say, one of the
\* external counts being that of the pointer to it.
CountsBalance ==
    \A i \in DOMAIN stack :
       PointerTo(i).external_count - 1 + internal[stack[i]] = Cardinality(Holders(stack[i]))

\* No node leaks: one that is neither on the stack nor being pushed is in use by
\* a thread, so the last thread to be done with a popped node deletes it.
NoLeak ==
    \A n \in live : \/ n \in Linked
                    \/ \E t \in Thread : mine[t] = n \/ ptr[t] = n

-----------------------------------------------------------------------------
(* Refinement: a push takes effect when head points at its node, a pop when it *)
(* takes head away, a pop that finds nothing when it announces nullptr.        *)

Items == [i \in DOMAIN stack |-> data[stack[i]]]

Result(t) == IF pc[t] = "swap" THEN data[ptr[t]]
             ELSE IF pc[t] = "add" THEN res[t]
             ELSE IF pc[t] = "read" /\ ptr[t] = NoNode THEN "empty"
             ELSE "undecided"

Lifo == INSTANCE LifoStack WITH items <- Items, answer <- [t \in Thread |-> Result(t)],
                                IsEmpty <- "empty", Undecided <- "undecided"

\* Whatever the interleaving, every pop returns what one atomic stack would.
IsLifo == Lifo!Spec
=============================================================================
