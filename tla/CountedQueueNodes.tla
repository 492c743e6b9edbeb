-------------------------- MODULE CountedQueueNodes --------------------------
(***************************************************************************)
(* What the two lock-free queues of Chapter 7 have in common: the nodes, their *)
(* split reference counts, and pop().  Their push()es are in SplitCountQueue   *)
(* and HelpingQueue.                                                          *)
(*                                                                          *)
(* head and tail are counted pointers: how often a thread announced that it    *)
(* is going to use the node (external_count), and the node.  Up to two counted  *)
(* pointers lead to a node; its count says how many still do                  *)
(* (external_counters) and takes back the announcements of the threads that     *)
(* are done (internal_count).  Whoever brings both to zero deletes the node.    *)
(*                                                                          *)
(* A step is one atomic operation, or one access to a node; the loops that       *)
(* update a count take effect in their successful exchange.  Every operation     *)
(* on head, tail, data and next synchronises, so memory is taken to be           *)
(* sequentially consistent.  A node deleted may be returned by a later `new`.    *)
(***************************************************************************)
EXTENDS Integers, FiniteSets, Sequences, FiniteSetsExt

CONSTANTS Thread,     \* the calling threads
          Casts,      \* who may be calling what: [pushers, poppers], sets of threads
          Node,       \* the addresses the allocator may return
          Value,      \* the objects pushed
          NoNode,     \* nullptr
          NoValue,    \* a null T*
          FreshData,  \* what node(), which does not initialise data, may leave in it
          MaxCount    \* bound: external_count stays below INT_MAX

ASSUME NullsDistinct == /\ NoNode \notin Node /\ NoValue \notin Value
                        /\ Value \cap {"undecided", "empty", "not empty"} = {}
ASSUME CastsOfThreads ==
    \A c \in Casts : c.pushers \subseteq Thread /\ c.poppers \subseteq Thread
ASSUME BoundPositive == MaxCount \in Nat \ {0}
ASSUME FreshIsNoValue == FreshData \cap Value = {}
ASSUME ThreadsFinite == IsFiniteSet(Thread)

VARIABLES cast,             \* who calls what in this use of the queue; never changes
          head, tail,       \* atomic<counted_node_ptr>
          data,             \* node::data
          next,             \* node::next
          internal,         \* node::count.internal_count
          external,         \* node::count.external_counters
          live,             \* the allocated nodes
          pc,               \* where each thread is in its call
          old,              \* push's old_tail, pop's old_head
          ptr,              \* the node the thread has announced
          nxt,              \* pop: ptr->next, once it is read
          arg,              \* push's neo_data, until a node owns it
          mine,             \* push's neo_next.ptr, until the list owns it
          queue             \* history variable, read by no step: the nodes from
                            \* head on that tail has passed

counts    == <<internal, external, live>>
nodes     == <<data, next, counts>>
push      == <<arg, mine>>
queueVars == <<cast, head, tail, nodes, pc, old, ptr, nxt, push, queue>>

Counted(c, n) == [external_count |-> c, ptr |-> n]
Null          == Counted(0, NoNode)
CountedPtrs   == [external_count : 0 .. MaxCount, ptr : Node \cup {NoNode}]
PopPCs        == {"announce head", "compare tail", "release empty", "read", "take", "get",
                  "free head", "release head"}

Goto(t, l) == pc' = [pc EXCEPT ![t] = l]

\* What a deleted node held is forgotten, so that a deleted node has one state.
Blank == /\ data = [n \in Node |-> NoValue]
         /\ next = [n \in Node |-> Null]
         /\ internal = [n \in Node |-> 0]

\* The file has no constructor: a queue of one dummy node, with one count for each
\* of the pointers to it.
QueueInit == /\ cast \in Casts
             /\ \E n \in Node :
                  /\ head = Counted(1, n) /\ tail = Counted(1, n)
                  /\ live = {n}
                  /\ external = [m \in Node |-> IF m = n THEN 2 ELSE 0]
             /\ Blank
             /\ pc = [t \in Thread |-> "idle"]
             /\ old = [t \in Thread |-> Null]
             /\ ptr = [t \in Thread |-> NoNode]
             /\ nxt = [t \in Thread |-> Null]
             /\ arg = [t \in Thread |-> NoValue]
             /\ mine = [t \in Thread |-> NoNode]
             /\ queue = <<>>

-----------------------------------------------------------------------------
(* The counts *)

\* new node (): its count, and no next.  Its data is whatever was there.
New(n) == /\ n \notin live
          /\ live' = live \cup {n}
          /\ internal' = [internal EXCEPT ![n] = 0]
          /\ external' = [external EXCEPT ![n] = 2]
          /\ next' = [next EXCEPT ![n] = Null]
          /\ \E d \in FreshData : data' = [data EXCEPT ![n] = d]

\* One more thread uses the node behind a counted pointer.
Announced(c) == Counted(c.external_count + 1, c.ptr)

\* The count of node n changes; at zero n is deleted.
Settle(n, references, pointers) ==
    IF references = 0 /\ pointers = 0
    THEN /\ live' = live \ {n}
         /\ internal' = [internal EXCEPT ![n] = 0]
         /\ external' = [external EXCEPT ![n] = 0]
         /\ next' = [next EXCEPT ![n] = Null]
         /\ data' = [data EXCEPT ![n] = NoValue]
    ELSE /\ internal' = [internal EXCEPT ![n] = references]
         /\ external' = [external EXCEPT ![n] = pointers]
         /\ UNCHANGED <<live, next, data>>

\* Thread t is done with its node: release_ref().
ReleaseRef(t) == /\ Settle(ptr[t], internal[ptr[t]] - 1, external[ptr[t]])
                 /\ ptr' = [ptr EXCEPT ![t] = NoNode]

\* count_increase: without the count the pointer began with and that of this thread.
KeepsOwnCount(c) == c.external_count - 1       \* mutant
CountIncrease(c) == c.external_count - 2

\* A counted pointer no longer leads to the node: free_external_counter(old).  (A
\* counter below zero would wrap; TypeOK has none.)
FreeExternalCounter(t) ==
    /\ Settle(old[t].ptr, internal[old[t].ptr] + CountIncrease(old[t]),
              external[old[t].ptr] - 1)
    /\ ptr' = [ptr EXCEPT ![t] = NoNode]
    /\ old' = [old EXCEPT ![t] = Null]

-----------------------------------------------------------------------------
(* pop() *)

\* old_head = head.load ()
CallPop(t) ==
    /\ pc[t] = "idle"
    /\ old' = [old EXCEPT ![t] = head]
    /\ Goto(t, "announce head")
    /\ UNCHANGED <<cast, head, tail, nodes, ptr, nxt, queue, push>>

\* increase_external_count (head, old_head): the exchange succeeds.
AnnounceHead(t) ==
    /\ pc[t] = "announce head"
    /\ head = old[t]
    /\ head.external_count < MaxCount
    /\ head' = Announced(head)
    /\ old' = [old EXCEPT ![t] = Announced(head)]
    /\ ptr' = [ptr EXCEPT ![t] = head.ptr]
    /\ Goto(t, "compare tail")
    /\ UNCHANGED <<cast, tail, nodes, nxt, queue, push>>

\* It fails, and loads head into old_counter.
AnnounceHeadFails(t) ==
    /\ pc[t] = "announce head"
    /\ head # old[t]
    /\ old' = [old EXCEPT ![t] = head]
    /\ UNCHANGED <<cast, head, tail, nodes, pc, ptr, nxt, queue, push>>

\* if (ptr == tail.load ().ptr).  Mutant: the test is dropped.
NeverEmpty(t)  == FALSE
EmptyQueue(t) == ptr[t] = tail.ptr

CompareTail(t) ==
    /\ pc[t] = "compare tail"
    /\ Goto(t, IF EmptyQueue(t) THEN "release empty" ELSE "read")
    /\ UNCHANGED <<cast, head, tail, nodes, old, ptr, nxt, queue, push>>

\* release_ref, and return an empty unique_ptr.
ReturnEmpty(t) ==
    /\ pc[t] = "release empty"
    /\ ReleaseRef(t)
    /\ old' = [old EXCEPT ![t] = Null]
    /\ Goto(t, "idle")
    /\ UNCHANGED <<cast, head, tail, nxt, queue, push>>

\* The argument ptr->next of the exchange.
ReadNext(t) ==
    /\ pc[t] = "read"
    /\ nxt' = [nxt EXCEPT ![t] = next[ptr[t]]]
    /\ Goto(t, "take")
    /\ UNCHANGED <<cast, head, tail, nodes, old, ptr, queue, push>>

\* Mutant: only the node is compared, not its count.
SameNode(t)      == head.ptr = old[t].ptr
HeadUnchanged(t) == head = old[t]

\* head.compare_exchange_strong (old_head, ptr->next) succeeds.
Take(t) ==
    /\ pc[t] = "take"
    /\ HeadUnchanged(t)
    /\ head' = nxt[t]
    /\ nxt' = [nxt EXCEPT ![t] = Null]
    /\ queue' = SubSeq(queue, 2, Len(queue))
    /\ Goto(t, "get")
    /\ UNCHANGED <<cast, tail, nodes, old, ptr, push>>

\* It fails, and loads head into old_head.
TakeFails(t) ==
    /\ pc[t] = "take"
    /\ ~HeadUnchanged(t)
    /\ old' = [old EXCEPT ![t] = head]
    /\ nxt' = [nxt EXCEPT ![t] = Null]
    /\ Goto(t, "release head")
    /\ UNCHANGED <<cast, head, tail, nodes, ptr, queue, push>>

\* res = ptr->data.exchange (nullptr)
Get(t) ==
    /\ pc[t] = "get"
    /\ data' = [data EXCEPT ![ptr[t]] = NoValue]
    /\ Goto(t, "free head")
    /\ UNCHANGED <<cast, head, tail, next, counts, old, ptr, nxt, queue, push>>

\* free_external_counter (old_head), and return res.
FreeHead(t) ==
    /\ pc[t] = "free head"
    /\ FreeExternalCounter(t)
    /\ Goto(t, "idle")
    /\ UNCHANGED <<cast, head, tail, nxt, queue, push>>

\* Another thread moved head: release_ref, and try again.
ReleaseHead(t) ==
    /\ pc[t] = "release head"
    /\ ReleaseRef(t)
    /\ Goto(t, "announce head")
    /\ UNCHANGED <<cast, head, tail, old, nxt, queue, push>>

Pop(t) == \/ CallPop(t) \/ AnnounceHead(t) \/ AnnounceHeadFails(t)
          \/ CompareTail(t) \/ ReturnEmpty(t) \/ ReadNext(t) \/ Take(t) \/ TakeFails(t)
          \/ Get(t) \/ FreeHead(t) \/ ReleaseHead(t)

-----------------------------------------------------------------------------
(* The start of push() *)

\* new T, new node, and old_tail = tail.load ().
CallPush(t, v) ==
    /\ pc[t] = "idle"
    /\ \E n \in Node : New(n) /\ mine' = [mine EXCEPT ![t] = n]
    /\ arg' = [arg EXCEPT ![t] = v]
    /\ old' = [old EXCEPT ![t] = tail]
    /\ Goto(t, "announce tail")
    /\ UNCHANGED <<cast, head, tail, ptr, nxt, queue>>

\* increase_external_count (tail, old_tail), at the start of each round of push().
AnnounceTail(t) ==
    /\ pc[t] = "announce tail"
    /\ tail = old[t]
    /\ tail.external_count < MaxCount
    /\ tail' = Announced(tail)
    /\ old' = [old EXCEPT ![t] = Announced(tail)]
    /\ ptr' = [ptr EXCEPT ![t] = tail.ptr]
    /\ Goto(t, "claim")
    /\ UNCHANGED <<cast, head, nodes, nxt, queue, push>>

AnnounceTailFails(t) ==
    /\ pc[t] = "announce tail"
    /\ tail # old[t]
    /\ old' = [old EXCEPT ![t] = tail]
    /\ UNCHANGED <<cast, head, tail, nodes, pc, ptr, nxt, queue, push>>

-----------------------------------------------------------------------------
(* Properties they share *)

\* Every variable stays in its range (external_counters has two bits), and a pop
\* that took a node finds data in it.
TypeOK == /\ cast \in Casts
          /\ head \in CountedPtrs /\ tail \in CountedPtrs
          /\ data \in [Node -> Value \cup {NoValue} \cup FreshData]
          /\ next \in [Node -> CountedPtrs]
          /\ internal \in [Node -> Int]
          /\ external \in [Node -> 0 .. 3]
          /\ live \subseteq Node
          /\ old \in [Thread -> CountedPtrs]
          /\ ptr \in [Thread -> Node \cup {NoNode}]
          /\ nxt \in [Thread -> CountedPtrs]
          /\ arg \in [Thread -> Value \cup {NoValue}]
          /\ mine \in [Thread -> Node \cup {NoNode}]
          /\ queue \in Seq(Node)
          /\ \A t \in Thread : pc[t] = "get" => data[ptr[t]] \in Value

\* The nodes from head to tail, the dummy one included.
Linked == {queue[i] : i \in DOMAIN queue} \cup {tail.ptr}

\* The counted pointer that leads to the i-th of them: head, or the next of the
\* node before.
PointerTo(i) == IF i = 1 THEN head ELSE next[queue[i - 1]]

\* A thread that has announced a node, and whoever follows the list, finds an
\* allocated node.
NoUseAfterFree ==
    /\ Linked \subseteq live
    /\ \A t \in Thread : ptr[t] # NoNode => ptr[t] \in live

\* The threads that have announced node n and are not yet done with it, and those
\* of them that took one of the counted pointers away from it.
Users(n)  == {t \in Thread : ptr[t] = n}
Takers(n) == {t \in Users(n) : pc[t] \in {"get", "free head", "free tail"}}

Announcements(c) == c.external_count - 1

\* The two counts agree with what there is: each node of the list is led to by
\* external_counters pointers, those about to be freed included ("max is 2", line
\* 20), and the announcements not taken back are those of the threads that use it.
CountsBalance ==
    \A i \in 1 .. Len(queue) + 1 :
       LET n       == IF i > Len(queue) THEN tail.ptr ELSE queue[i]
           isTail  == n = tail.ptr
           pending == MapThenSumSet(LAMBDA t : Announcements(old[t]), Takers(n))
       IN  /\ external[n] = (IF isTail THEN 2 ELSE 1) + Cardinality(Takers(n))
           /\ internal[n] + pending + Announcements(PointerTo(i))
                + (IF isTail THEN Announcements(tail) ELSE 0) = Cardinality(Users(n))

\* No node leaks: one that is neither in the list, nor follows its last node, is in
\* a push or in use by a thread, so the last thread to be done with it deletes it.
NoLeak ==
    \A n \in live : \/ n \in Linked
                    \/ n = next[tail.ptr].ptr
                    \/ \E t \in Thread : mine[t] = n \/ ptr[t] = n

\* What an atomic queue would hold.
Items == [i \in DOMAIN queue |-> data[queue[i]]]

PopResult(t) == IF pc[t] = "release empty" THEN "empty"
                ELSE IF pc[t] = "get" THEN data[ptr[t]]
                ELSE "undecided"

-----------------------------------------------------------------------------
(* Refinement: a push takes effect when tail moves past its node, a pop when it   *)
(* takes head away, a pop that finds nothing when it compares its node with tail. *)

Fifo == INSTANCE FifoQueue WITH items <- Items, answer <- [t \in Thread |-> PopResult(t)]

\* Every pop returns what one atomic FIFO queue would.
IsFifo == Fifo!Spec
=============================================================================
