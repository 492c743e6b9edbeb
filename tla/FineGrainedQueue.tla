--------------------------- MODULE FineGrainedQueue ---------------------------
(***************************************************************************)
(* threadsafe_queue of "Chapter 6 - Fine-Grained thread safe queue locking  *)
(* and waiting.cpp": a singly linked list that ends in a dummy node, with   *)
(* one mutex for the head pointer, one for the tail pointer, and a          *)
(* condition variable used with the head mutex only.                        *)
(*                                                                          *)
(* Any thread may make any call.  A step is what one thread does between    *)
(* two points where another thread can observe it: acquiring a mutex, the   *)
(* accesses made under it, releasing it.  Nodes are addresses: a node freed *)
(* by the unique_ptr that owned it may be handed out again by `new`.        *)
(***************************************************************************)
EXTENDS Integers, Sequences, Functions

CONSTANTS Thread,     \* the calling threads
          Node,       \* the addresses the allocator may return
          Value,      \* the values pushed
          NoThread,   \* owner of an unlocked mutex
          NoNode,     \* nullptr
          NoValue     \* an empty shared_ptr<T>

ASSUME NullsDistinct == /\ NoThread \notin Thread
                        /\ NoNode \notin Node
                        /\ NoValue \notin Value
                        /\ Value \cap {"undecided", "empty", "not empty"} = {}

VARIABLES head,        \* unique_ptr<node> head
          tail,        \* node* tail
          next,        \* node::next
          data,        \* node::data
          live,        \* the allocated nodes
          headMutex,   \* the thread that holds head_mutex
          tailMutex,   \* the thread that holds tail_mutex
          pc,          \* where each thread is in its call
          op,          \* which call that is
          arg,         \* push's neo_data
          node,        \* the node the thread owns: push's `dum`, a pop's old_head
          answer,      \* the result the call is going to return
          chain        \* history variable, read by no step: the list as the pushes
                       \* and pops there were should leave it, oldest node first

memory == <<head, tail, next, data, live>>
locks  == <<headMutex, tailMutex>>
frame  == <<pc, op, arg, node, answer>>
vars   == <<memory, locks, frame, chain>>

WaitOps == {"wait_and_pop()", "wait_and_pop(T&)"}
TryOps  == {"try_pop()", "try_pop(T&)"}
RefOps  == {"wait_and_pop(T&)", "try_pop(T&)"}
Ops     == {"none", "push", "empty"} \cup WaitOps \cup TryOps
PCs     == {"idle", "lock tail", "store", "advance", "notify",
            "lock head", "check", "sleep", "blocked", "pop", "unlinked"}

Goto(t, l) == pc' = [pc EXCEPT ![t] = l]

\* The call of thread t is over.
Finish(t) == /\ Goto(t, "idle")
             /\ op' = [op EXCEPT ![t] = "none"]

\* The threads that wait in cond.wait().
Blocked == {t \in Thread : pc[t] = "blocked"}

-----------------------------------------------------------------------------
(* The constructor: head and tail point at the same dummy node. *)
Init == /\ \E n \in Node : head = n /\ tail = n /\ live = {n} /\ chain = <<n>>
        /\ next = [n \in Node |-> NoNode]
        /\ data = [n \in Node |-> NoValue]
        /\ headMutex = NoThread
        /\ tailMutex = NoThread
        /\ pc = [t \in Thread |-> "idle"]
        /\ op = [t \in Thread |-> "none"]
        /\ arg = [t \in Thread |-> NoValue]
        /\ node = [t \in Thread |-> NoNode]
        /\ answer = [t \in Thread |-> "undecided"]

-----------------------------------------------------------------------------
(* push(neo_value) *)

\* make_shared and new node, outside any lock.  (If either throws, nothing has
\* changed: that is the call that was never made.)
CallPush(t, v) ==
    /\ pc[t] = "idle"
    /\ \E n \in Node \ live :
          /\ live' = live \cup {n}
          /\ next' = [next EXCEPT ![n] = NoNode]
          /\ data' = [data EXCEPT ![n] = NoValue]
          /\ node' = [node EXCEPT ![t] = n]
    /\ op' = [op EXCEPT ![t] = "push"]
    /\ arg' = [arg EXCEPT ![t] = v]
    /\ answer' = [answer EXCEPT ![t] = "undecided"]
    /\ Goto(t, "lock tail")
    /\ UNCHANGED <<head, tail, locks, chain>>

\* Mutant: push takes no lock on the tail.
LockTailUnguarded(t) ==
    /\ pc[t] = "lock tail"
    /\ tailMutex' = t
    /\ Goto(t, "store")
    /\ UNCHANGED <<memory, headMutex, op, arg, node, answer, chain>>

LockTail(t) ==
    /\ pc[t] = "lock tail"
    /\ tailMutex = NoThread
    /\ tailMutex' = t
    /\ Goto(t, "store")
    /\ UNCHANGED <<memory, headMutex, op, arg, node, answer, chain>>

\* Mutant: the value goes into the new node, not into the dummy.
StoreInNewNode(t) ==
    /\ pc[t] = "store"
    /\ data' = [data EXCEPT ![node[t]] = arg[t]]
    /\ next' = [next EXCEPT ![tail] = node[t]]
    /\ arg' = [arg EXCEPT ![t] = NoValue]
    /\ Goto(t, "advance")
    /\ UNCHANGED <<head, tail, live, locks, op, node, answer, chain>>

\* Mutant: the new dummy is not linked.
StoreUnlinked(t) ==
    /\ pc[t] = "store"
    /\ data' = [data EXCEPT ![tail] = arg[t]]
    /\ arg' = [arg EXCEPT ![t] = NoValue]
    /\ Goto(t, "advance")
    /\ UNCHANGED <<head, tail, next, live, locks, op, node, answer, chain>>

\* tail->data = std::move (neo_data); tail->next = std::move (dum)
Store(t) ==
    /\ pc[t] = "store"
    /\ data' = [data EXCEPT ![tail] = arg[t]]
    /\ next' = [next EXCEPT ![tail] = node[t]]
    /\ arg' = [arg EXCEPT ![t] = NoValue]
    /\ Goto(t, "advance")
    /\ UNCHANGED <<head, tail, live, locks, op, node, answer, chain>>

\* tail = neo_tail, and the guard's destructor
Advance(t) ==
    /\ pc[t] = "advance"
    /\ tail' = node[t]
    /\ chain' = Append(chain, node[t])
    /\ node' = [node EXCEPT ![t] = NoNode]
    /\ tailMutex' = NoThread
    /\ Goto(t, "notify")
    /\ UNCHANGED <<head, next, data, live, headMutex, op, arg, answer>>

\* cond.notify_one(), with no mutex held
Notify(t) ==
    /\ pc[t] = "notify"
    /\ op' = [op EXCEPT ![t] = "none"]
    /\ IF Blocked = {}
       THEN Goto(t, "idle")
       ELSE \E w \in Blocked :
              pc' = [pc EXCEPT ![t] = "idle", ![w] = "lock head"]
    /\ UNCHANGED <<memory, locks, arg, node, answer, chain>>

-----------------------------------------------------------------------------
(* wait_and_pop, try_pop and empty *)

Call(t, o) ==
    /\ pc[t] = "idle"
    /\ op' = [op EXCEPT ![t] = o]
    /\ answer' = [answer EXCEPT ![t] = "undecided"]
    /\ Goto(t, "lock head")
    /\ UNCHANGED <<memory, locks, arg, node, chain>>

\* Mutant: the head is not locked.
LockHeadUnguarded(t) ==
    /\ pc[t] = "lock head"
    /\ headMutex' = t
    /\ Goto(t, "check")
    /\ UNCHANGED <<memory, tailMutex, op, arg, node, answer, chain>>

\* The guard on head_mutex, also when cond.wait() wakes up.
LockHead(t) ==
    /\ pc[t] = "lock head"
    /\ headMutex = NoThread
    /\ headMutex' = t
    /\ Goto(t, "check")
    /\ UNCHANGED <<memory, tailMutex, op, arg, node, answer, chain>>

\* head.get() == get_tail(): get_tail locks tail_mutex only to copy the pointer.
TailReadable == tailMutex = NoThread
NoData       == head = tail

\* wait_for_data's predicate is false: the thread is going to sleep.
CheckWait(t) ==
    /\ pc[t] = "check" /\ op[t] \in WaitOps
    /\ TailReadable /\ NoData
    /\ Goto(t, "sleep")
    /\ UNCHANGED <<memory, locks, op, arg, node, answer, chain>>

\* try_pop finds the queue empty, or empty() knows its result.
CheckReturn(t) ==
    /\ pc[t] = "check"
    /\ \/ op[t] \in TryOps /\ NoData
       \/ op[t] = "empty"
    /\ TailReadable
    /\ answer' = [answer EXCEPT ![t] = IF NoData THEN "empty" ELSE "not empty"]
    /\ headMutex' = NoThread
    /\ Finish(t)
    /\ UNCHANGED <<memory, tailMutex, arg, node, chain>>

\* There is data, and head_mutex is still held.
CheckPop(t) ==
    /\ pc[t] = "check" /\ op[t] \in WaitOps \cup TryOps
    /\ TailReadable /\ ~NoData
    /\ Goto(t, "pop")
    /\ UNCHANGED <<memory, locks, op, arg, node, answer, chain>>

\* cond.wait releases head_mutex and blocks, atomically.
Sleep(t) ==
    /\ pc[t] = "sleep"
    /\ headMutex' = NoThread
    /\ Goto(t, "blocked")
    /\ UNCHANGED <<memory, tailMutex, op, arg, node, answer, chain>>

\* A condition variable may wake a waiter that nobody notified.
SpuriousWake(t) ==
    /\ pc[t] = "blocked"
    /\ Goto(t, "lock head")
    /\ UNCHANGED <<memory, locks, op, arg, node, answer, chain>>

\* The T& overloads move the value out before they unlink the node.
TakesValue(t) == op[t] \in RefOps

\* pop_head, then the guard's destructor: old_head is now the thread's own.
Unlink(t) ==
    /\ pc[t] = "pop"
    /\ answer' = IF TakesValue(t) THEN [answer EXCEPT ![t] = data[head]] ELSE answer
    /\ node' = [node EXCEPT ![t] = head]
    /\ head' = next[head]
    /\ chain' = Tail(chain)
    /\ next' = [next EXCEPT ![head] = NoNode]
    /\ headMutex' = NoThread
    /\ Goto(t, "unlinked")
    /\ UNCHANGED <<tail, data, live, tailMutex, op, arg>>

\* `value = std::move (*head->data)` may throw: the list is as it was.
MoveThrows(t) ==
    /\ pc[t] = "pop" /\ TakesValue(t)
    /\ headMutex' = NoThread
    /\ Finish(t)
    /\ UNCHANGED <<memory, tailMutex, arg, node, answer, chain>>

\* The shared_ptr overloads read old_head->data; then old_head is destroyed.
Return(t) ==
    /\ pc[t] = "unlinked"
    /\ answer' = IF TakesValue(t) THEN answer ELSE [answer EXCEPT ![t] = data[node[t]]]
    /\ live' = live \ {node[t]}
    /\ node' = [node EXCEPT ![t] = NoNode]
    /\ Finish(t)
    /\ UNCHANGED <<head, tail, next, data, locks, arg, chain>>

-----------------------------------------------------------------------------
\* What a thread does by itself once it has been called.
Proceed(t) == \/ LockTail(t) \/ Store(t) \/ Advance(t) \/ Notify(t)
              \/ LockHead(t) \/ CheckWait(t) \/ CheckReturn(t) \/ CheckPop(t)
              \/ Sleep(t) \/ Unlink(t) \/ Return(t)

Next == \E t \in Thread :
           \/ \E v \in Value : CallPush(t, v)
           \/ \E o \in Ops \ {"none", "push"} : Call(t, o)
           \/ Proceed(t)
           \/ SpuriousWake(t)
           \/ MoveThrows(t)

Spec == Init /\ [][Next]_vars

-----------------------------------------------------------------------------
(* Properties *)

\* The nodes of the list: those that no thread owns.
Linked == {x \in live : \A t \in Thread : node[t] # x}

\* Every variable stays in its range.  That head and tail are never null is
\* what lets every operation dereference them without a test.
TypeOK == /\ head \in Node /\ tail \in Node /\ live \subseteq Node
          /\ next \in [Node -> Node \cup {NoNode}]
          /\ data \in [Node -> Value \cup {NoValue}]
          /\ headMutex \in Thread \cup {NoThread}
          /\ tailMutex \in Thread \cup {NoThread}
          /\ pc \in [Thread -> PCs]
          /\ op \in [Thread -> Ops]
          /\ arg \in [Thread -> Value \cup {NoValue}]
          /\ node \in [Thread -> Node \cup {NoNode}]
          /\ answer \in [Thread -> Value \cup {"undecided", "empty", "not empty"}]

\* Pushers and poppers that hold different mutexes never damage the list: head
\* and tail are allocated and owned by no thread, every linked node before the
\* tail carries a value and points at a linked node of its own, none at head.
ListIntact ==
    /\ head \in Linked /\ tail \in Linked
    /\ \A x \in Linked \ {tail} :
          /\ data[x] \in Value
          /\ next[x] \in Linked \ {head}
          /\ \A y \in Linked \ {tail} : next[x] = next[y] => x = y

\* wait_and_pop and try_pop never take the dummy node (old_head->data would be
\* an empty shared_ptr), no two threads own one node, and the destructor of a
\* popped node frees nothing but that node.
PoppedHasData ==
    \A t \in Thread : pc[t] = "unlinked" =>
       /\ node[t] \in live
       /\ data[node[t]] \in Value
       /\ next[node[t]] = NoNode
       /\ \A u \in Thread \ {t} : node[u] # node[t]

\* No push is lost and no node leaks: following next from head to tail meets the
\* nodes pushed and not yet popped, in that order, and those are all the allocated
\* nodes that are not in the hands of one thread.
NothingLost ==
    /\ Range(chain) = Linked
    /\ chain # <<>> /\ head = chain[1] /\ tail = chain[Len(chain)]
    /\ \A i \in 1 .. Len(chain) - 1 : next[chain[i]] = chain[i + 1]

-----------------------------------------------------------------------------
(* Refinement: the queue is the atomic FIFO queue.  A push takes effect when   *)
(* tail moves, a pop when head moves, the others when they compare the two.    *)

Items == [i \in 1 .. Len(chain) - 1 |-> data[chain[i]]]

Result(t) == IF pc[t] = "unlinked" /\ ~TakesValue(t) THEN data[node[t]] ELSE answer[t]

Fifo == INSTANCE FifoQueue WITH items <- Items, answer <- [t \in Thread |-> Result(t)]

\* Whatever the interleaving of pushes, pops and empty() calls, every call
\* returns what one atomic FIFO queue would return.
IsFifo == Fifo!Spec

-----------------------------------------------------------------------------
(* Liveness *)

Waiting(t) == pc[t] = "blocked"

\* wait_for_data is "Just for waiting if there's data on the queue" (line 24) and
\* push will "Notify others there's work to do" (line 150): a thread that is
\* waiting while there is data wakes up, or the data goes to another thread.
WaitersServed ==
    \A t \in Thread : (Waiting(t) /\ ~NoData) ~> (~Waiting(t) \/ NoData)

=============================================================================
