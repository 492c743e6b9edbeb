----------------------------- MODULE StackNodes -----------------------------
(***************************************************************************)
(* What the lock-free stacks of Chapter 7 that keep a plain atomic<node*>     *)
(* have in common: the nodes, and push().  Their pop()s, and how they get rid  *)
(* of a popped node, are in HazardPointerStack and CountedReclaimStack.         *)
(*                                                                          *)
(* A step is one atomic operation, or one access to a node.  Memory is         *)
(* sequentially consistent, as the default orderings of these files ask.       *)
(* A node deleted may be returned by a later `new` (the ABA hazard).           *)
(***************************************************************************)
EXTENDS Integers, FiniteSets, Sequences

CONSTANTS Thread,     \* the calling threads
          Node,       \* the addresses the allocator may return
          Value,      \* the values pushed
          NoNode,     \* nullptr
          NoValue     \* an empty shared_ptr<T>

ASSUME NullsDistinct == NoNode \notin Node /\ NoValue \notin Value
ASSUME ThreadsFinite == IsFiniteSet(Thread)

VARIABLES head,       \* atomic<node*>
          next,       \* node::next
          data,       \* node::data
          live,       \* the allocated nodes
          pc,         \* where each thread is in its call
          mine,       \* push's neoNode, until head points at it
          old,        \* pop's old_head
          nxt,        \* old_head->next, once pop has read it
          stack       \* history variable, read by no step: the nodes pushed and
                      \* not yet popped, bottom first

nodes     == <<next, data, live>>
popping   == <<old, nxt>>
stackVars == <<head, nodes, pc, mine, popping, stack>>

Nodes == Node \cup {NoNode}

Goto(t, l) == pc' = [pc EXCEPT ![t] = l]

StackInit == /\ head = NoNode
             /\ next = [n \in Node |-> NoNode]
             /\ data = [n \in Node |-> NoValue]
             /\ live = {}
             /\ pc = [t \in Thread |-> "idle"]
             /\ mine = [t \in Thread |-> NoNode]
             /\ old = [t \in Thread |-> NoNode]
             /\ nxt = [t \in Thread |-> NoNode]
             /\ stack = <<>>

-----------------------------------------------------------------------------
(* push(data) *)

\* The constructor of node stores the value.
NothingStored(v) == NoValue      \* mutant
Stored(v)        == v

\* new node (data), and neoNode->next = head.load ().
CallPush(t, v) ==
    /\ pc[t] = "idle"
    /\ \E n \in Node \ live :
          /\ live' = live \cup {n}
          /\ data' = [data EXCEPT ![n] = Stored(v)]
          /\ next' = [next EXCEPT ![n] = head]
          /\ mine' = [mine EXCEPT ![t] = n]
    /\ Goto(t, "push")
    /\ UNCHANGED <<head, popping, stack>>

\* compare_exchange_weak succeeds: head still is what next says.
NextIsHead(t) == head = next[mine[t]]

LinkNode(t) ==
    /\ pc[t] = "push"
    /\ NextIsHead(t)
    /\ head' = mine[t]
    /\ stack' = Append(stack, mine[t])
    /\ mine' = [mine EXCEPT ![t] = NoNode]
    /\ Goto(t, "idle")
    /\ UNCHANGED <<nodes, popping>>

\* It fails, and loads head into next.  (A spurious failure changes nothing.)
LinkNodeFails(t) ==
    /\ pc[t] = "push"
    /\ ~NextIsHead(t)
    /\ next' = [next EXCEPT ![mine[t]] = head]
    /\ UNCHANGED <<head, data, live, pc, mine, popping, stack>>

Push(t) == (\E v \in Value : CallPush(t, v)) \/ LinkNode(t) \/ LinkNodeFails(t)

-----------------------------------------------------------------------------
(* The pieces of every pop() *)

\* The argument old_head->next of the exchange.
ReadNext(t) ==
    /\ pc[t] = "read"
    /\ old[t] # NoNode
    /\ nxt' = [nxt EXCEPT ![t] = next[old[t]]]
    /\ Goto(t, "exchange")
    /\ UNCHANGED <<head, nodes, mine, old, stack>>

\* What compare_exchange (old_head, old_head->next) asks.
HeadUnchanged(t) == head = old[t]

\* It succeeds; the pop goes on at l.
Take(t, l) ==
    /\ pc[t] = "exchange"
    /\ HeadUnchanged(t)
    /\ head' = nxt[t]
    /\ nxt' = [nxt EXCEPT ![t] = NoNode]
    /\ stack' = SubSeq(stack, 1, Len(stack) - 1)
    /\ Goto(t, l)
    /\ UNCHANGED <<nodes, mine, old>>

\* It fails, and loads head into old_head.
TakeFails(t, l) ==
    /\ pc[t] = "exchange"
    /\ ~HeadUnchanged(t)
    /\ old' = [old EXCEPT ![t] = head]
    /\ nxt' = [nxt EXCEPT ![t] = NoNode]
    /\ Goto(t, l)
    /\ UNCHANGED <<head, nodes, mine, stack>>

\* delete the nodes of N; what they held is forgotten.
Delete(N) == /\ live' = live \ N
             /\ next' = [n \in Node |-> IF n \in N THEN NoNode ELSE next[n]]
             /\ data' = [n \in Node |-> IF n \in N THEN NoValue ELSE data[n]]

-----------------------------------------------------------------------------
(* Properties they share *)

StackTypeOK == /\ head \in Nodes
               /\ next \in [Node -> Nodes]
               /\ data \in [Node -> Value \cup {NoValue}]
               /\ live \subseteq Node
               /\ mine \in [Thread -> Nodes]
               /\ old \in [Thread -> Nodes]
               /\ nxt \in [Thread -> Nodes]
               /\ stack \in Seq(Node)

Linked == {stack[i] : i \in DOMAIN stack}

\* What an atomic stack would hold.
Items == [i \in DOMAIN stack |-> data[stack[i]]]
=============================================================================
