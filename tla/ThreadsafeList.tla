--------------------------- MODULE ThreadsafeList ---------------------------
(***************************************************************************)
(* threadsafe_list of "Chapter 6 - Thread-safe list with iteration function    *)
(* support - finer grained.cpp": a linked list with a mutex in every node, the *)
(* dummy head included.  A walk locks the next node before it lets go of the    *)
(* one it is at.                                                              *)
(*                                                                          *)
(* next and data of a node are only accessed under a mutex, so each access is   *)
(* one step with others under the same mutex.  A node deleted may be returned   *)
(* by a later `new`.  insert() is left out: it does not compile, and what it    *)
(* would do if unique_ptr took a raw pointer is to destroy the list behind it.  *)
(***************************************************************************)
EXTENDS Integers, Sequences

CONSTANTS Thread,    \* the calling threads
          Node,      \* the addresses the allocator may return
          Value,     \* the values pushed
          Predicate, \* the sets of values the predicates of callers hold for
          First,     \* the member head
          NoThread,  \* the owner of a free mutex
          NoNode,    \* nullptr
          NoValue    \* the data of no node

ASSUME PredicatesOfValues == Predicate \subseteq SUBSET Value
ASSUME NonesDistinct == /\ NoThread \notin Thread /\ NoValue \notin Value
                        /\ NoNode \notin Node \cup {First} /\ First \notin Node

VARIABLES next, data,  \* the members of the nodes
          live,        \* the allocated nodes
          holder,      \* who holds the mutex m of each node
          pc,          \* where each thread is in its call
          op,          \* which walk that call is
          pred,        \* its predicate
          cur,         \* the walk's current, or push_front's neonode
          nxt,         \* the walk's nextNode, once it is locked
          list,        \* history variable: list[S] is the values of the list but those
                       \* in S, if each walk took effect when it locked head
          due          \* history variable: what a walk has yet to meet of the
                       \* list there was when it locked head

memory  == <<next, data, live>>
history == <<list, due>>
vars    == <<memory, holder, pc, op, pred, cur, nxt, history>>

Places == Node \cup {First}
Goto(t, l)   == pc' = [pc EXCEPT ![t] = l]
Lock(t, n)   == holder[n] = NoThread /\ holder' = [holder EXCEPT ![n] = t]
Unlock(n)    == holder' = [holder EXCEPT ![n] = NoThread]

\* The call returns; its local variables are gone.
Return(t) == /\ Goto(t, "idle")
             /\ op' = [op EXCEPT ![t] = "none"]
             /\ pred' = [pred EXCEPT ![t] = {}]
             /\ cur' = [cur EXCEPT ![t] = NoNode]
             /\ nxt' = [nxt EXCEPT ![t] = NoNode]
             /\ due' = [due EXCEPT ![t] = <<>>]

\* The list without values, with v in front of f, and f without the values of P.
Empty         == [S \in SUBSET Value |-> <<>>]
Front(v, f)   == [S \in SUBSET Value |-> IF v \in S THEN f[S] ELSE <<v>> \o f[S]]
Without(f, P) == [S \in SUBSET Value |-> f[S \cup P]]

Init == /\ next = [n \in Places |-> NoNode]
        /\ data = [n \in Node |-> NoValue]
        /\ live = {}
        /\ holder = [n \in Places |-> NoThread]
        /\ pc = [t \in Thread |-> "idle"]
        /\ op = [t \in Thread |-> "none"]
        /\ pred = [t \in Thread |-> {}]
        /\ cur = [t \in Thread |-> NoNode]
        /\ nxt = [t \in Thread |-> NoNode]
        /\ list = Empty
        /\ due = [t \in Thread |-> <<>>]

-----------------------------------------------------------------------------
(* push_front() *)

\* The new node.
CallPush(t, v) ==
    /\ pc[t] = "idle"
    /\ \E n \in Node \ live :
          /\ live' = live \cup {n}
          /\ data' = [data EXCEPT ![n] = v]
          /\ cur' = [cur EXCEPT ![t] = n]
    /\ Goto(t, "push")
    /\ UNCHANGED <<next, holder, op, pred, nxt, history>>

\* scoped_lock guard{ head.m }
LockPush(t) ==
    /\ pc[t] = "push"
    /\ Lock(t, First)
    /\ Goto(t, "link")
    /\ UNCHANGED <<memory, op, pred, cur, nxt, history>>

\* The node takes over head.next, and becomes it.
LinkFront(t) ==
    /\ pc[t] = "link"
    /\ next' = [next EXCEPT ![cur[t]] = next[First], ![First] = cur[t]]
    /\ list' = Front(data[cur[t]], list)
    /\ Goto(t, "push unlock")
    /\ UNCHANGED <<data, live, holder, op, pred, cur, nxt, due>>

UnlockPush(t) ==
    /\ pc[t] = "push unlock"
    /\ Unlock(First)
    /\ Return(t)
    /\ UNCHANGED <<memory, list>>

-----------------------------------------------------------------------------
(* for_each(), find_first_if() and remove_if() *)

\* unique_lock cur_lk{ head.m }.  A call that waits for head.m holds nothing yet, so it
\* is as good as a call that has not been made.
Call(t, o, P) ==
    /\ pc[t] = "idle"
    /\ Lock(t, First)
    /\ op' = [op EXCEPT ![t] = o]
    /\ pred' = [pred EXCEPT ![t] = P]
    /\ cur' = [cur EXCEPT ![t] = First]
    /\ due' = [due EXCEPT ![t] = list[{}]]
    /\ list' = IF o = "remove_if" THEN Without(list, P) ELSE list
    /\ Goto(t, "next")
    /\ UNCHANGED <<memory, nxt>>

\* There is a next node, and the walk locks it.  remove_if looks at it before it lets
\* go of current, the others after that.  Mutant: remove_if lets go first as well.
LockNextOnly(t) ==
    /\ pc[t] = "next"
    /\ next[cur[t]] # NoNode
    /\ holder[next[cur[t]]] = NoThread
    /\ holder' = [holder EXCEPT ![next[cur[t]]] = t, ![cur[t]] = NoThread]
    /\ nxt' = [nxt EXCEPT ![t] = next[cur[t]]]
    /\ Goto(t, IF op[t] = "remove_if" THEN "test" ELSE "pass")
    /\ UNCHANGED <<memory, op, pred, cur, history>>

LockNext(t) ==
    /\ pc[t] = "next"
    /\ next[cur[t]] # NoNode
    /\ Lock(t, next[cur[t]])
    /\ nxt' = [nxt EXCEPT ![t] = next[cur[t]]]
    /\ Goto(t, IF op[t] = "remove_if" THEN "test" ELSE "pass")
    /\ UNCHANGED <<memory, op, pred, cur, history>>

\* There is none: the walk is over.  (find_first_if flows off its end here; what it
\* returns then is indeterminate.)
End(t) ==
    /\ pc[t] = "next"
    /\ next[cur[t]] = NoNode
    /\ Unlock(cur[t])
    /\ Return(t)
    /\ UNCHANGED <<memory, list>>

\* cur_lk.unlock (); current = nextNode, and its lock with it.  Mutant: that is
\* forgotten, and the lock of the next node is let go at the end of the block.
Stay(t) ==
    /\ pc[t] = "pass"
    /\ holder' = [holder EXCEPT ![cur[t]] = NoThread, ![nxt[t]] = NoThread]
    /\ nxt' = [nxt EXCEPT ![t] = NoNode]
    /\ Goto(t, "next")
    /\ UNCHANGED <<memory, op, pred, cur, history>>

Pass(t) ==
    /\ pc[t] = "pass"
    /\ Unlock(cur[t])
    /\ cur' = [cur EXCEPT ![t] = nxt[t]]
    /\ nxt' = [nxt EXCEPT ![t] = NoNode]
    /\ Goto(t, IF op[t] = "remove_if" THEN "next" ELSE "visit")
    /\ UNCHANGED <<memory, op, pred, history>>

Meet(t) == due' = [due EXCEPT ![t] = SubSeq(due[t], 2, Len(due[t]))]

\* f (data), or p (data) of find_first_if.
Visit(t) ==
    /\ pc[t] = "visit"
    /\ Meet(t)
    /\ Goto(t, IF op[t] = "find_first_if" /\ data[cur[t]] \in pred[t] THEN "found" ELSE "next")
    /\ UNCHANGED <<memory, holder, op, pred, cur, nxt, list>>

\* return nextNode->data
ReturnFound(t) ==
    /\ pc[t] = "found"
    /\ Unlock(cur[t])
    /\ Return(t)
    /\ UNCHANGED <<memory, list>>

\* p (*nextNode->data) of remove_if.
Test(t) ==
    /\ pc[t] = "test"
    /\ Meet(t)
    /\ Goto(t, IF data[nxt[t]] \in pred[t] THEN "unlink" ELSE "pass")
    /\ UNCHANGED <<memory, holder, op, pred, cur, nxt, list>>

\* trash takes the node over, and current gets its next.
Unlink(t) ==
    /\ pc[t] = "unlink"
    /\ next' = [next EXCEPT ![cur[t]] = next[nxt[t]], ![nxt[t]] = NoNode]
    /\ Goto(t, "unlock")
    /\ UNCHANGED <<data, live, holder, op, pred, cur, nxt, history>>

\* nxt_lk.unlock (): "can't destroy the node with the lock on".
UnlockTrash(t) ==
    /\ pc[t] = "unlock"
    /\ Unlock(nxt[t])
    /\ Goto(t, "delete")
    /\ UNCHANGED <<memory, op, pred, cur, nxt, history>>

\* trash goes out of scope.
DeleteTrash(t) ==
    /\ pc[t] = "delete"
    /\ live' = live \ {nxt[t]}
    /\ data' = [data EXCEPT ![nxt[t]] = NoValue]
    /\ nxt' = [nxt EXCEPT ![t] = NoNode]
    /\ Goto(t, "next")
    /\ UNCHANGED <<next, holder, op, pred, cur, history>>

-----------------------------------------------------------------------------
CallAny(t) == \/ \E v \in Value : CallPush(t, v)
              \/ Call(t, "for_each", {})
              \/ \E P \in Predicate : Call(t, "find_first_if", P) \/ Call(t, "remove_if", P)

Proceed(t) == \/ LockPush(t) \/ LinkFront(t) \/ UnlockPush(t)
              \/ LockNext(t) \/ End(t) \/ Pass(t) \/ Visit(t) \/ ReturnFound(t)
              \/ Test(t) \/ Unlink(t) \/ UnlockTrash(t) \/ DeleteTrash(t)

Next == \E t \in Thread : CallAny(t) \/ Proceed(t)

Spec == Init /\ [][Next]_vars

\* A thread that can go on with its call does.  Nothing is assumed of the order in
\* which a mutex is given to those that wait for it.
FairSpec == Spec /\ \A t \in Thread : WF_vars(Proceed(t))

-----------------------------------------------------------------------------
(* Properties *)

\* "There's no way any thread reaching this node" (line 91): the nodes a thread is
\* at, has locked, or may be waiting for are allocated, and none of them is deleted
\* while its mutex is held.
NoUseAfterFree ==
    /\ \A n \in Places : next[n] # NoNode => next[n] \in live
    /\ \A t \in Thread : /\ cur[t] \in live \cup {First, NoNode}
                         /\ nxt[t] \in live \cup {NoNode}
    /\ \A n \in Node \ live : holder[n] = NoThread

\* Walks are atomic, although they overlap: none overtakes another, so each meets
\* the values of the list as it was when the walk locked head, with what the walks
\* before it were still to remove gone already, all of them and in that order.
WalksAreAtomic ==
    \A t \in Thread :
       /\ pc[t] = "visit" => due[t] # <<>> /\ data[cur[t]] = due[t][1]
       /\ pc[t] = "test" => due[t] # <<>> /\ data[nxt[t]] = due[t][1]
       /\ pc[t] = "next" /\ next[cur[t]] = NoNode => due[t] = <<>>

\* A walk that has locked head ends, however many walks and pushes follow it.
WalksEnd == \A t \in Thread : pc[t] = "next" ~> pc[t] = "idle"
=============================================================================
