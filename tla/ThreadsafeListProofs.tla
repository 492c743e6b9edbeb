------------------------- MODULE ThreadsafeListProofs -------------------------
(***************************************************************************)
(* No node of the hand-over-hand list is used after it is deleted, for any     *)
(* threads, nodes, values and predicates.                                      *)
(*                                                                          *)
(* NoUseAfterFree is not inductive.  A remover may delete a node because it     *)
(* has taken it out of everybody's reach, which is what Private states; it has,  *)
(* since it holds the node and the one before (Locked), no other node leads      *)
(* there (OneBefore), and a walk holds the nodes it refers to (Locals).           *)
(***************************************************************************)
EXTENDS ThreadsafeList, SequenceTheorems, TLAPS

PCs == {"idle", "push", "link", "push unlock", "next", "visit", "found",
        "pass", "test", "unlink", "unlock", "delete"}

\* Where a walk has a lock on the next node of the list; on that or on the trash; on one.
Ahead   == {"pass", "test", "unlink"}
Two     == Ahead \cup {"unlock"}
Trashed == {"unlock", "delete"}
Walking == {"next", "visit", "found"} \cup Ahead \cup Trashed
Pushing == {"push", "link", "push unlock"}

Types == /\ next \in [Places -> Node \cup {NoNode}]
         /\ live \subseteq Node
         /\ holder \in [Places -> Thread \cup {NoThread}]
         /\ pc \in [Thread -> PCs]
         /\ cur \in [Thread -> Places \cup {NoNode}]
         /\ nxt \in [Thread -> Node \cup {NoNode}]

\* The mutexes a thread holds, by its place in the code.
Holds(t, n) == \/ pc[t] \in {"link", "push unlock"} /\ n = First
               \/ pc[t] \in Walking /\ n = cur[t]
               \/ pc[t] \in Two /\ n = nxt[t]

Locked == \A t \in Thread, n \in Places : holder[n] = t <=> Holds(t, n)

\* What the local variables of a call hold.
LocalsOf(t) ==
   /\ pc[t] = "idle" => cur[t] = NoNode
   /\ pc[t] \in Walking => cur[t] \in Places
   /\ pc[t] \in Ahead => nxt[t] = next[cur[t]]
   /\ pc[t] \in Ahead \cup Trashed => nxt[t] \in Node /\ nxt[t] # cur[t]
   /\ pc[t] \notin Ahead \cup Trashed => nxt[t] = NoNode
   /\ pc[t] \in Pushing => cur[t] \in Node
   /\ pc[t] = "push unlock" => next[First] = cur[t]

Locals == \A t \in Thread : LocalsOf(t)

\* A node has one before it, and one that is not allocated leads nowhere.
OneBefore == \A m, n \in Places : next[m] = next[n] /\ next[m] # NoNode => m = n
DeadEnds  == \A x \in Node \ live : next[x] = NoNode

\* The node that only thread t can reach: one it is going to push, or has unlinked.
Own(t, x) == \/ pc[t] \in {"push", "link"} /\ x = cur[t]
             \/ pc[t] \in Trashed /\ x = nxt[t]

\* Nothing leads to x, it leads to nothing, and no thread but t refers to it.
Alone(t, x) == /\ next[x] = NoNode
               /\ \A n \in Places : next[n] # x
               /\ \A u \in Thread \ {t} : cur[u] # x /\ nxt[u] # x

Private == \A t \in Thread, x \in Node : Own(t, x) => Alone(t, x)

IInv == Types /\ Locked /\ Locals /\ OneBefore /\ DeadEnds /\ Private /\ NoUseAfterFree

LEMMA InitIInv == Init => IInv
<1> SUFFICES ASSUME Init PROVE IInv
  OBVIOUS
<1> USE NonesDistinct DEF Init, Places
<1>1. Types
  BY DEF Types, PCs
<1>2. Locked /\ Locals
  BY DEF Locked, Holds, Locals, LocalsOf, Walking, Two, Ahead, Trashed, Pushing
<1>3. OneBefore /\ DeadEnds /\ Private /\ NoUseAfterFree
  BY DEF OneBefore, DeadEnds, Private, Own, Trashed, NoUseAfterFree
<1> QED BY <1>1, <1>2, <1>3 DEF IInv

-----------------------------------------------------------------------------
(* What a step of thread t leaves alone, and what it may do with the mutexes. *)

Others(t) == \A u \in Thread \ {t} : pc'[u] = pc[u] /\ cur'[u] = cur[u] /\ nxt'[u] = nxt[u]

\* It locks what is free, unlocks what it holds, and then has what Holds says.
Locks(t) == \A n \in Places :
               /\ holder'[n] # holder[n] => \/ holder[n] = NoThread /\ holder'[n] = t
                                            \/ holder[n] = t /\ holder'[n] = NoThread
               /\ holder'[n] = t <=> Holds(t, n)'

LEMMA OthersKeep ==
  ASSUME NEW t \in Thread, Others(t), NEW u \in Thread \ {t}
  PROVE  /\ \A n : Holds(u, n)' <=> Holds(u, n)
         /\ \A x : Own(u, x)' <=> Own(u, x)
BY DEF Others, Holds, Own

LEMMA LocksKeep ==
  ASSUME Locked, NEW t \in Thread, Others(t), Locks(t)
  PROVE  Locked'
<1> SUFFICES ASSUME NEW u \in Thread, NEW n \in Places PROVE holder'[n] = u <=> Holds(u, n)'
  BY DEF Locked, Places
<1>1. CASE u = t
  BY <1>1 DEF Locks
<1>2. CASE u # t
  BY <1>2, OthersKeep, NonesDistinct DEF Locks, Locked
<1> QED BY <1>1, <1>2

LEMMA LocalsKeep ==
  ASSUME Locals, NEW t \in Thread, Others(t), UNCHANGED next, LocalsOf(t)'
  PROVE  Locals'
<1>1. ASSUME NEW u \in Thread \ {t} PROVE LocalsOf(u)'
  <2>1. LocalsOf(u) /\ pc'[u] = pc[u] /\ cur'[u] = cur[u] /\ nxt'[u] = nxt[u]
    BY DEF Locals, Others
  <2> QED BY <2>1 DEF LocalsOf
<1> QED BY <1>1 DEF Locals

\* The steps that change no pointer and allocate nothing: the thread comes to refer
\* to head or to a node of the list, or to less.
Reaches(x, y) == y \in {x, First, NoNode} \/ \E n \in Places : next[n] = y

LEMMA QuietKeeps ==
  ASSUME IInv, NEW t \in Thread, Others(t), Locks(t), UNCHANGED <<next, live>>,
         Types', LocalsOf(t)',
         \A x \in Node : Own(t, x)' => Own(t, x),
         Reaches(cur[t], cur'[t]), Reaches(nxt[t], nxt'[t]),
         \A n \in Places : holder'[n] = t => n \in live \cup {First}
  PROVE  IInv'
<1>1. Locked'
  BY LocksKeep DEF IInv
<1>2. Locals'
  BY LocalsKeep DEF IInv
<1>3. OneBefore' /\ DeadEnds'
  BY DEF IInv, OneBefore, DeadEnds, Places
<1>4. Private'
  <2> SUFFICES ASSUME NEW u \in Thread, NEW x \in Node, Own(u, x)' PROVE Alone(u, x)'
    BY DEF Private
  <2>1. Own(u, x)
    BY OthersKeep
  <2>2. Alone(u, x)
    BY <2>1 DEF IInv, Private
  <2>3. u # t => cur'[t] # x /\ nxt'[t] # x
    BY <2>2, NonesDistinct DEF Alone, Reaches
  <2> QED BY <2>2, <2>3 DEF Alone, Others, Places
<1>5. NoUseAfterFree'
  <2>1. \A n \in Places : next'[n] # NoNode => next'[n] \in live'
    BY DEF IInv, NoUseAfterFree
  <2>2. \A u \in Thread : cur'[u] \in live' \cup {First, NoNode} /\ nxt'[u] \in live' \cup {NoNode}
    <3>1. cur'[t] \in live \cup {First, NoNode}
      BY DEF IInv, NoUseAfterFree, Reaches
    <3>2. nxt'[t] \in live \cup {NoNode}
      BY NonesDistinct DEF IInv, NoUseAfterFree, Reaches, Types
    <3> QED BY <3>1, <3>2 DEF IInv, NoUseAfterFree, Others
  <2>3. \A n \in Node \ live' : holder'[n] = NoThread
    BY NonesDistinct DEF IInv, NoUseAfterFree, Locks, Places
  <2> QED BY <2>1, <2>2, <2>3 DEF NoUseAfterFree, Places
<1> QED BY <1>1, <1>2, <1>3, <1>4, <1>5 DEF IInv

\* push_front locks head.
LEMMA LockPushKeeps ==
  ASSUME IInv, NEW t \in Thread, LockPush(t)
  PROVE  IInv'
<1> USE NonesDistinct DEF Places, Walking, Two, Ahead, Trashed, Pushing
<1>1. /\ pc[t] = "push" /\ pc'[t] = "link"
      /\ cur[t] \in Node /\ nxt[t] = NoNode
      /\ UNCHANGED <<cur, nxt>>
      /\ holder[First] = NoThread /\ holder' = [holder EXCEPT ![First] = t]
  <2>1. LocalsOf(t) /\ Types
    BY DEF IInv, Locals
  <2> QED BY <2>1 DEF LockPush, Goto, Lock, memory, history, LocalsOf, Types
<1>2. Others(t) /\ UNCHANGED <<next, live>> /\ Types'
  <2>1. Others(t) /\ UNCHANGED <<next, live>>
    BY DEF IInv, Types, Others, LockPush, Goto, Lock, memory, history
  <2>2. holder' \in [Places -> Thread \cup {NoThread}]
    BY <1>1 DEF IInv, Types
  <2>3. pc' \in [Thread -> PCs]
    BY DEF IInv, Types, PCs, LockPush, Goto, Lock, memory, history
  <2>4. cur' \in [Thread -> Places \cup {NoNode}] /\ nxt' \in [Thread -> Node \cup {NoNode}]
    BY <1>1 DEF IInv, Types, LockPush, Goto, Lock, memory, history
  <2> QED BY <2>1, <2>2, <2>3, <2>4 DEF IInv, Types
<1>3. LocalsOf(t)'
  BY <1>1, <1>2 DEF LocalsOf
<1>4. Locks(t)
  <2>1. \A n \in Places : holder[n] = t <=> FALSE
    BY <1>1 DEF IInv, Locked, Holds
  <2>2. \A n \in Places : Holds(t, n)' <=> n = First
    BY <1>1 DEF Holds
  <2>3. \A n \in Places : holder'[n] = t <=> n = First
    BY <1>1, <2>1 DEF IInv, Types
  <2>4. \A n \in Places : holder'[n] # holder[n] => \/ holder[n] = NoThread /\ holder'[n] = t
                                                    \/ holder[n] = t /\ holder'[n] = NoThread
    BY <1>1, <2>1 DEF IInv, Types
  <2> QED BY <2>2, <2>3, <2>4 DEF Locks
<1>5. \A x \in Node : Own(t, x)' => Own(t, x)
  BY <1>1 DEF Own
<1>6. Reaches(cur[t], cur'[t]) /\ Reaches(nxt[t], nxt'[t])
  BY <1>1 DEF Reaches
<1>7. \A n \in Places : holder'[n] = t => n \in live \cup {First}
  <2>1. \A n \in Places : holder[n] = t => n \in live \cup {First}
    BY DEF IInv, NoUseAfterFree
  <2> QED BY <1>1, <2>1 DEF IInv, Types, NoUseAfterFree
<1> QED BY <1>2, <1>3, <1>4, <1>5, <1>6, <1>7, QuietKeeps

\* push_front returns.
LEMMA UnlockPushKeeps ==
  ASSUME IInv, NEW t \in Thread, UnlockPush(t)
  PROVE  IInv'
<1> USE NonesDistinct DEF Places, Walking, Two, Ahead, Trashed, Pushing
<1>1. /\ pc[t] = "push unlock" /\ pc'[t] = "idle"
      /\ cur'[t] = NoNode /\ nxt'[t] = NoNode
      /\ holder' = [holder EXCEPT ![First] = NoThread]
  <2>1. LocalsOf(t) /\ Types
    BY DEF IInv, Locals
  <2> QED BY <2>1 DEF UnlockPush, Goto, Unlock, Return, memory, LocalsOf, Types
<1>2. Others(t) /\ UNCHANGED <<next, live>> /\ Types'
  <2>1. Others(t) /\ UNCHANGED <<next, live>>
    BY DEF IInv, Types, Others, UnlockPush, Goto, Unlock, Return, memory
  <2>2. holder' \in [Places -> Thread \cup {NoThread}]
    BY <1>1 DEF IInv, Types
  <2>3. pc' \in [Thread -> PCs]
    BY DEF IInv, Types, PCs, UnlockPush, Goto, Unlock, Return, memory
  <2>4. cur' \in [Thread -> Places \cup {NoNode}] /\ nxt' \in [Thread -> Node \cup {NoNode}]
    BY <1>1 DEF IInv, Types, UnlockPush, Goto, Unlock, Return, memory
  <2> QED BY <2>1, <2>2, <2>3, <2>4 DEF IInv, Types
<1>3. LocalsOf(t)'
  BY <1>1, <1>2 DEF LocalsOf
<1>4. Locks(t)
  <2>1. \A n \in Places : holder[n] = t <=> n = First
    BY <1>1 DEF IInv, Locked, Holds
  <2>2. \A n \in Places : Holds(t, n)' <=> FALSE
    BY <1>1 DEF Holds
  <2>3. \A n \in Places : holder'[n] = t <=> FALSE
    BY <1>1, <2>1 DEF IInv, Types
  <2>4. \A n \in Places : holder'[n] # holder[n] => \/ holder[n] = NoThread /\ holder'[n] = t
                                                    \/ holder[n] = t /\ holder'[n] = NoThread
    BY <1>1, <2>1 DEF IInv, Types
  <2> QED BY <2>2, <2>3, <2>4 DEF Locks
<1>5. \A x \in Node : Own(t, x)' => Own(t, x)
  BY <1>1 DEF Own
<1>6. Reaches(cur[t], cur'[t]) /\ Reaches(nxt[t], nxt'[t])
  BY <1>1 DEF Reaches
<1>7. \A n \in Places : holder'[n] = t => n \in live \cup {First}
  <2>1. \A n \in Places : holder[n] = t => n \in live \cup {First}
    BY DEF IInv, NoUseAfterFree
  <2> QED BY <1>1, <2>1 DEF IInv, Types, NoUseAfterFree
<1> QED BY <1>2, <1>3, <1>4, <1>5, <1>6, <1>7, QuietKeeps

\* A walk begins at head.
LEMMA CallKeeps ==
  ASSUME IInv, NEW t \in Thread, NEW o, NEW P, Call(t, o, P)
  PROVE  IInv'
<1> USE NonesDistinct DEF Places, Walking, Two, Ahead, Trashed, Pushing
<1>1. /\ pc[t] = "idle" /\ pc'[t] = "next"
      /\ cur'[t] = First /\ nxt'[t] = nxt[t] /\ nxt[t] = NoNode
      /\ holder[First] = NoThread /\ holder' = [holder EXCEPT ![First] = t]
  <2>1. LocalsOf(t) /\ Types
    BY DEF IInv, Locals
  <2> QED BY <2>1 DEF Call, Goto, Lock, memory, LocalsOf, Types
<1>2. Others(t) /\ UNCHANGED <<next, live>> /\ Types'
  <2>1. Others(t) /\ UNCHANGED <<next, live>>
    BY DEF IInv, Types, Others, Call, Goto, Lock, memory
  <2>2. holder' \in [Places -> Thread \cup {NoThread}]
    BY <1>1 DEF IInv, Types
  <2>3. pc' \in [Thread -> PCs]
    BY DEF IInv, Types, PCs, Call, Goto, Lock, memory
  <2>4. cur' \in [Thread -> Places \cup {NoNode}] /\ nxt' \in [Thread -> Node \cup {NoNode}]
    BY <1>1 DEF IInv, Types, Call, Goto, Lock, memory
  <2> QED BY <2>1, <2>2, <2>3, <2>4 DEF IInv, Types
<1>3. LocalsOf(t)'
  BY <1>1, <1>2 DEF LocalsOf
<1>4. Locks(t)
  <2>1. \A n \in Places : holder[n] = t <=> FALSE
    BY <1>1 DEF IInv, Locked, Holds
  <2>2. \A n \in Places : Holds(t, n)' <=> n = First
    BY <1>1 DEF Holds
  <2>3. \A n \in Places : holder'[n] = t <=> n = First
    BY <1>1, <2>1 DEF IInv, Types
  <2>4. \A n \in Places : holder'[n] # holder[n] => \/ holder[n] = NoThread /\ holder'[n] = t
                                                    \/ holder[n] = t /\ holder'[n] = NoThread
    BY <1>1, <2>1 DEF IInv, Types
  <2> QED BY <2>2, <2>3, <2>4 DEF Locks
<1>5. \A x \in Node : Own(t, x)' => Own(t, x)
  BY <1>1 DEF Own
<1>6. Reaches(cur[t], cur'[t]) /\ Reaches(nxt[t], nxt'[t])
  BY <1>1 DEF Reaches
<1>7. \A n \in Places : holder'[n] = t => n \in live \cup {First}
  <2>1. \A n \in Places : holder[n] = t => n \in live \cup {First}
    BY DEF IInv, NoUseAfterFree
  <2> QED BY <1>1, <2>1 DEF IInv, Types, NoUseAfterFree
<1> QED BY <1>2, <1>3, <1>4, <1>5, <1>6, <1>7, QuietKeeps

\* It locks the next node: one it does not hold yet.
LEMMA LockNextKeeps ==
  ASSUME IInv, NEW t \in Thread, LockNext(t)
  PROVE  IInv'
<1> USE NonesDistinct DEF Places, Walking, Two, Ahead, Trashed, Pushing
<1>1. /\ pc[t] = "next" /\ pc'[t] \in {"test", "pass"}
      /\ cur[t] \in Places /\ cur'[t] = cur[t]
      /\ nxt'[t] = next[cur[t]] /\ next[cur[t]] \in Node
      /\ holder[next[cur[t]]] = NoThread /\ holder' = [holder EXCEPT ![next[cur[t]]] = t]
  <2>1. LocalsOf(t) /\ Types
    BY DEF IInv, Locals
  <2> QED BY <2>1 DEF LockNext, Goto, Lock, memory, history, LocalsOf, Types
<1>2. Others(t) /\ UNCHANGED <<next, live>> /\ Types'
  <2>1. Others(t) /\ UNCHANGED <<next, live>>
    BY DEF IInv, Types, Others, LockNext, Goto, Lock, memory, history
  <2>2. holder' \in [Places -> Thread \cup {NoThread}]
    BY <1>1 DEF IInv, Types
  <2>3. pc' \in [Thread -> PCs]
    BY DEF IInv, Types, PCs, LockNext, Goto, Lock, memory, history
  <2>4. cur' \in [Thread -> Places \cup {NoNode}] /\ nxt' \in [Thread -> Node \cup {NoNode}]
    BY <1>1 DEF IInv, Types, LockNext, Goto, Lock, memory, history
  <2> QED BY <2>1, <2>2, <2>3, <2>4 DEF IInv, Types
<1>3. LocalsOf(t)'
  <2>1. holder[cur[t]] = t
    BY <1>1 DEF IInv, Locked, Holds
  <2> QED BY <1>1, <1>2, <2>1 DEF LocalsOf
<1>4. Locks(t)
  <2>1. \A n \in Places : holder[n] = t <=> n = cur[t]
    BY <1>1 DEF IInv, Locked, Holds
  <2>2. \A n \in Places : Holds(t, n)' <=> n \in {cur[t], next[cur[t]]}
    BY <1>1 DEF Holds
  <2>3. \A n \in Places : holder'[n] = t <=> n \in {cur[t], next[cur[t]]}
    BY <1>1, <2>1 DEF IInv, Types
  <2>4. \A n \in Places : holder'[n] # holder[n] => \/ holder[n] = NoThread /\ holder'[n] = t
                                                    \/ holder[n] = t /\ holder'[n] = NoThread
    BY <1>1, <2>1 DEF IInv, Types
  <2> QED BY <2>2, <2>3, <2>4 DEF Locks
<1>5. \A x \in Node : Own(t, x)' => Own(t, x)
  BY <1>1 DEF Own
<1>6. Reaches(cur[t], cur'[t]) /\ Reaches(nxt[t], nxt'[t])
  BY <1>1 DEF Reaches
<1>7. \A n \in Places : holder'[n] = t => n \in live \cup {First}
  <2>1. \A n \in Places : holder[n] = t => n \in live \cup {First}
    BY DEF IInv, NoUseAfterFree
  <2> QED BY <1>1, <2>1 DEF IInv, Types, NoUseAfterFree
<1> QED BY <1>2, <1>3, <1>4, <1>5, <1>6, <1>7, QuietKeeps

\* A walk ends.
LEMMA ReturnKeeps ==
  ASSUME IInv, NEW t \in Thread, End(t) \/ ReturnFound(t)
  PROVE  IInv'
<1> USE NonesDistinct DEF Places, Walking, Two, Ahead, Trashed, Pushing
<1>1. /\ pc[t] \in {"next", "found"} /\ pc'[t] = "idle"
      /\ cur[t] \in Places /\ cur'[t] = NoNode /\ nxt'[t] = NoNode
      /\ holder' = [holder EXCEPT ![cur[t]] = NoThread]
  <2>1. LocalsOf(t) /\ Types
    BY DEF IInv, Locals
  <2> QED BY <2>1 DEF End, ReturnFound, Goto, Unlock, Return, memory, LocalsOf, Types
<1>2. Others(t) /\ UNCHANGED <<next, live>> /\ Types'
  <2>1. Others(t) /\ UNCHANGED <<next, live>>
    BY DEF IInv, Types, Others, End, ReturnFound, Goto, Unlock, Return, memory
  <2>2. holder' \in [Places -> Thread \cup {NoThread}]
    BY <1>1 DEF IInv, Types
  <2>3. pc' \in [Thread -> PCs]
    BY DEF IInv, Types, PCs, End, ReturnFound, Goto, Unlock, Return, memory
  <2>4. cur' \in [Thread -> Places \cup {NoNode}] /\ nxt' \in [Thread -> Node \cup {NoNode}]
    BY <1>1 DEF IInv, Types, End, ReturnFound, Goto, Unlock, Return, memory
  <2> QED BY <2>1, <2>2, <2>3, <2>4 DEF IInv, Types
<1>3. LocalsOf(t)'
  BY <1>1, <1>2 DEF LocalsOf
<1>4. Locks(t)
  <2>1. \A n \in Places : holder[n] = t <=> n = cur[t]
    BY <1>1 DEF IInv, Locked, Holds
  <2>2. \A n \in Places : Holds(t, n)' <=> FALSE
    BY <1>1 DEF Holds
  <2>3. \A n \in Places : holder'[n] = t <=> FALSE
    BY <1>1, <2>1 DEF IInv, Types
  <2>4. \A n \in Places : holder'[n] # holder[n] => \/ holder[n] = NoThread /\ holder'[n] = t
                                                    \/ holder[n] = t /\ holder'[n] = NoThread
    BY <1>1, <2>1 DEF IInv, Types
  <2> QED BY <2>2, <2>3, <2>4 DEF Locks
<1>5. \A x \in Node : Own(t, x)' => Own(t, x)
  BY <1>1 DEF Own
<1>6. Reaches(cur[t], cur'[t]) /\ Reaches(nxt[t], nxt'[t])
  BY <1>1 DEF Reaches
<1>7. \A n \in Places : holder'[n] = t => n \in live \cup {First}
  <2>1. \A n \in Places : holder[n] = t => n \in live \cup {First}
    BY DEF IInv, NoUseAfterFree
  <2> QED BY <1>1, <2>1 DEF IInv, Types, NoUseAfterFree
<1> QED BY <1>2, <1>3, <1>4, <1>5, <1>6, <1>7, QuietKeeps

\* It goes on to the next node.
LEMMA PassKeeps ==
  ASSUME IInv, NEW t \in Thread, Pass(t)
  PROVE  IInv'
<1> USE NonesDistinct DEF Places, Walking, Two, Ahead, Trashed, Pushing
<1>1. /\ pc[t] = "pass" /\ pc'[t] \in {"next", "visit"}
      /\ cur[t] \in Places /\ nxt[t] \in Node /\ nxt[t] # cur[t]
      /\ nxt[t] = next[cur[t]] /\ cur'[t] = nxt[t] /\ nxt'[t] = NoNode
      /\ holder' = [holder EXCEPT ![cur[t]] = NoThread]
  <2>1. LocalsOf(t) /\ Types
    BY DEF IInv, Locals
  <2> QED BY <2>1 DEF Pass, Goto, Unlock, memory, history, LocalsOf, Types
<1>2. Others(t) /\ UNCHANGED <<next, live>> /\ Types'
  <2>1. Others(t) /\ UNCHANGED <<next, live>>
    BY DEF IInv, Types, Others, Pass, Goto, Unlock, memory, history
  <2>2. holder' \in [Places -> Thread \cup {NoThread}]
    BY <1>1 DEF IInv, Types
  <2>3. pc' \in [Thread -> PCs]
    BY DEF IInv, Types, PCs, Pass, Goto, Unlock, memory, history
  <2>4. cur' \in [Thread -> Places \cup {NoNode}] /\ nxt' \in [Thread -> Node \cup {NoNode}]
    BY <1>1 DEF IInv, Types, Pass, Goto, Unlock, memory, history
  <2> QED BY <2>1, <2>2, <2>3, <2>4 DEF IInv, Types
<1>3. LocalsOf(t)'
  BY <1>1, <1>2 DEF LocalsOf
<1>4. Locks(t)
  <2>1. \A n \in Places : holder[n] = t <=> n \in {cur[t], nxt[t]}
    BY <1>1 DEF IInv, Locked, Holds
  <2>2. \A n \in Places : Holds(t, n)' <=> n = nxt[t]
    BY <1>1 DEF Holds
  <2>3. \A n \in Places : holder'[n] = t <=> n = nxt[t]
    BY <1>1, <2>1 DEF IInv, Types
  <2>4. \A n \in Places : holder'[n] # holder[n] => \/ holder[n] = NoThread /\ holder'[n] = t
                                                    \/ holder[n] = t /\ holder'[n] = NoThread
    BY <1>1, <2>1 DEF IInv, Types
  <2> QED BY <2>2, <2>3, <2>4 DEF Locks
<1>5. \A x \in Node : Own(t, x)' => Own(t, x)
  BY <1>1 DEF Own
<1>6. Reaches(cur[t], cur'[t]) /\ Reaches(nxt[t], nxt'[t])
  BY <1>1 DEF Reaches
<1>7. \A n \in Places : holder'[n] = t => n \in live \cup {First}
  <2>1. \A n \in Places : holder[n] = t => n \in live \cup {First}
    BY DEF IInv, NoUseAfterFree
  <2> QED BY <1>1, <2>1 DEF IInv, Types, NoUseAfterFree
<1> QED BY <1>2, <1>3, <1>4, <1>5, <1>6, <1>7, QuietKeeps

\* It looks at the node it is at.
LEMMA VisitKeeps ==
  ASSUME IInv, NEW t \in Thread, Visit(t)
  PROVE  IInv'
<1> USE NonesDistinct DEF Places, Walking, Two, Ahead, Trashed, Pushing
<1>1. /\ pc[t] = "visit" /\ pc'[t] \in {"found", "next"}
      /\ cur[t] \in Places /\ nxt[t] = NoNode
      /\ UNCHANGED <<cur, nxt, holder>>
  <2>1. LocalsOf(t) /\ Types
    BY DEF IInv, Locals
  <2> QED BY <2>1 DEF Visit, Meet, Goto, memory, LocalsOf, Types
<1>2. Others(t) /\ UNCHANGED <<next, live>> /\ Types'
  <2>1. Others(t) /\ UNCHANGED <<next, live>>
    BY DEF IInv, Types, Others, Visit, Meet, Goto, memory
  <2>2. holder' \in [Places -> Thread \cup {NoThread}]
    BY <1>1 DEF IInv, Types
  <2>3. pc' \in [Thread -> PCs]
    BY DEF IInv, Types, PCs, Visit, Meet, Goto, memory
  <2>4. cur' \in [Thread -> Places \cup {NoNode}] /\ nxt' \in [Thread -> Node \cup {NoNode}]
    BY <1>1 DEF IInv, Types, Visit, Meet, Goto, memory
  <2> QED BY <2>1, <2>2, <2>3, <2>4 DEF IInv, Types
<1>3. LocalsOf(t)'
  BY <1>1, <1>2 DEF LocalsOf
<1>4. Locks(t)
  <2>1. \A n \in Places : holder[n] = t <=> n = cur[t]
    BY <1>1 DEF IInv, Locked, Holds
  <2>2. \A n \in Places : Holds(t, n)' <=> n = cur[t]
    BY <1>1 DEF Holds
  <2>3. \A n \in Places : holder'[n] = t <=> n = cur[t]
    BY <1>1, <2>1 DEF IInv, Types
  <2>4. \A n \in Places : holder'[n] # holder[n] => \/ holder[n] = NoThread /\ holder'[n] = t
                                                    \/ holder[n] = t /\ holder'[n] = NoThread
    BY <1>1, <2>1 DEF IInv, Types
  <2> QED BY <2>2, <2>3, <2>4 DEF Locks
<1>5. \A x \in Node : Own(t, x)' => Own(t, x)
  BY <1>1 DEF Own
<1>6. Reaches(cur[t], cur'[t]) /\ Reaches(nxt[t], nxt'[t])
  BY <1>1 DEF Reaches
<1>7. \A n \in Places : holder'[n] = t => n \in live \cup {First}
  <2>1. \A n \in Places : holder[n] = t => n \in live \cup {First}
    BY DEF IInv, NoUseAfterFree
  <2> QED BY <1>1, <2>1 DEF IInv, Types, NoUseAfterFree
<1> QED BY <1>2, <1>3, <1>4, <1>5, <1>6, <1>7, QuietKeeps

\* It looks at the next node.
LEMMA TestKeeps ==
  ASSUME IInv, NEW t \in Thread, Test(t)
  PROVE  IInv'
<1> USE NonesDistinct DEF Places, Walking, Two, Ahead, Trashed, Pushing
<1>1. /\ pc[t] = "test" /\ pc'[t] \in {"unlink", "pass"}
      /\ cur[t] \in Places /\ nxt[t] \in Node /\ nxt[t] # cur[t]
      /\ nxt[t] = next[cur[t]]
      /\ UNCHANGED <<cur, nxt, holder>>
  <2>1. LocalsOf(t) /\ Types
    BY DEF IInv, Locals
  <2> QED BY <2>1 DEF Test, Meet, Goto, memory, LocalsOf, Types
<1>2. Others(t) /\ UNCHANGED <<next, live>> /\ Types'
  <2>1. Others(t) /\ UNCHANGED <<next, live>>
    BY DEF IInv, Types, Others, Test, Meet, Goto, memory
  <2>2. holder' \in [Places -> Thread \cup {NoThread}]
    BY <1>1 DEF IInv, Types
  <2>3. pc' \in [Thread -> PCs]
    BY DEF IInv, Types, PCs, Test, Meet, Goto, memory
  <2>4. cur' \in [Thread -> Places \cup {NoNode}] /\ nxt' \in [Thread -> Node \cup {NoNode}]
    BY <1>1 DEF IInv, Types, Test, Meet, Goto, memory
  <2> QED BY <2>1, <2>2, <2>3, <2>4 DEF IInv, Types
<1>3. LocalsOf(t)'
  BY <1>1, <1>2 DEF LocalsOf
<1>4. Locks(t)
  <2>1. \A n \in Places : holder[n] = t <=> n \in {cur[t], nxt[t]}
    BY <1>1 DEF IInv, Locked, Holds
  <2>2. \A n \in Places : Holds(t, n)' <=> n \in {cur[t], nxt[t]}
    BY <1>1 DEF Holds
  <2>3. \A n \in Places : holder'[n] = t <=> n \in {cur[t], nxt[t]}
    BY <1>1, <2>1 DEF IInv, Types
  <2>4. \A n \in Places : holder'[n] # holder[n] => \/ holder[n] = NoThread /\ holder'[n] = t
                                                    \/ holder[n] = t /\ holder'[n] = NoThread
    BY <1>1, <2>1 DEF IInv, Types
  <2> QED BY <2>2, <2>3, <2>4 DEF Locks
<1>5. \A x \in Node : Own(t, x)' => Own(t, x)
  BY <1>1 DEF Own
<1>6. Reaches(cur[t], cur'[t]) /\ Reaches(nxt[t], nxt'[t])
  BY <1>1 DEF Reaches
<1>7. \A n \in Places : holder'[n] = t => n \in live \cup {First}
  <2>1. \A n \in Places : holder[n] = t => n \in live \cup {First}
    BY DEF IInv, NoUseAfterFree
  <2> QED BY <1>1, <2>1 DEF IInv, Types, NoUseAfterFree
<1> QED BY <1>2, <1>3, <1>4, <1>5, <1>6, <1>7, QuietKeeps

\* The mutex of the unlinked node is free: nobody can lock it.
LEMMA UnlockTrashKeeps ==
  ASSUME IInv, NEW t \in Thread, UnlockTrash(t)
  PROVE  IInv'
<1> USE NonesDistinct DEF Places, Walking, Two, Ahead, Trashed, Pushing
<1>1. /\ pc[t] = "unlock" /\ pc'[t] = "delete"
      /\ cur[t] \in Places /\ nxt[t] \in Node /\ nxt[t] # cur[t]
      /\ UNCHANGED <<cur, nxt>>
      /\ holder' = [holder EXCEPT ![nxt[t]] = NoThread]
  <2>1. LocalsOf(t) /\ Types
    BY DEF IInv, Locals
  <2> QED BY <2>1 DEF UnlockTrash, Goto, Unlock, memory, history, LocalsOf, Types
<1>2. Others(t) /\ UNCHANGED <<next, live>> /\ Types'
  <2>1. Others(t) /\ UNCHANGED <<next, live>>
    BY DEF IInv, Types, Others, UnlockTrash, Goto, Unlock, memory, history
  <2>2. holder' \in [Places -> Thread \cup {NoThread}]
    BY <1>1 DEF IInv, Types
  <2>3. pc' \in [Thread -> PCs]
    BY DEF IInv, Types, PCs, UnlockTrash, Goto, Unlock, memory, history
  <2>4. cur' \in [Thread -> Places \cup {NoNode}] /\ nxt' \in [Thread -> Node \cup {NoNode}]
    BY <1>1 DEF IInv, Types, UnlockTrash, Goto, Unlock, memory, history
  <2> QED BY <2>1, <2>2, <2>3, <2>4 DEF IInv, Types
<1>3. LocalsOf(t)'
  BY <1>1, <1>2 DEF LocalsOf
<1>4. Locks(t)
  <2>1. \A n \in Places : holder[n] = t <=> n \in {cur[t], nxt[t]}
    BY <1>1 DEF IInv, Locked, Holds
  <2>2. \A n \in Places : Holds(t, n)' <=> n = cur[t]
    BY <1>1 DEF Holds
  <2>3. \A n \in Places : holder'[n] = t <=> n = cur[t]
    BY <1>1, <2>1 DEF IInv, Types
  <2>4. \A n \in Places : holder'[n] # holder[n] => \/ holder[n] = NoThread /\ holder'[n] = t
                                                    \/ holder[n] = t /\ holder'[n] = NoThread
    BY <1>1, <2>1 DEF IInv, Types
  <2> QED BY <2>2, <2>3, <2>4 DEF Locks
<1>5. \A x \in Node : Own(t, x)' => Own(t, x)
  BY <1>1 DEF Own
<1>6. Reaches(cur[t], cur'[t]) /\ Reaches(nxt[t], nxt'[t])
  BY <1>1 DEF Reaches
<1>7. \A n \in Places : holder'[n] = t => n \in live \cup {First}
  <2>1. \A n \in Places : holder[n] = t => n \in live \cup {First}
    BY DEF IInv, NoUseAfterFree
  <2> QED BY <1>1, <2>1 DEF IInv, Types, NoUseAfterFree
<1> QED BY <1>2, <1>3, <1>4, <1>5, <1>6, <1>7, QuietKeeps

\* The new node is the thread's own.
LEMMA CallPushKeeps ==
  ASSUME IInv, NEW t \in Thread, NEW v \in Value, CallPush(t, v)
  PROVE  IInv'
<1> USE NonesDistinct DEF Places, Walking, Two, Ahead, Trashed, Pushing
<1> PICK n \in Node \ live : live' = live \cup {n} /\ cur' = [cur EXCEPT ![t] = n]
  BY DEF CallPush
<1>1. /\ UNCHANGED <<next, holder, nxt>> /\ nxt[t] = NoNode /\ cur'[t] = n
      /\ pc[t] = "idle" /\ pc'[t] = "push" /\ pc' = [pc EXCEPT ![t] = "push"]
  BY DEF IInv, Types, Locals, LocalsOf, CallPush, Goto
<1>2. Types' /\ Others(t)
  BY <1>1 DEF IInv, Types, Others, PCs
<1>3. Locked'
  <2>1. Locks(t)
    BY <1>1 DEF IInv, Locked, Locks, Holds
  <2> QED BY <1>2, <2>1, LocksKeep DEF IInv
<1>4. Locals'
  <2>1. LocalsOf(t)'
    BY <1>1 DEF LocalsOf
  <2> QED BY <1>1, <1>2, <2>1, LocalsKeep DEF IInv
<1>5. OneBefore' /\ DeadEnds'
  BY <1>1 DEF IInv, OneBefore, DeadEnds
<1>6. \A u \in Thread : cur[u] # n /\ nxt[u] # n
  BY DEF IInv, NoUseAfterFree
<1>7. Alone(t, n)'
  BY <1>1, <1>2, <1>6 DEF IInv, DeadEnds, NoUseAfterFree, Alone, Others
<1>8. Private'
  <2> SUFFICES ASSUME NEW u \in Thread, NEW x \in Node, Own(u, x)' PROVE Alone(u, x)'
    BY DEF Private
  <2>1. CASE u = t
    BY <1>1, <1>7, <2>1 DEF Own
  <2>2. CASE u # t
    <3>1. Own(u, x) /\ x # n
      BY <1>2, <1>6, <2>2, OthersKeep DEF Own
    <3>2. Alone(u, x)
      BY <3>1 DEF IInv, Private
    <3> QED BY <1>1, <1>2, <3>1, <3>2 DEF Alone, Others
  <2> QED BY <2>1, <2>2
<1>9. NoUseAfterFree'
  BY <1>1, <1>2 DEF IInv, NoUseAfterFree, Others
<1> QED BY <1>2, <1>3, <1>4, <1>5, <1>8, <1>9 DEF IInv

\* The new node becomes the first: only head led to the one that was.
LEMMA LinkFrontKeeps ==
  ASSUME IInv, NEW t \in Thread, LinkFront(t)
  PROVE  IInv'
<1> USE NonesDistinct DEF Places, Walking, Two, Ahead, Trashed, Pushing
<1> DEFINE x == cur[t]
<1>1. /\ UNCHANGED <<live, holder, cur, nxt>> /\ x \in Node /\ nxt[t] = NoNode
      /\ pc[t] = "link" /\ pc'[t] = "push unlock" /\ pc' = [pc EXCEPT ![t] = "push unlock"]
      /\ next' = [next EXCEPT ![x] = next[First], ![First] = x]
  BY DEF IInv, Types, Locals, LocalsOf, LinkFront, Goto
<1>2. /\ next'[First] = x /\ next'[x] = next[First]
      /\ \A n \in Places \ {First, x} : next'[n] = next[n]
  BY <1>1 DEF IInv, Types
<1>3. Types' /\ Others(t)
  BY <1>1 DEF IInv, Types, Others, PCs
<1>4. Alone(t, x) /\ x \in live /\ holder[First] = t
  BY <1>1 DEF IInv, Private, Own, NoUseAfterFree, Locked, Holds
<1>5. Locked'
  <2>1. Locks(t)
    BY <1>1 DEF IInv, Locked, Locks, Holds
  <2> QED BY <1>3, <2>1, LocksKeep DEF IInv
<1>6. Locals'
  <2>1. LocalsOf(t)'
    BY <1>1, <1>2 DEF LocalsOf
  <2>2. ASSUME NEW u \in Thread \ {t} PROVE LocalsOf(u)'
    <3>1. LocalsOf(u) /\ pc[u] # "push unlock"
      BY <1>4 DEF IInv, Locals, Locked, Holds
    <3>2. pc[u] \in Ahead => next'[cur[u]] = next[cur[u]]
      <4> SUFFICES ASSUME pc[u] \in Ahead PROVE next'[cur[u]] = next[cur[u]]
        OBVIOUS
      <4>1. cur[u] \in Places /\ holder[cur[u]] = u
        BY <3>1 DEF IInv, Locked, Holds, LocalsOf
      <4> QED BY <1>2, <1>4, <4>1 DEF Alone
    <3> QED BY <1>1, <1>3, <3>1, <3>2 DEF LocalsOf, Others
  <2> QED BY <2>1, <2>2 DEF Locals
<1>7. OneBefore' /\ DeadEnds'
  <2>1. ASSUME NEW m \in Places, NEW n \in Places, next'[m] = next'[n], next'[m] # NoNode PROVE m = n
    <3>1. OneBefore /\ next[x] = NoNode /\ \A k \in Places : next[k] # x
      BY <1>4 DEF IInv, Alone
    <3>2. \A k \in Places : next'[k] = IF k = First THEN x ELSE IF k = x THEN next[First] ELSE next[k]
      BY <1>1, <1>2
    <3>3. CASE m = First \/ n = First
      <4>1. next'[m] = x /\ next'[n] = x
        BY <1>2, <2>1, <3>3
      <4> QED BY <1>1, <3>1, <3>2, <4>1
    <3>4. CASE m # First /\ n # First
      <4>1. x \in Places /\ First \in Places
        BY <1>1
      <4> QED BY <2>1, <3>1, <3>2, <3>4, <4>1 DEF OneBefore
    <3> QED BY <3>3, <3>4
  <2>2. DeadEnds'
    BY <1>1, <1>2, <1>4 DEF IInv, DeadEnds
  <2> QED BY <2>1, <2>2 DEF OneBefore
<1>8. Private'
  <2> SUFFICES ASSUME NEW u \in Thread, NEW y \in Node, Own(u, y)' PROVE Alone(u, y)'
    BY DEF Private
  <2>1. u # t
    BY <1>1 DEF Own
  <2>2. Alone(u, y)
    BY <1>3, <2>1, OthersKeep DEF IInv, Private
  <2>3. y # x
    BY <2>1, <2>2 DEF Alone
  <2> QED BY <1>1, <1>2, <2>2, <2>3 DEF Alone
<1>9. NoUseAfterFree'
  <2>1. \A n \in Places : next'[n] # NoNode => next'[n] \in live
    BY <1>1, <1>2, <1>4 DEF IInv, NoUseAfterFree
  <2> QED BY <1>1, <2>1 DEF IInv, NoUseAfterFree
<1> QED BY <1>3, <1>5, <1>6, <1>7, <1>8, <1>9 DEF IInv

\* The node taken out is nobody else's: only the one before led to it, and to be at
\* either, or to have locked it, is to hold it.
LEMMA UnlinkKeeps ==
  ASSUME IInv, NEW t \in Thread, Unlink(t)
  PROVE  IInv'
<1> USE NonesDistinct DEF Places, Walking, Two, Ahead, Trashed, Pushing
<1> DEFINE c == cur[t]
           x == nxt[t]
<1>1. /\ UNCHANGED <<live, holder, cur, nxt>>
      /\ pc[t] = "unlink" /\ pc'[t] = "unlock" /\ pc' = [pc EXCEPT ![t] = "unlock"]
      /\ next' = [next EXCEPT ![c] = next[x], ![x] = NoNode]
  BY DEF IInv, Types, Unlink, Goto
<1>2. c \in Places /\ x \in Node /\ x # c /\ x = next[c] /\ holder[c] = t /\ holder[x] = t
  BY <1>1 DEF IInv, Locals, LocalsOf, Locked, Holds
<1>3. /\ next'[c] = next[x] /\ next'[x] = NoNode
      /\ \A n \in Places \ {c, x} : next'[n] = next[n]
  BY <1>1, <1>2 DEF IInv, Types
<1>4. Types' /\ Others(t)
  BY <1>1, <1>2 DEF IInv, Types, Others, PCs
<1>5. Locked'
  <2>1. Locks(t)
    BY <1>1 DEF IInv, Locked, Locks, Holds
  <2> QED BY <1>4, <2>1, LocksKeep DEF IInv
<1>6. Locals'
  <2>1. LocalsOf(t)'
    BY <1>1, <1>2 DEF LocalsOf
  <2>2. ASSUME NEW u \in Thread \ {t} PROVE LocalsOf(u)'
    <3>1. LocalsOf(u)
      BY DEF IInv, Locals
    <3>2. pc[u] \in Ahead => next'[cur[u]] = next[cur[u]]
      <4>1. pc[u] \in Ahead => cur[u] \in Places /\ holder[cur[u]] = u
        BY <3>1 DEF IInv, Locked, Holds, LocalsOf
      <4> QED BY <1>2, <1>3, <4>1
    <3>3. pc[u] = "push unlock" => next'[First] = next[First]
      <4>1. pc[u] = "push unlock" => holder[First] = u
        BY DEF IInv, Locked, Holds
      <4> QED BY <1>2, <1>3, <4>1
    <3> QED BY <1>1, <1>4, <3>1, <3>2, <3>3 DEF LocalsOf, Others
  <2> QED BY <2>1, <2>2 DEF Locals
<1>7. OneBefore' /\ DeadEnds'
  <2>1. ASSUME NEW m \in Places, NEW n \in Places, next'[m] = next'[n], next'[m] # NoNode PROVE m = n
    <3>1. OneBefore
      BY DEF IInv
    <3> QED BY <1>2, <1>3, <2>1, <3>1 DEF OneBefore
  <2>2. DeadEnds'
    <3>1. x \in live /\ DeadEnds
      BY <1>2 DEF IInv, NoUseAfterFree
    <3>2. c \in live \/ c = First
      BY <1>2, <3>1 DEF DeadEnds
    <3> QED BY <1>1, <1>2, <1>3, <3>1, <3>2 DEF DeadEnds
  <2> QED BY <2>1, <2>2 DEF OneBefore
<1>8. Alone(t, x)'
  <2>1. \A n \in Places : next'[n] # x
    BY <1>2, <1>3 DEF IInv, OneBefore
  <2>2. ASSUME NEW u \in Thread \ {t} PROVE cur[u] # x /\ nxt[u] # x
    <3>1. LocalsOf(u) /\ pc[u] \in PCs
      BY DEF IInv, Locals, Types
    <3>2. ~Holds(u, x) /\ ~Own(u, x)
      BY <1>2 DEF IInv, Locked, Private, Alone
    <3>3. pc[u] = "push unlock" => cur[u] # x
      <4>1. pc[u] = "push unlock" => holder[First] = u
        BY DEF IInv, Locked, Holds
      <4> QED BY <1>2, <3>1, <4>1 DEF LocalsOf, IInv, OneBefore
    <3> QED BY <1>2, <3>1, <3>2, <3>3 DEF LocalsOf, Holds, Own, PCs
  <2> QED BY <1>1, <1>3, <2>1, <2>2 DEF Alone
<1>9. Private'
  <2> SUFFICES ASSUME NEW u \in Thread, NEW y \in Node, Own(u, y)' PROVE Alone(u, y)'
    BY DEF Private
  <2>1. CASE u = t
    BY <1>1, <1>8, <2>1 DEF Own
  <2>2. CASE u # t
    <3>1. Alone(u, y)
      BY <1>4, <2>2, OthersKeep DEF IInv, Private
    <3>2. y # x /\ y # c
      BY <2>2, <3>1 DEF Alone
    <3> QED BY <1>1, <1>2, <1>3, <3>1, <3>2 DEF Alone
  <2> QED BY <2>1, <2>2
<1>10. NoUseAfterFree'
  <2>1. \A n \in Places : next'[n] # NoNode => next'[n] \in live
    BY <1>2, <1>3 DEF IInv, NoUseAfterFree
  <2> QED BY <1>1, <2>1 DEF IInv, NoUseAfterFree
<1> QED BY <1>4, <1>5, <1>6, <1>7, <1>9, <1>10 DEF IInv

\* The unlinked node is deleted: nobody else refers to it, and its mutex is free.
LEMMA DeleteTrashKeeps ==
  ASSUME IInv, NEW t \in Thread, DeleteTrash(t)
  PROVE  IInv'
<1> USE NonesDistinct DEF Places, Walking, Two, Ahead, Trashed, Pushing
<1> DEFINE x == nxt[t]
<1>1. /\ UNCHANGED <<next, holder, cur>> /\ live' = live \ {x}
      /\ pc[t] = "delete" /\ pc'[t] = "next" /\ pc' = [pc EXCEPT ![t] = "next"]
      /\ nxt' = [nxt EXCEPT ![t] = NoNode] /\ nxt'[t] = NoNode
  BY DEF IInv, Types, DeleteTrash, Goto
<1>2. x \in Node /\ cur[t] # x /\ cur[t] \in Places /\ Alone(t, x)
  BY <1>1 DEF IInv, Locals, LocalsOf, Private, Own
<1>3. Types' /\ Others(t)
  BY <1>1 DEF IInv, Types, Others, PCs
<1>4. Locked'
  <2>1. Locks(t)
    BY <1>1 DEF IInv, Locked, Locks, Holds
  <2> QED BY <1>3, <2>1, LocksKeep DEF IInv
<1>5. Locals'
  <2>1. LocalsOf(t)'
    BY <1>1, <1>2 DEF LocalsOf
  <2> QED BY <1>1, <1>3, <2>1, LocalsKeep DEF IInv
<1>6. OneBefore' /\ DeadEnds'
  BY <1>1, <1>2 DEF IInv, OneBefore, DeadEnds, Alone
<1>7. Private'
  <2> SUFFICES ASSUME NEW u \in Thread, NEW y \in Node, Own(u, y)' PROVE Alone(u, y)'
    BY DEF Private
  <2>1. u # t
    BY <1>1 DEF Own
  <2>2. Alone(u, y)
    BY <1>3, <2>1, OthersKeep DEF IInv, Private
  <2> QED BY <1>1, <1>3, <2>2 DEF Alone, Others
<1>8. NoUseAfterFree'
  <2>1. holder[x] = NoThread
    <3>1. \A u \in Thread : ~Holds(u, x)
      BY <1>1, <1>2 DEF Holds, Alone
    <3> QED BY <1>2, <3>1 DEF IInv, Types, Locked
  <2>2. \A u \in Thread : cur'[u] # x /\ nxt'[u] # x
    BY <1>1, <1>2, <1>3 DEF Alone, Others
  <2>3. \A u \in Thread : nxt'[u] \in {nxt[u], NoNode}
    BY <1>1, <1>3 DEF Others
  <2> QED BY <1>1, <1>2, <2>1, <2>2, <2>3 DEF IInv, NoUseAfterFree, Alone
<1> QED BY <1>3, <1>4, <1>5, <1>6, <1>7, <1>8 DEF IInv

-----------------------------------------------------------------------------
LEMMA NextKeeps == IInv /\ [Next]_vars => IInv'
<1> SUFFICES ASSUME IInv, [Next]_vars PROVE IInv'
  OBVIOUS
<1>1. CASE UNCHANGED vars
  <2>1. UNCHANGED <<next, live, holder, pc, cur, nxt>>
    BY <1>1 DEF vars, memory
  <2>2. Types' /\ OneBefore' /\ DeadEnds' /\ NoUseAfterFree'
    BY <2>1 DEF IInv, Types, OneBefore, DeadEnds, NoUseAfterFree
  <2>3. Locked' /\ Locals'
    BY <2>1 DEF IInv, Locked, Holds, Locals, LocalsOf
  <2>4. Private'
    BY <2>1 DEF IInv, Private, Own, Alone
  <2> QED BY <2>2, <2>3, <2>4 DEF IInv
<1>2. CASE Next
  <2> PICK t \in Thread : CallAny(t) \/ Proceed(t)
    BY <1>2 DEF Next
  <2>1. CASE CallAny(t)
    BY <2>1, CallPushKeeps, CallKeeps DEF CallAny
  <2>2. CASE Proceed(t)
    BY <2>2, LockPushKeeps, LinkFrontKeeps, UnlockPushKeeps, LockNextKeeps, ReturnKeeps, PassKeeps,
       VisitKeeps, TestKeeps, UnlinkKeeps, UnlockTrashKeeps, DeleteTrashKeeps DEF Proceed
  <2> QED BY <2>1, <2>2
<1> QED BY <1>1, <1>2

\* Whatever walks, removals and pushes overlap, remove_if deletes a node only when no
\* thread is at it, has locked it, waits for it, or can still be led to it.
THEOREM NeverUsedAfterFree == Spec => []NoUseAfterFree
<1>1. IInv => NoUseAfterFree
  BY DEF IInv
<1> QED BY <1>1, InitIInv, NextKeeps, PTL DEF Spec

-----------------------------------------------------------------------------
(***************************************************************************)
(* The walks of the hand-over-hand list are atomic, for any threads, nodes,     *)
(* values and predicates.                                                      *)
(*                                                                          *)
(* The history variable is the list as the next walk to lock head will see it.   *)
(* The invariant gives every node such a list: what the next walk to come to it   *)
(* will meet behind it.  What a node has is then its next one and what that has   *)
(* (Rest), less what a removal now at the node is to remove (Behind), so a step   *)
(* changes it at the nodes the thread has locked and nowhere else, and induction  *)
(* along the list is not needed.                                               *)
(***************************************************************************)

Lists == [SUBSET Value -> Seq(Value)]

Removing(t) == op[t] = "remove_if" /\ pc[t] \in Walking

\* What lies behind node n, if s has it right for the next one.
Rest(s, n) == IF next[n] = NoNode THEN Empty ELSE Front(data[next[n]], s[next[n]])

\* A removing walk leaves behind it what its predicate does not hold for.
Behind(s) ==
   /\ \A n \in Places : (\A t \in Thread : Removing(t) => cur[t] # n) => s[n] = Rest(s, n)
   /\ \A t \in Thread : Removing(t) => s[cur[t]] = Without(Rest(s, cur[t]), pred[t])

\* What a walk has yet to meet.
DueOf(s, t) ==
   /\ pc[t] \in {"next", "test", "unlock", "delete"} => due[t] = Rest(s, cur[t])[{}]
   /\ pc[t] = "pass" /\ ~Removing(t) => due[t] = Rest(s, cur[t])[{}]
   /\ pc[t] = "visit" => due[t] = <<data[cur[t]]>> \o Rest(s, cur[t])[{}]
   /\ pc[t] = "unlink" \/ (pc[t] = "pass" /\ Removing(t)) => due[t] = s[nxt[t]][{}]

Seen(s) == s \in [Places -> Lists] /\ s[First] = list /\ Behind(s) /\ \A t \in Thread : DueOf(s, t)

\* Which walks are where; the nodes that are allocated have their data.
KindOf(t) ==
   /\ pc[t] \in {"test", "unlink", "unlock", "delete"} => op[t] = "remove_if"
   /\ pc[t] \in {"visit", "found"} => op[t] # "remove_if" /\ cur[t] \in Node
   /\ pc[t] = "unlink" => data[nxt[t]] \in pred[t]
   /\ pc[t] = "pass" /\ op[t] = "remove_if" => data[nxt[t]] \notin pred[t]

Contents == /\ data \in [Node -> Value \cup {NoValue}]
            /\ \A x \in live : data[x] \in Value
            /\ pred \in [Thread -> SUBSET Value]
            /\ op \in [Thread -> {"none", "for_each", "find_first_if", "remove_if"}]
            /\ due \in [Thread -> Seq(Value)]
            /\ \A t \in Thread : KindOf(t)

WInv == Contents /\ \E s : Seen(s)

-----------------------------------------------------------------------------
(* Facts about these lists *)

LEMMA ListFacts ==
  ASSUME NEW f \in Lists, NEW v \in Value, NEW P \in SUBSET Value
  PROVE  /\ Front(v, f) \in Lists /\ Front(v, f)[{}] = <<v>> \o f[{}]
         /\ v \in P => Without(Front(v, f), P) = Without(f, P)
         /\ v \notin P => Without(Front(v, f), P) = Front(v, Without(f, P))
<1>1. \A S \in SUBSET Value : <<v>> \o f[S] \in Seq(Value)
  BY DEF Lists
<1>2. \A S \in SUBSET Value : S \cup P \in SUBSET Value
  OBVIOUS
<1>3. Front(v, f) \in Lists /\ Front(v, f)[{}] = <<v>> \o f[{}]
  BY <1>1 DEF Lists, Front
<1>4. v \in P => Without(Front(v, f), P) = Without(f, P)
  BY <1>2 DEF Without, Front
<1>5. v \notin P => Without(Front(v, f), P) = Front(v, Without(f, P))
  BY <1>2 DEF Without, Front
<1> QED BY <1>3, <1>4, <1>5

LEMMA WithoutIn ==
  ASSUME NEW f \in Lists, NEW P \in SUBSET Value
  PROVE  Without(f, P) \in Lists
<1>1. \A S \in SUBSET Value : S \cup P \in SUBSET Value
  OBVIOUS
<1> QED BY <1>1 DEF Lists, Without

LEMMA EmptyFacts ==
  /\ Empty \in Lists /\ Empty[{}] = <<>>
  /\ \A P \in SUBSET Value : Without(Empty, P) = Empty
BY DEF Empty, Lists, Without

LEMMA FirstMet ==
  ASSUME NEW v \in Value, NEW q \in Seq(Value), NEW d, d = <<v>> \o q
  PROVE  d # <<>> /\ d[1] = v /\ SubSeq(d, 2, Len(d)) = q
<1>1. Len(d) = Len(q) + 1 /\ d \in Seq(Value) /\ Len(q) \in Nat /\ d[1] = v
  OBVIOUS
<1>2. \A i \in 1 .. Len(q) : d[i + 1] = q[i]
  OBVIOUS
<1>3. SubSeq(d, 2, Len(d)) = [i \in 1 .. Len(q) |-> d[i + 1]]
  BY <1>1
<1> QED BY <1>1, <1>2, <1>3

\* What is behind a node is a list.
LEMMA RestIn ==
  ASSUME IInv, Contents, NEW s \in [Places -> Lists], NEW n \in Places
  PROVE  Rest(s, n) \in Lists
<1>1. next[n] # NoNode => next[n] \in Places /\ data[next[n]] \in Value
  BY DEF IInv, NoUseAfterFree, Contents, Types, Places
<1> QED BY <1>1, ListFacts, EmptyFacts DEF Rest

\* The nodes another thread holds, or that it alone can reach, are not those of a walk.
LEMMA Apart ==
  ASSUME IInv, NEW t \in Thread, NEW u \in Thread \ {t}, NEW n \in Places,
         holder[n] = t \/ holder[n] = NoThread \/ \E y \in Node : n = y /\ Own(t, y)
  PROVE  /\ pc[u] \in Walking => cur[u] \in Places \ {n}
         /\ pc[u] \in Ahead => nxt[u] \in Places \ {n}
<1>1. pc[u] \in Walking => cur[u] \in Places /\ holder[cur[u]] = u
  BY DEF IInv, Locals, LocalsOf, Locked, Holds
<1>2. pc[u] \in Ahead => nxt[u] \in Places /\ holder[nxt[u]] = u
  BY DEF IInv, Locals, LocalsOf, Locked, Holds, Two, Places
<1>3. (\E y \in Node : n = y /\ Own(t, y)) => cur[u] # n /\ nxt[u] # n
  BY DEF IInv, Private, Alone
<1> QED BY <1>1, <1>2, <1>3, NonesDistinct

OthersToo(t) == \A u \in Thread \ {t} : op'[u] = op[u] /\ pred'[u] = pred[u] /\ due'[u] = due[u]

\* A step that changes what is at the nodes K, which no other walk is at, and which are
\* those of the thread's own walk if it removes.
LEMMA SeenKeeps ==
  ASSUME NEW t \in Thread, Others(t), OthersToo(t), NEW K \in SUBSET Places,
         NEW s, NEW z \in [Places -> Lists], Seen(s), z[First] = list',
         \A n \in Places \ K : Rest(z, n)' = Rest(s, n) /\ z[n] = s[n],
         \A u \in Thread \ {t} : /\ pc[u] \in Walking => cur[u] \in Places \ K
                                 /\ pc[u] \in Ahead => nxt[u] \in Places \ K
                                 /\ pc[u] = "visit" => data'[cur[u]] = data[cur[u]],
         Removing(t) => cur[t] \in K,
         \A n \in K : (Removing(t)' => cur'[t] # n) => z[n] = Rest(z, n)',
         Removing(t)' => (z[cur[t]] = Without(Rest(z, cur[t]), pred[t]))',
         DueOf(z, t)'
  PROVE  Seen(z)'
<1>1. ASSUME NEW u \in Thread \ {t} PROVE Removing(u)' <=> Removing(u)
  BY DEF Removing, Others, OthersToo
<1>2. ASSUME NEW u \in Thread \ {t}, pc[u] \in Walking
      PROVE  z[cur[u]] = s[cur[u]] /\ Rest(z, cur[u])' = Rest(s, cur[u]) /\ cur'[u] = cur[u]
  BY <1>2 DEF Others
<1>3. \A n \in Places : (\A u \in Thread : Removing(u)' => cur'[u] # n) => z[n] = Rest(z, n)'
  <2> SUFFICES ASSUME NEW n \in Places, \A u \in Thread : Removing(u)' => cur'[u] # n
               PROVE  z[n] = Rest(z, n)'
    OBVIOUS
  <2>1. CASE n \in K
    BY <2>1
  <2>2. CASE n \notin K
    <3>1. \A u \in Thread : Removing(u) => cur[u] # n
      BY <1>1, <2>2 DEF Others
    <3> QED BY <2>2, <3>1 DEF Seen, Behind
  <2> QED BY <2>1, <2>2
<1>4. ASSUME NEW u \in Thread, Removing(u)'
      PROVE  (z[cur[u]] = Without(Rest(z, cur[u]), pred[u]))'
  <2>1. CASE u = t
    BY <1>4, <2>1
  <2>2. CASE u # t
    <3>1. Removing(u) /\ pc[u] \in Walking
      BY <1>1, <1>4, <2>2 DEF Removing
    <3>2. z[cur[u]] = s[cur[u]] /\ Rest(z, cur[u])' = Rest(s, cur[u]) /\ cur'[u] = cur[u]
      BY <1>2, <2>2, <3>1
    <3>3. s[cur[u]] = Without(Rest(s, cur[u]), pred[u]) /\ pred'[u] = pred[u]
      BY <2>2, <3>1 DEF Seen, Behind, OthersToo
    <3> QED BY <3>2, <3>3 DEF Rest
  <2> QED BY <2>1, <2>2
<1>5. ASSUME NEW u \in Thread PROVE DueOf(z, u)'
  <2>1. CASE u = t
    BY <2>1
  <2>2. CASE u # t
    <3>1. DueOf(s, u)
      BY DEF Seen
    <3>2. pc'[u] = pc[u] /\ cur'[u] = cur[u] /\ nxt'[u] = nxt[u] /\ due'[u] = due[u]
          /\ (Removing(u)' <=> Removing(u))
      BY <1>1, <2>2 DEF Others, OthersToo
    <3>3. pc[u] \in Ahead => z[nxt[u]] = s[nxt[u]]
      BY <2>2
    <3>4. pc[u] \in Walking => Rest(z, cur[u])' = Rest(s, cur[u])
      BY <1>2, <2>2
    <3>5. pc[u] \in {"next", "test", "unlock", "delete", "pass", "visit"} => pc[u] \in Walking
      BY DEF Walking, Ahead, Trashed
    <3>6. pc[u] \in {"unlink", "pass"} => pc[u] \in Ahead
      BY DEF Ahead
    <3>7. pc[u] = "visit" => data'[cur[u]] = data[cur[u]]
      BY <2>2
    <3> QED BY <3>1, <3>2, <3>3, <3>4, <3>5, <3>6, <3>7 DEF DueOf
  <2> QED BY <2>1, <2>2
<1> QED BY <1>3, <1>4, <1>5 DEF Seen, Behind

\* The steps that leave every node's list as it is.
LEMMA QuietSeen ==
  ASSUME IInv, NEW t \in Thread, Others(t), OthersToo(t), UNCHANGED <<next, list>>,
         NEW s, Seen(s),
         \A n \in Places : next[n] # NoNode => data'[next[n]] = data[next[n]],
         \A u \in Thread \ {t} : pc[u] = "visit" => data'[cur[u]] = data[cur[u]],
         \/ Removing(t)' /\ Removing(t) /\ cur'[t] = cur[t] /\ pred'[t] = pred[t]
         \/ ~Removing(t)' /\ (Removing(t) => s[cur[t]] = Rest(s, cur[t])),
         DueOf(s, t)'
  PROVE  Seen(s)'
<1> DEFINE K == IF Removing(t) THEN {cur[t]} ELSE {}
<1>1. \A n \in Places : Rest(s, n)' = Rest(s, n)
  BY DEF Rest
<1>2. Removing(t) => cur[t] \in Places /\ holder[cur[t]] = t
  BY DEF Removing, IInv, Locals, LocalsOf, Locked, Holds
<1>3. K \in SUBSET Places /\ s \in [Places -> Lists] /\ s[First] = list'
  BY <1>2 DEF Seen
<1>4. \A u \in Thread \ {t} : /\ pc[u] \in Walking => cur[u] \in Places \ K
                              /\ pc[u] \in Ahead => nxt[u] \in Places \ K
  <2> SUFFICES ASSUME NEW u \in Thread \ {t}
               PROVE  /\ pc[u] \in Walking => cur[u] \in Places \ K
                      /\ pc[u] \in Ahead => nxt[u] \in Places \ K
    OBVIOUS
  <2>1. CASE Removing(t)
    BY <1>2, <2>1, Apart
  <2>2. CASE ~Removing(t)
    BY <2>2 DEF IInv, Locals, LocalsOf, Places
  <2> QED BY <2>1, <2>2
<1>5. \A n \in K : (Removing(t)' => cur'[t] # n) => s[n] = Rest(s, n)'
  BY <1>1, <1>2
<1>6. Removing(t)' => (s[cur[t]] = Without(Rest(s, cur[t]), pred[t]))'
  <2> SUFFICES ASSUME Removing(t)' PROVE (s[cur[t]] = Without(Rest(s, cur[t]), pred[t]))'
    OBVIOUS
  <2>1. s[cur[t]] = Without(Rest(s, cur[t]), pred[t]) /\ cur'[t] = cur[t] /\ pred'[t] = pred[t]
    BY DEF Seen, Behind
  <2> QED BY <1>1, <1>2, <2>1
<1>7. \A n \in Places \ K : Rest(s, n)' = Rest(s, n) /\ s[n] = s[n]
  BY <1>1
<1>8. \A u \in Thread \ {t} : /\ pc[u] \in Walking => cur[u] \in Places \ K
                              /\ pc[u] \in Ahead => nxt[u] \in Places \ K
                              /\ pc[u] = "visit" => data'[cur[u]] = data[cur[u]]
  BY <1>4
<1>9. Removing(t) => cur[t] \in K
  OBVIOUS
<1> HIDE DEF K
<1> QED BY <1>3, <1>5, <1>6, <1>7, <1>8, <1>9, SeenKeeps

Ops == {"none", "for_each", "find_first_if", "remove_if"}

LEMMA InitWInv == Init => WInv
<1> SUFFICES ASSUME Init PROVE WInv
  OBVIOUS
<1>1. Contents
  BY DEF Init, Contents, KindOf
<1>2. PICK s : s = [n \in Places |-> Empty]
  OBVIOUS
<1>3. \A t \in Thread : DueOf(s, t) /\ ~Removing(t)
  BY DEF Init, DueOf, Removing, Walking, Ahead, Trashed
<1>4. \A n \in Places : s[n] = Rest(s, n)
  BY <1>2 DEF Init, Rest
<1>5. s[First] = list /\ s \in [Places -> Lists]
  BY <1>2, EmptyFacts DEF Init, Places
<1> QED BY <1>1, <1>3, <1>4, <1>5 DEF WInv, Seen, Behind

LEMMA ContentsKeep ==
  ASSUME Contents, NEW t \in Thread, Others(t), OthersToo(t), KindOf(t)',
         data' \in [Node -> Value \cup {NoValue}], \A x \in live' : data'[x] \in Value,
         pred' \in [Thread -> SUBSET Value], op' \in [Thread -> Ops],
         due' \in [Thread -> Seq(Value)],
         \A u \in Thread \ {t} : pc[u] \in Ahead => data'[nxt[u]] = data[nxt[u]]
  PROVE  Contents'
<1>1. ASSUME NEW u \in Thread \ {t} PROVE KindOf(u)'
  <2>1. KindOf(u)
    BY DEF Contents
  <2>2. /\ pc'[u] = pc[u] /\ cur'[u] = cur[u] /\ nxt'[u] = nxt[u]
        /\ op'[u] = op[u] /\ pred'[u] = pred[u]
        /\ pc[u] \in {"unlink", "pass"} => data'[nxt[u]] = data[nxt[u]]
    BY DEF Others, OthersToo, Ahead
  <2> QED BY <2>1, <2>2 DEF KindOf
<1>2. \A u \in Thread : KindOf(u)'
  BY <1>1
<1> QED BY <1>2 DEF Contents, Ops

\* What the walk of t is to the lists: it goes on removing from the same place, or it is
\* no removal, or its removal is done with its node.
StillBehind(s, t) ==
  \/ Removing(t)' /\ Removing(t) /\ cur'[t] = cur[t] /\ pred'[t] = pred[t]
  \/ ~Removing(t)' /\ (Removing(t) => s[cur[t]] = Rest(s, cur[t]))

\* The steps that leave the list and what is in it as they are.
LEMMA QuietWalks ==
  ASSUME IInv, WInv, NEW t \in Thread, Others(t), OthersToo(t),
         UNCHANGED <<next, data, live, list>>,
         pred' \in [Thread -> SUBSET Value], op' \in [Thread -> Ops], due' \in [Thread -> Seq(Value)],
         KindOf(t)',
         \A s : Seen(s) => StillBehind(s, t) /\ DueOf(s, t)'
  PROVE  WInv'
<1>1. Contents'
  BY ContentsKeep DEF WInv, Contents
<1>2. PICK s : Seen(s)
  BY DEF WInv
<1>3. StillBehind(s, t) /\ DueOf(s, t)'
  BY <1>2
<1>4. Seen(s)'
  BY <1>2, <1>3, QuietSeen DEF StillBehind
<1> QED BY <1>1, <1>4 DEF WInv

\* What there is to know of a walk under Seen.
LEMMA AtNode ==
  ASSUME IInv, Contents, NEW s, Seen(s), NEW t \in Thread
  PROVE  /\ s \in [Places -> Lists] /\ s[First] = list
         /\ pc[t] \in Walking => cur[t] \in Places /\ Rest(s, cur[t]) \in Lists
         /\ pc[t] \in Walking /\ ~Removing(t) => s[cur[t]] = Rest(s, cur[t])
         /\ pc[t] \in Ahead => /\ nxt[t] \in Node /\ data[nxt[t]] \in Value /\ nxt[t] # cur[t]
                               /\ Rest(s, cur[t]) = Front(data[nxt[t]], s[nxt[t]])
                               /\ s[nxt[t]] = Rest(s, nxt[t]) /\ s[nxt[t]] \in Lists
         /\ holder[First] = NoThread => s[First] = Rest(s, First)
<1>1. s \in [Places -> Lists] /\ s[First] = list
  BY DEF Seen
<1>2. \A u \in Thread : pc[u] \in Walking => cur[u] \in Places /\ holder[cur[u]] = u
  BY DEF IInv, Locals, LocalsOf, Locked, Holds
<1>3. \A u \in Thread : Removing(u) => pc[u] \in Walking
  BY DEF Removing
<1>4. pc[t] \in Walking => cur[t] \in Places /\ Rest(s, cur[t]) \in Lists
  BY <1>1, <1>2, RestIn
<1>5. pc[t] \in Walking /\ ~Removing(t) => s[cur[t]] = Rest(s, cur[t])
  BY <1>2, <1>3 DEF Seen, Behind
<1>6. holder[First] = NoThread => s[First] = Rest(s, First)
  BY <1>2, <1>3, NonesDistinct DEF Seen, Behind, Places
<1>7. ASSUME pc[t] \in Ahead
      PROVE  /\ nxt[t] \in Node /\ data[nxt[t]] \in Value /\ nxt[t] # cur[t]
             /\ Rest(s, cur[t]) = Front(data[nxt[t]], s[nxt[t]])
             /\ s[nxt[t]] = Rest(s, nxt[t]) /\ s[nxt[t]] \in Lists
  <2>1. nxt[t] = next[cur[t]] /\ nxt[t] \in Node /\ nxt[t] # cur[t] /\ nxt[t] # NoNode
    BY <1>7, NonesDistinct DEF IInv, Locals, LocalsOf
  <2>2. nxt[t] \in live
    BY <2>1 DEF IInv, NoUseAfterFree
  <2>3. holder[nxt[t]] = t
    BY <1>7, <2>1 DEF IInv, Locked, Holds, Two, Places
  <2>4. \A u \in Thread : Removing(u) => cur[u] # nxt[t]
    BY <1>2, <1>3, <2>1, <2>3
  <2> QED BY <1>1, <2>1, <2>2, <2>4 DEF Contents, Rest, Seen, Behind, Places
<1> QED BY <1>1, <1>4, <1>5, <1>6, <1>7

LEMMA ReturnTypes ==
  ASSUME Contents, NEW t \in Thread, Return(t)
  PROVE  /\ pred' \in [Thread -> SUBSET Value] /\ op' \in [Thread -> Ops]
         /\ due' \in [Thread -> Seq(Value)]
<1>1. <<>> \in Seq(Value) /\ {} \in SUBSET Value /\ "none" \in Ops
  BY DEF Ops
<1>2. pred \in [Thread -> SUBSET Value] /\ op \in [Thread -> Ops]
      /\ due \in [Thread -> Seq(Value)]
  BY DEF Contents, Ops
<1>3. /\ pred' = [pred EXCEPT ![t] = {}] /\ op' = [op EXCEPT ![t] = "none"]
      /\ due' = [due EXCEPT ![t] = <<>>]
  BY DEF Return
<1> HIDE DEF Ops
<1> QED BY <1>1, <1>2, <1>3

\* push_front is no walk.
LEMMA LockPushWalks ==
  ASSUME IInv, WInv, NEW t \in Thread, LockPush(t)
  PROVE  WInv'
<1> USE DEF Walking, Ahead, Trashed
<1>1. /\ pc[t] = "push" /\ pc'[t] = "link"
      /\ UNCHANGED <<op, pred, due>>
  BY DEF LockPush, Lock, Unlock, Return, Goto, Meet, memory, history, WInv, Contents, Removing,
     IInv, Types, PCs
<1>2. Contents
  BY DEF WInv
<1>3. Others(t) /\ OthersToo(t) /\ UNCHANGED <<next, data, live, list>>
  BY DEF LockPush, Return, Goto, Meet, memory, history, Others, OthersToo, IInv, Types, WInv,
     Contents
<1>4. KindOf(t)'
  BY <1>1, <1>2 DEF Contents, KindOf
<1>5. ASSUME NEW s, Seen(s)
      PROVE  StillBehind(s, t) /\ DueOf(s, t)'
  <2>1. StillBehind(s, t)
    BY <1>1 DEF StillBehind, Removing
  <2>2. DueOf(s, t)'
    BY <1>1 DEF DueOf
  <2> QED BY <2>1, <2>2
<1>6. pred' \in [Thread -> SUBSET Value] /\ op' \in [Thread -> Ops]
      /\ due' \in [Thread -> Seq(Value)]
  BY <1>1, <1>2, PredicatesOfValues DEF Contents, Ops, LockPush, Return, Meet, memory, history
<1> QED BY <1>3, <1>4, <1>5, <1>6, QuietWalks

\* Nor is its return.
LEMMA UnlockPushWalks ==
  ASSUME IInv, WInv, NEW t \in Thread, UnlockPush(t)
  PROVE  WInv'
<1> USE DEF Walking, Ahead, Trashed
<1>1. /\ pc[t] = "push unlock" /\ pc'[t] = "idle"
  BY DEF UnlockPush, Lock, Unlock, Return, Goto, Meet, memory, history, WInv, Contents,
     Removing, IInv, Types, PCs
<1>2. Contents
  BY DEF WInv
<1>3. Others(t) /\ OthersToo(t) /\ UNCHANGED <<next, data, live, list>>
  BY DEF UnlockPush, Return, Goto, Meet, memory, history, Others, OthersToo, IInv, Types, WInv,
     Contents
<1>4. KindOf(t)'
  BY <1>1, <1>2 DEF Contents, KindOf
<1>5. ASSUME NEW s, Seen(s)
      PROVE  StillBehind(s, t) /\ DueOf(s, t)'
  <2>1. StillBehind(s, t)
    BY <1>1 DEF StillBehind, Removing
  <2>2. DueOf(s, t)'
    BY <1>1 DEF DueOf
  <2> QED BY <2>1, <2>2
<1>6. pred' \in [Thread -> SUBSET Value] /\ op' \in [Thread -> Ops]
      /\ due' \in [Thread -> Seq(Value)]
  BY <1>2, ReturnTypes DEF UnlockPush
<1> QED BY <1>3, <1>4, <1>5, <1>6, QuietWalks

\* The walk locks the next node, and is still to meet what is behind its own.
LEMMA LockNextWalks ==
  ASSUME IInv, WInv, NEW t \in Thread, LockNext(t)
  PROVE  WInv'
<1> USE DEF Walking, Ahead, Trashed
<1>1. /\ pc[t] = "next" /\ pc'[t] = IF op[t] = "remove_if" THEN "test" ELSE "pass"
      /\ UNCHANGED <<op, pred, due, cur>>
  BY DEF LockNext, Lock, Unlock, Return, Goto, Meet, memory, history, WInv, Contents, Removing,
     IInv, Types, PCs
<1>2. Contents
  BY DEF WInv
<1>3. Others(t) /\ OthersToo(t) /\ UNCHANGED <<next, data, live, list>>
  BY DEF LockNext, Return, Goto, Meet, memory, history, Others, OthersToo, IInv, Types, WInv,
     Contents
<1>4. KindOf(t)'
  BY <1>1, <1>2 DEF Contents, KindOf
<1>5. ASSUME NEW s, Seen(s)
      PROVE  StillBehind(s, t) /\ DueOf(s, t)'
  <2>1. StillBehind(s, t)
    BY <1>1 DEF StillBehind, Removing
  <2>2. DueOf(s, t)'
    BY <1>1, <1>5, <1>3 DEF DueOf, Removing, Rest, Seen
  <2> QED BY <2>1, <2>2
<1>6. pred' \in [Thread -> SUBSET Value] /\ op' \in [Thread -> Ops]
      /\ due' \in [Thread -> Seq(Value)]
  BY <1>1, <1>2, PredicatesOfValues DEF Contents, Ops, LockNext, Return, Meet, memory, history
<1> QED BY <1>3, <1>4, <1>5, <1>6, QuietWalks

\* At the end a removal has left nothing behind its node, and there is nothing.
LEMMA EndWalks ==
  ASSUME IInv, WInv, NEW t \in Thread, End(t)
  PROVE  WInv'
<1> USE DEF Walking, Ahead, Trashed
<1>1. /\ pc[t] = "next" /\ pc'[t] = "idle" /\ next[cur[t]] = NoNode
  BY DEF End, Lock, Unlock, Return, Goto, Meet, memory, history, WInv, Contents, Removing,
     IInv, Types, PCs
<1>2. Contents
  BY DEF WInv
<1>3. Others(t) /\ OthersToo(t) /\ UNCHANGED <<next, data, live, list>>
  BY DEF End, Return, Goto, Meet, memory, history, Others, OthersToo, IInv, Types, WInv, Contents
<1>4. KindOf(t)'
  BY <1>1, <1>2 DEF Contents, KindOf
<1>5. ASSUME NEW s, Seen(s)
      PROVE  StillBehind(s, t) /\ DueOf(s, t)'
  <2>0. Rest(s, cur[t]) = Empty /\ pred[t] \in SUBSET Value
    BY <1>1, <1>2 DEF Rest, Contents
  <2>1. StillBehind(s, t)
    BY <1>1, <1>5, <2>0, EmptyFacts DEF StillBehind, Removing, Seen, Behind
  <2>2. DueOf(s, t)'
    BY <1>1 DEF DueOf
  <2> QED BY <2>1, <2>2
<1>6. pred' \in [Thread -> SUBSET Value] /\ op' \in [Thread -> Ops]
      /\ due' \in [Thread -> Seq(Value)]
  BY <1>2, ReturnTypes DEF End
<1> QED BY <1>3, <1>4, <1>5, <1>6, QuietWalks

\* find_first_if returns.
LEMMA ReturnFoundWalks ==
  ASSUME IInv, WInv, NEW t \in Thread, ReturnFound(t)
  PROVE  WInv'
<1> USE DEF Walking, Ahead, Trashed
<1>1. /\ pc[t] = "found" /\ pc'[t] = "idle" /\ op[t] # "remove_if"
  BY DEF ReturnFound, Lock, Unlock, Return, Goto, Meet, memory, history, WInv, Contents,
     Removing, IInv, Types, PCs, KindOf
<1>2. Contents
  BY DEF WInv
<1>3. Others(t) /\ OthersToo(t) /\ UNCHANGED <<next, data, live, list>>
  BY DEF ReturnFound, Return, Goto, Meet, memory, history, Others, OthersToo, IInv, Types,
     WInv, Contents
<1>4. KindOf(t)'
  BY <1>1, <1>2 DEF Contents, KindOf
<1>5. ASSUME NEW s, Seen(s)
      PROVE  StillBehind(s, t) /\ DueOf(s, t)'
  <2>1. StillBehind(s, t)
    BY <1>1 DEF StillBehind, Removing
  <2>2. DueOf(s, t)'
    BY <1>1 DEF DueOf
  <2> QED BY <2>1, <2>2
<1>6. pred' \in [Thread -> SUBSET Value] /\ op' \in [Thread -> Ops]
      /\ due' \in [Thread -> Seq(Value)]
  BY <1>2, ReturnTypes DEF ReturnFound
<1> QED BY <1>3, <1>4, <1>5, <1>6, QuietWalks

\* The node visited is the first the walk was to meet.
LEMMA VisitWalks ==
  ASSUME IInv, WInv, NEW t \in Thread, Visit(t)
  PROVE  WInv'
<1> USE DEF Walking, Ahead, Trashed
<1>1. /\ pc[t] = "visit" /\ pc'[t] \in {"next", "found"} /\ op[t] # "remove_if" /\ cur[t] \in Node
      /\ UNCHANGED <<op, pred, cur, data, next>>
      /\ due[t] \in Seq(Value) /\ due' = [due EXCEPT ![t] = SubSeq(due[t], 2, Len(due[t]))]
  BY DEF Visit, Lock, Unlock, Return, Goto, Meet, memory, history, WInv, Contents, Removing,
     IInv, Types, PCs, KindOf
<1>2. Contents
  BY DEF WInv
<1>3. Others(t) /\ OthersToo(t) /\ UNCHANGED <<next, data, live, list>>
  BY DEF Visit, Return, Goto, Meet, memory, history, Others, OthersToo, IInv, Types, WInv,
     Contents
<1>4. KindOf(t)'
  BY <1>1, <1>2 DEF Contents, KindOf
<1>5. ASSUME NEW s, Seen(s)
      PROVE  StillBehind(s, t) /\ DueOf(s, t)'
  <2>1. StillBehind(s, t)
    BY <1>1 DEF StillBehind, Removing
  <2>7. cur[t] \in live
    BY <1>1, NonesDistinct DEF IInv, NoUseAfterFree
  <2>8. data[cur[t]] \in Value
    BY <1>2, <2>7 DEF Contents
  <2>9. Rest(s, cur[t]) \in Lists
    BY <1>1, <1>2, <1>5, AtNode
  <2>3. data[cur[t]] \in Value /\ Rest(s, cur[t])[{}] \in Seq(Value)
    BY <2>8, <2>9 DEF Lists
  <2>4. due[t] = <<data[cur[t]]>> \o Rest(s, cur[t])[{}]
    BY <1>1, <1>5 DEF Seen, DueOf
  <2>5. SubSeq(due[t], 2, Len(due[t])) = Rest(s, cur[t])[{}]
    BY <2>3, <2>4, FirstMet
  <2>6. due'[t] = Rest(s, cur[t])[{}]
    BY <1>1, <1>2, <2>5 DEF Contents
  <2>2. DueOf(s, t)'
    BY <1>1, <2>6 DEF DueOf, Rest
  <2> QED BY <2>1, <2>2
<1>6. pred' \in [Thread -> SUBSET Value] /\ op' \in [Thread -> Ops]
      /\ due' \in [Thread -> Seq(Value)]
  BY <1>1, <1>2, PredicatesOfValues DEF Contents, Ops, Visit, Return, Meet, memory, history
<1> QED BY <1>3, <1>4, <1>5, <1>6, QuietWalks

\* The predicate of a removal is asked about the first the walk was to meet.
LEMMA TestWalks ==
  ASSUME IInv, WInv, NEW t \in Thread, Test(t)
  PROVE  WInv'
<1> USE DEF Walking, Ahead, Trashed
<1>1. /\ pc[t] = "test" /\ op[t] = "remove_if" /\ UNCHANGED <<op, pred, cur, nxt, data, next>>
      /\ pc'[t] = IF data[nxt[t]] \in pred[t] THEN "unlink" ELSE "pass"
      /\ due[t] \in Seq(Value) /\ due' = [due EXCEPT ![t] = SubSeq(due[t], 2, Len(due[t]))]
  BY DEF Test, Lock, Unlock, Return, Goto, Meet, memory, history, WInv, Contents, Removing,
     IInv, Types, PCs, KindOf
<1>2. Contents
  BY DEF WInv
<1>3. Others(t) /\ OthersToo(t) /\ UNCHANGED <<next, data, live, list>>
  BY DEF Test, Return, Goto, Meet, memory, history, Others, OthersToo, IInv, Types, WInv, Contents
<1>4. KindOf(t)'
  BY <1>1, <1>2 DEF Contents, KindOf
<1>5. ASSUME NEW s, Seen(s)
      PROVE  StillBehind(s, t) /\ DueOf(s, t)'
  <2>1. StillBehind(s, t)
    BY <1>1 DEF StillBehind, Removing
  <2>3. /\ data[nxt[t]] \in Value /\ s[nxt[t]] \in Lists /\ s[nxt[t]][{}] \in Seq(Value)
        /\ Rest(s, cur[t]) = Front(data[nxt[t]], s[nxt[t]])
    BY <1>1, <1>2, <1>5, AtNode DEF Lists
  <2>4. due[t] = <<data[nxt[t]]>> \o s[nxt[t]][{}]
    <3>1. due[t] = Rest(s, cur[t])[{}]
      BY <1>1, <1>5 DEF Seen, DueOf
    <3> QED BY <2>3, <3>1, ListFacts
  <2>5. SubSeq(due[t], 2, Len(due[t])) = s[nxt[t]][{}]
    BY <2>3, <2>4, FirstMet
  <2>6. due'[t] = s[nxt[t]][{}]
    BY <1>1, <1>2, <2>5 DEF Contents
  <2>2. DueOf(s, t)'
    BY <1>1, <2>6 DEF DueOf, Removing
  <2> QED BY <2>1, <2>2
<1>6. pred' \in [Thread -> SUBSET Value] /\ op' \in [Thread -> Ops]
      /\ due' \in [Thread -> Seq(Value)]
  BY <1>1, <1>2, PredicatesOfValues DEF Contents, Ops, Test, Return, Meet, memory, history
<1> QED BY <1>3, <1>4, <1>5, <1>6, QuietWalks

\* The trash is unlocked.
LEMMA UnlockTrashWalks ==
  ASSUME IInv, WInv, NEW t \in Thread, UnlockTrash(t)
  PROVE  WInv'
<1> USE DEF Walking, Ahead, Trashed
<1>1. /\ pc[t] = "unlock" /\ pc'[t] = "delete" /\ op[t] = "remove_if"
      /\ UNCHANGED <<op, pred, due, cur>>
  BY DEF UnlockTrash, Lock, Unlock, Return, Goto, Meet, memory, history, WInv, Contents,
     Removing, IInv, Types, PCs, KindOf
<1>2. Contents
  BY DEF WInv
<1>3. Others(t) /\ OthersToo(t) /\ UNCHANGED <<next, data, live, list>>
  BY DEF UnlockTrash, Return, Goto, Meet, memory, history, Others, OthersToo, IInv, Types,
     WInv, Contents
<1>4. KindOf(t)'
  BY <1>1, <1>2 DEF Contents, KindOf
<1>5. ASSUME NEW s, Seen(s)
      PROVE  StillBehind(s, t) /\ DueOf(s, t)'
  <2>1. StillBehind(s, t)
    BY <1>1 DEF StillBehind, Removing
  <2>2. DueOf(s, t)'
    BY <1>1, <1>5, <1>3 DEF DueOf, Rest, Seen
  <2> QED BY <2>1, <2>2
<1>6. pred' \in [Thread -> SUBSET Value] /\ op' \in [Thread -> Ops]
      /\ due' \in [Thread -> Seq(Value)]
  BY <1>1, <1>2, PredicatesOfValues DEF Contents, Ops, UnlockTrash, Return, Meet, memory, history
<1> QED BY <1>3, <1>4, <1>5, <1>6, QuietWalks

-----------------------------------------------------------------------------
(* The steps that change the lists, or the nodes *)

\* A new node is on no list.
LEMMA CallPushWalks ==
  ASSUME IInv, WInv, NEW t \in Thread, NEW v \in Value, CallPush(t, v)
  PROVE  WInv'
<1> USE DEF Walking, Ahead, Trashed
<1>1. PICK x \in Node \ live : live' = live \cup {x} /\ data' = [data EXCEPT ![x] = v]
  BY DEF CallPush
<1>2. pc[t] = "idle" /\ pc'[t] = "push" /\ UNCHANGED <<next, op, pred, list, due>>
  BY DEF CallPush, Goto, history, IInv, Types
<1>3. Contents
  BY DEF WInv
<1>4. Others(t) /\ OthersToo(t)
  BY <1>2 DEF CallPush, Goto, Others, OthersToo, IInv, Types
<1>5. \A u \in Thread : cur[u] # x /\ nxt[u] # x
  BY NonesDistinct DEF IInv, NoUseAfterFree
<1>6. \A n \in Places : next[n] # NoNode => data'[next[n]] = data[next[n]]
  BY <1>1, <1>3 DEF IInv, NoUseAfterFree, Contents, Types
<1>7. \A u \in Thread \ {t} : /\ pc[u] = "visit" => data'[cur[u]] = data[cur[u]]
                              /\ pc[u] \in Ahead => data'[nxt[u]] = data[nxt[u]]
  BY <1>1, <1>3, <1>5 DEF Contents
<1>8. data' \in [Node -> Value \cup {NoValue}] /\ \A y \in live' : data'[y] \in Value
  BY <1>1, <1>3 DEF Contents, IInv, Types
<1>9. Contents'
  <2>1. KindOf(t)'
    BY <1>2 DEF KindOf
  <2> QED BY <1>2, <1>3, <1>4, <1>7, <1>8, <2>1, ContentsKeep DEF Contents, Ops
<1>10. PICK s : Seen(s)
  BY DEF WInv
<1>11. ~Removing(t)' /\ ~Removing(t) /\ DueOf(s, t)'
  BY <1>2 DEF Removing, DueOf
<1>12. Seen(s)'
  BY <1>2, <1>4, <1>6, <1>7, <1>10, <1>11, QuietSeen
<1> QED BY <1>9, <1>12 DEF WInv

\* Nor is the one that is deleted.
LEMMA DeleteTrashWalks ==
  ASSUME IInv, WInv, NEW t \in Thread, DeleteTrash(t)
  PROVE  WInv'
<1> USE DEF Walking, Ahead, Trashed
<1> DEFINE x == nxt[t]
<1>1. /\ pc[t] = "delete" /\ pc'[t] = "next" /\ cur[t] \in Places /\ x \in Node
      /\ live' = live \ {x} /\ data' = [data EXCEPT ![x] = NoValue]
      /\ UNCHANGED <<next, op, pred, cur, list, due>>
  BY DEF DeleteTrash, Goto, history, IInv, Types, Locals, LocalsOf
<1>2. \A n \in Places : next[n] # x
  BY <1>1 DEF IInv, Private, Own, Alone
<1>3. \A u \in Thread \ {t} : cur[u] # x /\ nxt[u] # x
  BY <1>1 DEF IInv, Private, Own, Alone
<1>4. Contents
  BY DEF WInv
<1> HIDE DEF x
<1>5. Others(t) /\ OthersToo(t)
  BY <1>1 DEF DeleteTrash, Goto, Others, OthersToo, IInv, Types
<1>6. \A n \in Places : next[n] # NoNode => data'[next[n]] = data[next[n]]
  BY <1>1, <1>2, <1>4 DEF Contents, IInv, Types
<1>7. \A u \in Thread \ {t} : /\ pc[u] = "visit" => data'[cur[u]] = data[cur[u]]
                              /\ pc[u] \in Ahead => data'[nxt[u]] = data[nxt[u]]
  BY <1>1, <1>3, <1>4 DEF Contents
<1>8. data' \in [Node -> Value \cup {NoValue}] /\ \A y \in live' : data'[y] \in Value
  BY <1>1, <1>4 DEF Contents, IInv, Types
<1>9. Contents'
  <2>1. KindOf(t)'
    BY <1>1 DEF KindOf
  <2> QED BY <1>1, <1>4, <1>5, <1>7, <1>8, <2>1, ContentsKeep DEF Contents, Ops
<1>10. PICK s : Seen(s)
  BY DEF WInv
<1>11. Removing(t)' <=> Removing(t)
  BY <1>1 DEF Removing
<1>12. ~Removing(t) => s[cur[t]] = Rest(s, cur[t])
  BY <1>1, <1>4, <1>10, AtNode
<1>13. DueOf(s, t)'
  <2>1. Rest(s, cur[t])' = Rest(s, cur[t])
    BY <1>1, <1>6 DEF Rest
  <2>2. due[t] = Rest(s, cur[t])[{}]
    BY <1>1, <1>10 DEF Seen, DueOf
  <2> QED BY <1>1, <2>1, <2>2 DEF DueOf
<1>14. Seen(s)'
  BY <1>1, <1>5, <1>6, <1>7, <1>10, <1>11, <1>12, <1>13, QuietSeen
<1> QED BY <1>9, <1>14 DEF WInv

\* A walk begins: a removal has none behind head that it will remove.
LEMMA CallWalks ==
  ASSUME IInv, WInv, NEW t \in Thread, NEW o \in Ops \ {"none"}, NEW P \in SUBSET Value,
         Call(t, o, P)
  PROVE  WInv'
<1> USE DEF Walking, Ahead, Trashed
<1>1. /\ pc[t] = "idle" /\ pc'[t] = "next" /\ cur'[t] = First /\ op'[t] = o /\ pred'[t] = P
      /\ due'[t] = list[{}] /\ holder[First] = NoThread
      /\ list' = IF o = "remove_if" THEN Without(list, P) ELSE list
      /\ UNCHANGED <<next, data, live>>
  BY DEF Call, Lock, Goto, memory, WInv, Contents, Ops, IInv, Types
<1>2. Contents
  BY DEF WInv
<1>3. Others(t) /\ OthersToo(t)
  BY DEF Call, Goto, Others, OthersToo, IInv, Types, WInv, Contents
<1>4. PICK s : Seen(s)
  BY DEF WInv
<1>5. /\ s \in [Places -> Lists] /\ s[First] = list /\ list = Rest(s, First)
      /\ list \in Lists /\ list[{}] \in Seq(Value) /\ First \in Places /\ First # NoNode
  <2>1. s \in [Places -> Lists] /\ s[First] = list /\ list = Rest(s, First)
    BY <1>1, <1>2, <1>4, AtNode
  <2>2. First \in Places /\ First # NoNode
    BY NonesDistinct DEF Places
  <2>3. list \in Lists
    BY <2>1, <2>2
  <2>4. list[{}] \in Seq(Value)
    BY <2>3 DEF Lists
  <2> QED BY <2>1, <2>2, <2>3, <2>4
<1>6. Contents'
  <2>1. pred' \in [Thread -> SUBSET Value] /\ op' \in [Thread -> Ops]
      /\ due' \in [Thread -> Seq(Value)]
    BY <1>2, <1>5 DEF Call, Contents, Ops
  <2>2. KindOf(t)'
    BY <1>1 DEF KindOf
  <2> QED BY <1>1, <1>2, <1>3, <2>1, <2>2, ContentsKeep DEF Contents
<1>7. \A n \in Places : next[n] # First
  BY NonesDistinct DEF IInv, Types
<1>8. CASE o # "remove_if"
  <2>1. ~Removing(t)' /\ ~Removing(t)
    BY <1>1, <1>8 DEF Removing
  <2>2. DueOf(s, t)'
    BY <1>1, <1>5 DEF DueOf, Rest
  <2>3. UNCHANGED <<next, list>> /\ UNCHANGED data
    BY <1>1, <1>8
  <2>4. Seen(s)'
    BY <1>3, <1>4, <2>1, <2>2, <2>3, QuietSeen
  <2> QED BY <1>6, <2>4 DEF WInv
<1>9. CASE o = "remove_if"
  <2>1. PICK z : z = [s EXCEPT ![First] = Without(list, P)]
    OBVIOUS
  <2>2. z \in [Places -> Lists] /\ z[First] = list' /\ \A n \in Places \ {First} : z[n] = s[n]
    <3>1. Without(list, P) \in Lists
      BY <1>5, WithoutIn
    <3> QED BY <1>1, <1>5, <1>9, <2>1, <3>1
  <2>3. \A n \in Places : Rest(z, n)' = Rest(s, n)
    BY <1>1, <1>7, <2>2 DEF Rest, IInv, Types, Places
  <2>4. \A n \in Places \ {First} : Rest(z, n)' = Rest(s, n) /\ z[n] = s[n]
    BY <2>2, <2>3
  <2>5. \A u \in Thread \ {t} : /\ pc[u] \in Walking => cur[u] \in Places \ {First}
                                /\ pc[u] \in Ahead => nxt[u] \in Places \ {First}
                                /\ pc[u] = "visit" => data'[cur[u]] = data[cur[u]]
    BY <1>1, <1>5, Apart
  <2>6. ~Removing(t) /\ Removing(t)' /\ cur'[t] = First
    BY <1>1, <1>9 DEF Removing
  <2>7. (z[cur[t]] = Without(Rest(z, cur[t]), pred[t]))'
    BY <1>1, <1>5, <1>9, <2>2, <2>3
  <2>8. DueOf(z, t)'
    BY <1>1, <1>5, <2>3 DEF DueOf
  <2>9. {First} \in SUBSET Places
    BY <1>5
  <2>10. Seen(z)'
    BY <1>3, <1>4, <2>2, <2>4, <2>5, <2>6, <2>7, <2>8, <2>9, SeenKeeps
  <2> QED BY <1>6, <2>10 DEF WInv
<1> QED BY <1>8, <1>9

\* A walk goes on to the next node; if it removes, what is behind that one but not yet
\* without the values to remove is now behind the walk.
LEMMA PassWalks ==
  ASSUME IInv, WInv, NEW t \in Thread, Pass(t)
  PROVE  WInv'
<1> USE DEF Walking, Ahead, Trashed
<1>0. PICK c, m, P : c = cur[t] /\ m = nxt[t] /\ P = pred[t]
  OBVIOUS
<1>1. /\ pc[t] = "pass" /\ c \in Places /\ m \in Node /\ m # c /\ next[c] = m
      /\ pc'[t] = IF op[t] = "remove_if" THEN "next" ELSE "visit"
      /\ cur'[t] = m /\ UNCHANGED <<next, data, live, list, op, pred, due>>
      /\ holder[c] = t /\ holder[m] = t
  <2>1. pc[t] = "pass"
    BY DEF Pass
  <2>2. c \in Places /\ m \in Node /\ m # c /\ next[c] = m
    BY <1>0, <2>1 DEF IInv, Locals, LocalsOf
  <2>3. holder[c] = t /\ holder[m] = t
    BY <1>0, <2>1, <2>2 DEF IInv, Locked, Holds, Two, Places
  <2>4. /\ pc'[t] = IF op[t] = "remove_if" THEN "next" ELSE "visit"
        /\ cur'[t] = m /\ UNCHANGED <<next, data, live, list, op, pred, due>>
    BY <1>0 DEF Pass, Goto, memory, history, IInv, Types
  <2> QED BY <2>1, <2>2, <2>3, <2>4
<1>2. Contents
  BY DEF WInv
<1>3. Others(t) /\ OthersToo(t)
  BY DEF Pass, Goto, memory, history, Others, OthersToo, IInv, Types
<1>4. PICK s : Seen(s)
  BY DEF WInv
<1>5. /\ s \in [Places -> Lists] /\ s[First] = list
      /\ data[m] \in Value /\ s[m] \in Lists /\ s[m] = Rest(s, m)
      /\ Rest(s, c) = Front(data[m], s[m])
  BY <1>0, <1>1, <1>2, <1>4, AtNode
<1>6. Contents'
  <2>1. KindOf(t)'
    BY <1>0, <1>1, NonesDistinct DEF KindOf
  <2> QED BY <1>1, <1>2, <1>3, <2>1, ContentsKeep DEF Contents, Ops
<1>7. CASE op[t] # "remove_if"
  <2>1. ~Removing(t)' /\ ~Removing(t)
    BY <1>1, <1>7 DEF Removing
  <2>2. due[t] = <<data[m]>> \o Rest(s, m)[{}]
    <3>1. due[t] = Rest(s, c)[{}]
      BY <1>0, <1>1, <1>4, <1>7 DEF Seen, DueOf, Removing
    <3> QED BY <1>5, <3>1, ListFacts
  <2>3. DueOf(s, t)'
    BY <1>1, <1>7, <2>2 DEF DueOf, Rest
  <2>4. Seen(s)'
    BY <1>1, <1>3, <1>4, <2>1, <2>3, QuietSeen
  <2> QED BY <1>6, <2>4 DEF WInv
<1>8. CASE op[t] = "remove_if"
  <2> DEFINE K == {c, m}
  <2>1. PICK z : z = [s EXCEPT ![m] = Without(s[m], P)]
    OBVIOUS
  <2>2. P \in SUBSET Value /\ data[m] \notin P
    BY <1>0, <1>1, <1>2, <1>8 DEF Contents, KindOf
  <2>3. z \in [Places -> Lists] /\ z[m] = Without(s[m], P) /\ \A n \in Places \ {m} : z[n] = s[n]
    BY <1>1, <1>5, <2>1, <2>2, WithoutIn DEF Places
  <2>4. \A n \in Places \ {c} : next[n] # m
    BY <1>1, NonesDistinct DEF IInv, OneBefore
  <2>5. \A n \in Places \ {c} : Rest(z, n)' = Rest(s, n)
    <3> SUFFICES ASSUME NEW n \in Places \ {c} PROVE Rest(z, n)' = Rest(s, n)
      OBVIOUS
    <3>1. next[n] # NoNode => next[n] \in Places \ {m}
      BY <2>4 DEF IInv, Types, Places
    <3> QED BY <1>1, <2>3, <3>1 DEF Rest
  <2>6. \A n \in Places \ K : Rest(z, n)' = Rest(s, n) /\ z[n] = s[n]
    BY <2>3, <2>5
  <2>7. \A u \in Thread \ {t} : /\ pc[u] \in Walking => cur[u] \in Places \ K
                                /\ pc[u] \in Ahead => nxt[u] \in Places \ K
                                /\ pc[u] = "visit" => data'[cur[u]] = data[cur[u]]
    BY <1>1, Apart DEF Places
  <2>8. K \in SUBSET Places /\ c \in K
    BY <1>1 DEF Places
  <2>9. z[c] = Rest(z, c)'
    <3>1. s[c] = Without(Rest(s, c), P)
      BY <1>0, <1>1, <1>4, <1>8 DEF Seen, Behind, Removing
    <3>2. s[c] = Front(data[m], Without(s[m], P))
      BY <1>5, <2>2, <3>1, ListFacts
    <3>3. z[c] = s[c] /\ Rest(z, c)' = Front(data[m], z[m])
      BY <1>1, <2>3, NonesDistinct DEF Rest, Places
    <3> QED BY <2>3, <3>2, <3>3
  <2>10. Removing(t)' /\ cur'[t] = m
    BY <1>1, <1>8 DEF Removing
  <2>11. \A n \in K : (Removing(t)' => cur'[t] # n) => z[n] = Rest(z, n)'
    BY <2>9, <2>10
  <2>12. Rest(z, m)' = s[m]
    BY <1>1, <1>5, <2>5 DEF Places
  <2>13. (z[cur[t]] = Without(Rest(z, cur[t]), pred[t]))'
    BY <1>0, <1>1, <2>3, <2>12
  <2>14. DueOf(z, t)'
    <3>1. due[t] = s[m][{}]
      BY <1>0, <1>1, <1>4, <1>8 DEF Seen, DueOf, Removing
    <3> QED BY <1>1, <1>8, <2>12, <3>1 DEF DueOf
  <2>15. z[First] = list'
    BY <1>1, <1>5, <2>3, NonesDistinct DEF Places
  <2>16. Removing(t) => cur[t] \in K
    BY <1>0
  <2> HIDE DEF K
  <2>17. Seen(z)'
    BY <1>3, <1>4, <2>3, <2>6, <2>7, <2>8, <2>11, <2>13, <2>14, <2>15, <2>16, SeenKeeps
  <2> QED BY <1>6, <2>17 DEF WInv
<1> QED BY <1>7, <1>8

\* The node takes over what is behind head, and is what is behind head.
LEMMA LinkFrontWalks ==
  ASSUME IInv, WInv, NEW t \in Thread, LinkFront(t)
  PROVE  WInv'
<1> USE DEF Walking, Ahead, Trashed
<1>0. PICK x : x = cur[t]
  OBVIOUS
<1>1. /\ pc[t] = "link" /\ pc'[t] = "push unlock" /\ x \in Node /\ x # First
      /\ next' = [next EXCEPT ![x] = next[First], ![First] = x] /\ list' = Front(data[x], list)
      /\ UNCHANGED <<data, live, op, pred, cur, nxt, due>>
  BY <1>0, NonesDistinct DEF LinkFront, Goto, IInv, Types, Locals, LocalsOf, Pushing
<1>2. Own(t, x) /\ Alone(t, x) /\ holder[First] = t
  <2>1. Own(t, x)
    BY <1>0, <1>1 DEF Own
  <2> QED BY <1>1, <2>1 DEF IInv, Private, Locked, Holds, Places
<1>3. Contents
  BY DEF WInv
<1>4. Others(t) /\ OthersToo(t)
  BY <1>1 DEF LinkFront, Goto, Others, OthersToo, IInv, Types
<1>5. PICK s : Seen(s)
  BY DEF WInv
<1>6. First \in Places /\ x \in Places /\ x \in live
  BY <1>0, <1>1, NonesDistinct DEF Places, IInv, NoUseAfterFree
<1>7. \A u \in Thread \ {t} : /\ pc[u] \in Walking => cur[u] \in Places \ {First, x}
                              /\ pc[u] \in Ahead => nxt[u] \in Places \ {First, x}
  BY <1>1, <1>2, <1>6, Apart
<1>8. s \in [Places -> Lists] /\ s[First] = list /\ s[First] = Rest(s, First)
  <2>1. \A u \in Thread : Removing(u) => cur[u] # First
    BY <1>1, <1>7 DEF Removing
  <2> QED BY <1>6, <2>1, <1>5 DEF Seen, Behind
<1>9. data[x] \in Value
  BY <1>3, <1>6 DEF Contents
<1>10. Contents'
  <2>1. KindOf(t)'
    BY <1>1 DEF KindOf
  <2> QED BY <1>1, <1>3, <1>4, <2>1, ContentsKeep DEF Contents, Ops
<1>11. PICK z : z = [s EXCEPT ![x] = s[First], ![First] = Front(data[x], s[First])]
  OBVIOUS
<1>12. /\ z \in [Places -> Lists] /\ z[x] = s[First] /\ z[First] = Front(data[x], s[First])
       /\ \A n \in Places \ {First, x} : z[n] = s[n]
  <2>1. s[First] \in Lists /\ Front(data[x], s[First]) \in Lists
    BY <1>6, <1>8, <1>9, ListFacts
  <2> QED BY <1>1, <1>6, <1>8, <1>11, <2>1
<1>13. \A n \in Places : next[n] # NoNode => next[n] \in Places \ {First, x}
  BY <1>2, NonesDistinct DEF Alone, IInv, Types, Places
<1>14. \A n \in Places \ {First, x} : next'[n] = next[n]
  BY <1>1 DEF IInv, Types
<1>15. next'[First] = x /\ next'[x] = next[First] /\ x # NoNode
  BY <1>1, <1>6, NonesDistinct DEF IInv, Types
<1>16. \A n \in Places \ {First, x} : Rest(z, n)' = Rest(s, n) /\ z[n] = s[n]
  <2> SUFFICES ASSUME NEW n \in Places \ {First, x} PROVE Rest(z, n)' = Rest(s, n) /\ z[n] = s[n]
    OBVIOUS
  <2>1. next'[n] = next[n] /\ data' = data
    BY <1>1, <1>14
  <2>2. next[n] # NoNode => z[next[n]] = s[next[n]]
    BY <1>12, <1>13
  <2> QED BY <1>12, <2>1, <2>2 DEF Rest
<1>17. z[First] = Rest(z, First)' /\ z[x] = Rest(z, x)'
  <2>1. Rest(z, First)' = Front(data[x], z[x])
    BY <1>1, <1>15 DEF Rest
  <2>2. Rest(z, x)' = Rest(s, First)
    <3>1. next'[x] = next[First] /\ data' = data
      BY <1>1, <1>15
    <3>2. next[First] # NoNode => z[next[First]] = s[next[First]]
      BY <1>6, <1>12, <1>13
    <3> QED BY <3>1, <3>2 DEF Rest
  <2> QED BY <1>8, <1>12, <2>1, <2>2
<1>18. ~Removing(t) /\ ~Removing(t)' /\ DueOf(z, t)'
  BY <1>1 DEF Removing, DueOf
<1>19. {First, x} \in SUBSET Places /\ z[First] = list'
  BY <1>1, <1>6, <1>8, <1>12
<1>20. \A u \in Thread \ {t} : pc[u] = "visit" => data'[cur[u]] = data[cur[u]]
  BY <1>1
<1>21. Seen(z)'
  <2>1. \A n \in {First, x} : (Removing(t)' => cur'[t] # n) => z[n] = Rest(z, n)'
    BY <1>17
  <2>2. \A u \in Thread \ {t} : /\ pc[u] \in Walking => cur[u] \in Places \ {First, x}
                                /\ pc[u] \in Ahead => nxt[u] \in Places \ {First, x}
                                /\ pc[u] = "visit" => data'[cur[u]] = data[cur[u]]
    BY <1>7, <1>20
  <2>3. z \in [Places -> Lists]
    BY <1>12
  <2> QED BY <1>4, <1>5, <1>16, <1>18, <1>19, <2>1, <2>2, <2>3, SeenKeeps
<1> QED BY <1>10, <1>21 DEF WInv

\* The node leaves the list, which was to lose it.
LEMMA UnlinkWalks ==
  ASSUME IInv, WInv, NEW t \in Thread, Unlink(t)
  PROVE  WInv'
<1> USE DEF Walking, Ahead, Trashed
<1>0. PICK c, m, P : c = cur[t] /\ m = nxt[t] /\ P = pred[t]
  OBVIOUS
<1>1. /\ pc[t] = "unlink" /\ pc'[t] = "unlock"
      /\ c \in Places /\ m \in Node /\ m # c /\ next[c] = m
      /\ holder[c] = t /\ holder[m] = t
      /\ next' = [next EXCEPT ![c] = next[m], ![m] = NoNode]
      /\ UNCHANGED <<data, live, list, op, pred, cur, nxt, due>>
  <2>1. pc[t] = "unlink"
    BY DEF Unlink
  <2>2. c \in Places /\ m \in Node /\ m # c /\ next[c] = m
    BY <1>0, <2>1 DEF IInv, Locals, LocalsOf
  <2>3. holder[c] = t /\ holder[m] = t
    BY <1>0, <2>1, <2>2 DEF IInv, Locked, Holds, Two, Places
  <2>4. /\ pc'[t] = "unlock" /\ next' = [next EXCEPT ![c] = next[m], ![m] = NoNode]
        /\ UNCHANGED <<data, live, list, op, pred, cur, nxt, due>>
    BY <1>0 DEF Unlink, Goto, history, IInv, Types
  <2> QED BY <2>1, <2>2, <2>3, <2>4
<1>2. Contents
  BY DEF WInv
<1>3. Others(t) /\ OthersToo(t)
  BY <1>1 DEF Unlink, Goto, Others, OthersToo, IInv, Types
<1>4. PICK s : Seen(s)
  BY DEF WInv
<1>5. /\ s \in [Places -> Lists] /\ s[First] = list
      /\ data[m] \in Value /\ s[m] \in Lists /\ s[m] = Rest(s, m)
      /\ Rest(s, c) = Front(data[m], s[m])
  BY <1>0, <1>1, <1>2, <1>4, AtNode
<1>6. op[t] = "remove_if" /\ data[m] \in P /\ P \in SUBSET Value
  BY <1>0, <1>1, <1>2 DEF Contents, KindOf
<1>7. Contents'
  <2>1. KindOf(t)'
    BY <1>1, <1>6 DEF KindOf
  <2> QED BY <1>1, <1>2, <1>3, <2>1, ContentsKeep DEF Contents, Ops
<1>8. PICK z : z = [s EXCEPT ![m] = Empty]
  OBVIOUS
<1>9. z \in [Places -> Lists] /\ z[m] = Empty /\ \A n \in Places \ {m} : z[n] = s[n]
  BY <1>1, <1>5, <1>8, EmptyFacts DEF Places
<1>10. \A n \in Places : next[n] # NoNode /\ n # c => next[n] \in Places \ {m}
  BY <1>1, NonesDistinct DEF IInv, OneBefore, Types, Places
<1>11. /\ next'[c] = next[m] /\ next'[m] = NoNode
       /\ \A n \in Places \ {c, m} : next'[n] = next[n]
  BY <1>1 DEF IInv, Types, Places
<1>12. \A n \in Places \ {c, m} : Rest(z, n)' = Rest(s, n) /\ z[n] = s[n]
  <2> SUFFICES ASSUME NEW n \in Places \ {c, m} PROVE Rest(z, n)' = Rest(s, n) /\ z[n] = s[n]
    OBVIOUS
  <2>1. next'[n] = next[n] /\ data' = data
    BY <1>1, <1>11
  <2>2. next[n] # NoNode => z[next[n]] = s[next[n]]
    BY <1>9, <1>10
  <2> QED BY <1>9, <2>1, <2>2 DEF Rest
<1>13. Rest(z, c)' = s[m]
  <2>1. next[m] # NoNode => next[m] \in Places \ {m}
    BY <1>1, <1>10 DEF Places
  <2>2. Rest(z, c)' = Rest(s, m)
    BY <1>1, <1>9, <1>11, <2>1 DEF Rest
  <2> QED BY <1>5, <2>2
<1>14. z[c] = Without(s[m], P)
  <2>1. s[c] = Without(Rest(s, c), P)
    BY <1>0, <1>1, <1>4, <1>6 DEF Seen, Behind, Removing
  <2>2. s[c] = Without(s[m], P)
    BY <1>5, <1>6, <2>1, ListFacts
  <2> QED BY <1>1, <1>9, <2>2
<1>15. z[m] = Rest(z, m)'
  BY <1>9, <1>11 DEF Rest
<1>16. Removing(t) /\ Removing(t)' /\ cur'[t] = c
  BY <1>0, <1>1, <1>6 DEF Removing
<1>17. \A n \in {c, m} : (Removing(t)' => cur'[t] # n) => z[n] = Rest(z, n)'
  BY <1>15, <1>16
<1>18. (z[cur[t]] = Without(Rest(z, cur[t]), pred[t]))'
  BY <1>0, <1>1, <1>13, <1>14, <1>16
<1>19. DueOf(z, t)'
  <2>1. due[t] = s[m][{}]
    BY <1>0, <1>1, <1>4 DEF Seen, DueOf
  <2>2. due'[t] = Rest(z, cur[t])'[{}]
    BY <1>1, <1>13, <1>16, <2>1
  <2> QED BY <1>1, <2>2 DEF DueOf
<1>20. \A u \in Thread \ {t} : /\ pc[u] \in Walking => cur[u] \in Places \ {c, m}
                               /\ pc[u] \in Ahead => nxt[u] \in Places \ {c, m}
                               /\ pc[u] = "visit" => data'[cur[u]] = data[cur[u]]
  BY <1>1, Apart DEF Places
<1>21. {c, m} \in SUBSET Places /\ cur[t] \in {c, m} /\ z[First] = list'
  BY <1>0, <1>1, <1>5, <1>9, NonesDistinct DEF Places
<1>22. Seen(z)'
  BY <1>3, <1>4, <1>9, <1>12, <1>17, <1>18, <1>19, <1>20, <1>21, SeenKeeps
<1> QED BY <1>7, <1>22 DEF WInv

-----------------------------------------------------------------------------
LEMMA NextKeepsWalks == IInv /\ WInv /\ [Next]_vars => WInv'
<1> SUFFICES ASSUME IInv, WInv, [Next]_vars PROVE WInv'
  OBVIOUS
<1>1. CASE UNCHANGED vars
  <2>1. Contents'
    BY <1>1 DEF vars, memory, history, WInv, Contents, KindOf
  <2>2. PICK s : Seen(s)
    BY DEF WInv
  <2>3. Seen(s)'
    BY <1>1, <2>2 DEF vars, memory, history, Seen, Behind, DueOf, Removing, Rest
  <2> QED BY <2>1, <2>3 DEF WInv
<1>2. ASSUME NEW t \in Thread, CallAny(t) PROVE WInv'
  <2>1. {} \in SUBSET Value /\ {"for_each", "find_first_if", "remove_if"} \subseteq Ops \ {"none"}
    BY DEF Ops
  <2>2. ASSUME NEW o \in {"for_each", "find_first_if", "remove_if"}, NEW P \in SUBSET Value, Call(t, o, P)
        PROVE  WInv'
    BY <2>1, <2>2, CallWalks
  <2>3. \/ \E v \in Value : CallPush(t, v)
        \/ \E o \in {"for_each", "find_first_if", "remove_if"}, P \in SUBSET Value : Call(t, o, P)
    BY <1>2, PredicatesOfValues DEF CallAny
  <2> QED BY <2>2, <2>3, CallPushWalks
<1>3. ASSUME NEW t \in Thread, Proceed(t) PROVE WInv'
  BY <1>3, LockPushWalks, LinkFrontWalks, UnlockPushWalks, LockNextWalks, EndWalks, PassWalks,
     VisitWalks, ReturnFoundWalks, TestWalks, UnlinkWalks, UnlockTrashWalks, DeleteTrashWalks
     DEF Proceed
<1> QED BY <1>1, <1>2, <1>3 DEF Next

\* The next value a walk meets is the first it has yet to meet, and at the end of the
\* list it has met them all.
LEMMA WalksFromInv == IInv /\ WInv => WalksAreAtomic
<1> SUFFICES ASSUME IInv, WInv, NEW t \in Thread
             PROVE  /\ pc[t] = "visit" => due[t] # <<>> /\ data[cur[t]] = due[t][1]
                    /\ pc[t] = "test" => due[t] # <<>> /\ data[nxt[t]] = due[t][1]
                    /\ pc[t] = "next" /\ next[cur[t]] = NoNode => due[t] = <<>>
  BY DEF WalksAreAtomic
<1> USE DEF Walking, Ahead, Trashed
<1>1. PICK s : Seen(s)
  BY DEF WInv
<1>2. Contents
  BY DEF WInv
<1>3. ASSUME pc[t] = "visit" PROVE due[t] # <<>> /\ data[cur[t]] = due[t][1]
  <2>1. cur[t] \in Node /\ cur[t] \in live
    BY <1>2, <1>3, NonesDistinct DEF Contents, KindOf, IInv, NoUseAfterFree
  <2>2. data[cur[t]] \in Value
    BY <1>2, <2>1 DEF Contents
  <2>3. Rest(s, cur[t])[{}] \in Seq(Value)
    <3>1. Rest(s, cur[t]) \in Lists
      BY <1>1, <1>2, <1>3, AtNode
    <3> QED BY <3>1 DEF Lists
  <2>4. due[t] = <<data[cur[t]]>> \o Rest(s, cur[t])[{}]
    BY <1>1, <1>3 DEF Seen, DueOf
  <2> QED BY <2>2, <2>3, <2>4, FirstMet
<1>4. ASSUME pc[t] = "test" PROVE due[t] # <<>> /\ data[nxt[t]] = due[t][1]
  <2>1. /\ data[nxt[t]] \in Value /\ s[nxt[t]] \in Lists
        /\ Rest(s, cur[t]) = Front(data[nxt[t]], s[nxt[t]])
    BY <1>1, <1>2, <1>4, AtNode
  <2>2. due[t] = <<data[nxt[t]]>> \o s[nxt[t]][{}]
    <3>1. due[t] = Rest(s, cur[t])[{}]
      BY <1>1, <1>4 DEF Seen, DueOf
    <3> QED BY <2>1, <3>1, ListFacts
  <2>3. s[nxt[t]][{}] \in Seq(Value)
    BY <2>1 DEF Lists
  <2> QED BY <2>1, <2>2, <2>3, FirstMet
<1>5. ASSUME pc[t] = "next", next[cur[t]] = NoNode PROVE due[t] = <<>>
  BY <1>1, <1>5, EmptyFacts DEF Seen, DueOf, Rest
<1> QED BY <1>3, <1>4, <1>5

\* Walks that overlap are atomic: each meets the values of the list as it was when the
\* walk locked head, less what the removals before it were still to remove, in order,
\* although the nodes before and behind it are removed, deleted and pushed meanwhile.
THEOREM WalksNeverOvertake == Spec => []WalksAreAtomic
<1>1. IInv /\ WInv /\ [Next]_vars => (IInv /\ WInv)'
  BY NextKeeps, NextKeepsWalks
<1> QED BY <1>1, InitIInv, InitWInv, WalksFromInv, PTL DEF Spec
=============================================================================
