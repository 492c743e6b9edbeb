------------------------ MODULE FineGrainedQueueProofs ------------------------
(***************************************************************************)
(* The inductive invariant of FineGrainedQueue, checked by TLAPS for any    *)
(* number of threads, addresses and values.                                 *)
(***************************************************************************)
EXTENDS FineGrainedQueue, SequenceTheorems, TLAPS

-----------------------------------------------------------------------------
(* The strengthening.  ListIntact alone is not inductive: it does not say who *)
(* may touch the list, nor what push has built outside it.                    *)

\* A thread owns a node exactly between the two steps that make it its own and
\* give it away, and no other thread owns that node.
Ownership ==
    /\ \A t \in Thread : pc[t] \in {"lock tail", "store", "advance", "unlinked"}
                            <=> node[t] # NoNode
    /\ \A t \in Thread : node[t] # NoNode => node[t] \in live
    /\ \A t, u \in Thread : node[t] = node[u] /\ t # u => node[t] = NoNode

\* Each mutex is held by the one thread that is inside its guard.
Locked ==
    /\ \A t \in Thread : pc[t] \in {"check", "sleep", "pop"} <=> headMutex = t
    /\ \A t \in Thread : pc[t] \in {"store", "advance"} <=> tailMutex = t

\* What a thread knows at its program counter.
PushLocal == \A t \in Thread :
    /\ pc[t] \in {"lock tail", "store"} => arg[t] \in Value
    /\ pc[t] = "advance" => next[tail] = node[t] /\ data[tail] \in Value

PopLocal == \A t \in Thread :
    /\ pc[t] = "pop" => head # tail
    /\ pc[t] = "unlinked" => data[node[t]] \in Value /\ next[node[t]] = NoNode

IInv == TypeOK /\ Ownership /\ Locked /\ PushLocal /\ PopLocal /\ ListIntact

LEMMA InitIInv == Init => IInv
<1> SUFFICES ASSUME Init PROVE IInv
  OBVIOUS
<1>1. TypeOK
  BY NullsDistinct DEF Init, TypeOK, PCs, Ops
<1>2. Ownership /\ Locked /\ PushLocal /\ PopLocal
  BY NullsDistinct DEF Init, Ownership, Locked, PushLocal, PopLocal
<1>3. ListIntact
  BY NullsDistinct DEF Init, ListIntact, Linked
<1> QED BY <1>1, <1>2, <1>3 DEF IInv

\* A step that changes no pointer, no ownership and no allocation leaves the list intact.
LEMMA ListUntouched == ASSUME ListIntact, UNCHANGED <<memory, node>> PROVE ListIntact'
  BY DEF ListIntact, Linked, memory

\* The same for a step that changes nothing but nodes that no one reads as part
\* of the list: those outside it, and the dummy at its end.
LEMMA ListKept ==
  ASSUME ListIntact, Linked' = Linked, UNCHANGED <<head, tail>>,
         \A x \in Linked \ {tail} : next'[x] = next[x] /\ data'[x] = data[x]
  PROVE  ListIntact'
  BY DEF ListIntact

\* What threads know stays true when one of them comes to a place where it knows nothing new.
LEMMA LocalsUntouched ==
  ASSUME IInv, NEW t \in Thread, NEW l, pc' = [pc EXCEPT ![t] = l],
         l \notin {"advance", "unlinked"}, l = "pop" => head # tail,
         l \in {"lock tail", "store"} => pc[t] \in {"lock tail", "store"},
         UNCHANGED <<memory, arg, node>>
  PROVE  PushLocal' /\ PopLocal'
<1>1. \A u \in Thread : pc'[u] = IF u = t THEN l ELSE pc[u]
  BY DEF IInv, TypeOK
<1>2. UNCHANGED <<head, tail, next, data>>
  BY DEF memory
<1>3. PushLocal'
  BY <1>1, <1>2 DEF IInv, PushLocal
<1>4. PopLocal'
  BY <1>1, <1>2 DEF IInv, PopLocal
<1> QED BY <1>3, <1>4

LEMMA LockTailKeeps == ASSUME NEW t \in Thread, IInv, LockTail(t) PROVE IInv'
<1> USE NullsDistinct DEF LockTail, Goto, IInv
<1>1. TypeOK'
  BY DEF TypeOK, PCs, Ops, memory, locks
<1>2. Ownership'
  BY DEF TypeOK, Ownership, memory, locks
<1>3. Locked'
  BY DEF TypeOK, Locked, memory, locks
<1>4. PushLocal' /\ PopLocal'
  <2>1. pc' = [pc EXCEPT ![t] = "store"] /\ pc[t] = "lock tail" /\ UNCHANGED <<memory, arg, node>>
    BY DEF memory
  <2>2. IInv
    OBVIOUS
  <2> HIDE DEF LockTail, Goto, IInv
  <2> QED BY <2>1, <2>2, LocalsUntouched
<1> QED BY <1>1, <1>2, <1>3, <1>4, ListUntouched DEF memory

LEMMA LockHeadKeeps == ASSUME NEW t \in Thread, IInv, LockHead(t) PROVE IInv'
<1> USE NullsDistinct DEF LockHead, Goto, IInv
<1>1. TypeOK'
  BY DEF TypeOK, PCs, Ops, memory, locks
<1>2. Ownership'
  BY DEF TypeOK, Ownership, memory, locks
<1>3. Locked'
  BY DEF TypeOK, Locked, memory, locks
<1>4. PushLocal' /\ PopLocal'
  <2>1. pc' = [pc EXCEPT ![t] = "check"] /\ UNCHANGED <<memory, arg, node>>
    BY DEF memory
  <2>2. IInv
    OBVIOUS
  <2> HIDE DEF LockHead, Goto, IInv
  <2> QED BY <2>1, <2>2, LocalsUntouched
<1> QED BY <1>1, <1>2, <1>3, <1>4, ListUntouched DEF memory

LEMMA CheckWaitKeeps == ASSUME NEW t \in Thread, IInv, CheckWait(t) PROVE IInv'
<1> USE NullsDistinct DEF CheckWait, Goto, IInv
<1>1. TypeOK'
  BY DEF TypeOK, PCs, Ops, memory, locks
<1>2. Ownership'
  BY DEF TypeOK, Ownership, memory, locks
<1>3. Locked'
  BY DEF TypeOK, Locked, memory, locks
<1>4. PushLocal' /\ PopLocal'
  <2>1. pc' = [pc EXCEPT ![t] = "sleep"] /\ UNCHANGED <<memory, arg, node>>
    BY DEF memory
  <2>2. IInv
    OBVIOUS
  <2> HIDE DEF CheckWait, Goto, IInv
  <2> QED BY <2>1, <2>2, LocalsUntouched
<1> QED BY <1>1, <1>2, <1>3, <1>4, ListUntouched DEF memory

LEMMA CheckReturnKeeps == ASSUME NEW t \in Thread, IInv, CheckReturn(t) PROVE IInv'
<1> USE NullsDistinct DEF CheckReturn, Goto, Finish, IInv
<1>1. TypeOK'
  BY DEF TypeOK, PCs, Ops, memory, locks
<1>2. Ownership'
  BY DEF TypeOK, Ownership, memory, locks
<1>3. Locked'
  BY DEF TypeOK, Locked, memory, locks
<1>4. PushLocal' /\ PopLocal'
  <2>1. pc' = [pc EXCEPT ![t] = "idle"] /\ UNCHANGED <<memory, arg, node>>
    BY DEF memory
  <2>2. IInv
    OBVIOUS
  <2> HIDE DEF CheckReturn, Goto, Finish, IInv
  <2> QED BY <2>1, <2>2, LocalsUntouched
<1> QED BY <1>1, <1>2, <1>3, <1>4, ListUntouched DEF memory

LEMMA CheckPopKeeps == ASSUME NEW t \in Thread, IInv, CheckPop(t) PROVE IInv'
<1> USE NullsDistinct DEF CheckPop, Goto, NoData, IInv
<1>1. TypeOK'
  BY DEF TypeOK, PCs, Ops, memory, locks
<1>2. Ownership'
  BY DEF TypeOK, Ownership, memory, locks
<1>3. Locked'
  BY DEF TypeOK, Locked, memory, locks
<1>4. PushLocal' /\ PopLocal'
  <2>1. pc' = [pc EXCEPT ![t] = "pop"] /\ head # tail /\ UNCHANGED <<memory, arg, node>>
    BY DEF memory
  <2>2. IInv
    OBVIOUS
  <2> HIDE DEF CheckPop, Goto, NoData, IInv
  <2> QED BY <2>1, <2>2, LocalsUntouched
<1> QED BY <1>1, <1>2, <1>3, <1>4, ListUntouched DEF memory

LEMMA SleepKeeps == ASSUME NEW t \in Thread, IInv, Sleep(t) PROVE IInv'
<1> USE NullsDistinct DEF Sleep, Goto, IInv
<1>1. TypeOK'
  BY DEF TypeOK, PCs, Ops, memory, locks
<1>2. Ownership'
  BY DEF TypeOK, Ownership, memory, locks
<1>3. Locked'
  BY DEF TypeOK, Locked, memory, locks
<1>4. PushLocal' /\ PopLocal'
  <2>1. pc' = [pc EXCEPT ![t] = "blocked"] /\ UNCHANGED <<memory, arg, node>>
    BY DEF memory
  <2>2. IInv
    OBVIOUS
  <2> HIDE DEF Sleep, Goto, IInv
  <2> QED BY <2>1, <2>2, LocalsUntouched
<1> QED BY <1>1, <1>2, <1>3, <1>4, ListUntouched DEF memory

LEMMA SpuriousWakeKeeps == ASSUME NEW t \in Thread, IInv, SpuriousWake(t) PROVE IInv'
<1> USE NullsDistinct DEF SpuriousWake, Goto, IInv
<1>1. TypeOK'
  BY DEF TypeOK, PCs, Ops, memory, locks
<1>2. Ownership'
  BY DEF TypeOK, Ownership, memory, locks
<1>3. Locked'
  BY DEF TypeOK, Locked, memory, locks
<1>4. PushLocal' /\ PopLocal'
  <2>1. pc' = [pc EXCEPT ![t] = "lock head"] /\ UNCHANGED <<memory, arg, node>>
    BY DEF memory
  <2>2. IInv
    OBVIOUS
  <2> HIDE DEF SpuriousWake, Goto, IInv
  <2> QED BY <2>1, <2>2, LocalsUntouched
<1> QED BY <1>1, <1>2, <1>3, <1>4, ListUntouched DEF memory

LEMMA MoveThrowsKeeps == ASSUME NEW t \in Thread, IInv, MoveThrows(t) PROVE IInv'
<1> USE NullsDistinct DEF MoveThrows, Goto, Finish, IInv
<1>1. TypeOK'
  BY DEF TypeOK, PCs, Ops, memory, locks
<1>2. Ownership'
  BY DEF TypeOK, Ownership, memory, locks
<1>3. Locked'
  BY DEF TypeOK, Locked, memory, locks
<1>4. PushLocal' /\ PopLocal'
  <2>1. pc' = [pc EXCEPT ![t] = "idle"] /\ UNCHANGED <<memory, arg, node>>
    BY DEF memory
  <2>2. IInv
    OBVIOUS
  <2> HIDE DEF MoveThrows, Goto, Finish, IInv
  <2> QED BY <2>1, <2>2, LocalsUntouched
<1> QED BY <1>1, <1>2, <1>3, <1>4, ListUntouched DEF memory

LEMMA NotifyKeeps == ASSUME NEW t \in Thread, IInv, Notify(t) PROVE IInv'
<1> USE NullsDistinct DEF Notify, Goto, Blocked, IInv
<1>0. \A u \in Thread : pc'[u] = pc[u] \/ pc'[u] \in {"idle", "lock head"}
  BY DEF TypeOK
<1>1. TypeOK'
  BY DEF TypeOK, PCs, Ops, memory, locks
<1>2. Ownership'
  <2>1. /\ UNCHANGED <<node, live>>
        /\ \A u \in Thread : \/ pc'[u] = pc[u]
                             \/ /\ pc'[u] \in {"idle", "lock head"}
                                /\ pc[u] \in {"notify", "blocked"}
    BY DEF TypeOK, memory
  <2>2. \A u \in Thread : node[u] # NoNode <=> pc'[u] \in {"lock tail", "store", "advance", "unlinked"}
    BY <2>1 DEF Ownership
  <2>3. \A u \in Thread : node[u] # NoNode => node[u] \in live
    BY DEF Ownership
  <2>4. \A u, w \in Thread : node[u] = node[w] /\ u # w => node[u] = NoNode
    BY DEF Ownership
  <2> QED BY <2>1, <2>2, <2>3, <2>4 DEF Ownership
<1>3. Locked'
  BY DEF TypeOK, Locked, memory, locks
<1>4. PushLocal' /\ PopLocal'
  BY <1>0 DEF PushLocal, PopLocal, memory
<1> QED BY <1>1, <1>2, <1>3, <1>4, ListUntouched DEF memory

LEMMA CallKeeps == ASSUME NEW t \in Thread, NEW o \in Ops, IInv, Call(t, o) PROVE IInv'
<1> USE NullsDistinct DEF Call, Goto, IInv
<1>1. TypeOK'
  BY DEF TypeOK, PCs, Ops, memory, locks
<1>2. Ownership'
  BY DEF TypeOK, Ownership, memory, locks
<1>3. Locked'
  BY DEF TypeOK, Locked, memory, locks
<1>4. PushLocal' /\ PopLocal'
  <2>1. pc' = [pc EXCEPT ![t] = "lock head"] /\ UNCHANGED <<memory, arg, node>>
    BY DEF memory
  <2>2. IInv
    OBVIOUS
  <2> HIDE DEF Call, Goto, IInv
  <2> QED BY <2>1, <2>2, LocalsUntouched
<1> QED BY <1>1, <1>2, <1>3, <1>4, ListUntouched DEF memory

LEMMA CallPushKeeps ==
  ASSUME NEW t \in Thread, NEW v \in Value, IInv, CallPush(t, v) PROVE IInv'
<1> USE NullsDistinct DEF IInv
<1> PICK n \in Node \ live :
         /\ live' = live \cup {n}
         /\ next' = [next EXCEPT ![n] = NoNode]
         /\ data' = [data EXCEPT ![n] = NoValue]
         /\ node' = [node EXCEPT ![t] = n]
  BY DEF CallPush
<1>a. /\ pc[t] = "idle" /\ pc' = [pc EXCEPT ![t] = "lock tail"]
      /\ arg' = [arg EXCEPT ![t] = v]
      /\ UNCHANGED <<head, tail, headMutex, tailMutex>>
  BY DEF CallPush, Goto, locks
<1>b. /\ op' = [op EXCEPT ![t] = "push"]
      /\ answer' = [answer EXCEPT ![t] = "undecided"]
  BY DEF CallPush
<1>1. TypeOK'
  BY <1>a, <1>b DEF TypeOK, PCs, Ops
<1>2. \A u \in Thread :
         /\ u = t => node[u] = NoNode /\ node'[u] = n
         /\ u # t => node[u] # n /\ node'[u] = node[u] /\ pc'[u] = pc[u]
  <2>1. \A u \in Thread : node[u] # n
    BY DEF Ownership
  <2>2. node[t] = NoNode
    BY <1>a DEF Ownership
  <2> QED BY <2>1, <2>2, <1>a DEF TypeOK
<1>11. Ownership'
  BY <1>a, <1>2 DEF TypeOK, Ownership
<1>3. Locked'
  BY <1>a DEF TypeOK, Locked
<1>4. Linked' = Linked
  <2>1. n \notin Linked' /\ n \notin Linked
    BY <1>2 DEF Linked
  <2>2. \A x \in live : (\A u \in Thread : node'[u] # x) <=> (\A u \in Thread : node[u] # x)
    <3>1. n \notin live /\ NoNode \notin live
      BY DEF TypeOK
    <3> QED BY <1>2, <3>1
  <2>3. \A x : x \in Linked' <=> x \in Linked
    BY <2>1, <2>2 DEF Linked
  <2> QED BY <2>3
<1>5. \A x \in Node : x # n => next'[x] = next[x] /\ data'[x] = data[x]
  BY DEF TypeOK
<1>6. n \notin Linked /\ Linked \subseteq Node
  BY DEF Linked, TypeOK
<1>7. ListIntact'
  <2>1. \A x \in Linked : next'[x] = next[x] /\ data'[x] = data[x]
    BY <1>5, <1>6
  <2> QED BY <2>1, <1>a, <1>4, ListKept
<1>8. \A u \in Thread \ {t} : pc'[u] = pc[u] /\ arg'[u] = arg[u] /\ node'[u] = node[u]
  BY <1>a DEF TypeOK
<1>9. PushLocal'
  <2> SUFFICES ASSUME NEW u \in Thread
               PROVE  /\ pc'[u] \in {"lock tail", "store"} => arg'[u] \in Value
                      /\ pc'[u] = "advance" => next'[tail] = node'[u] /\ data'[tail] \in Value
    BY <1>a DEF PushLocal
  <2>1. CASE u = t
    BY <2>1, <1>a DEF TypeOK
  <2>2. CASE u # t
    BY <2>2, <1>5, <1>6, <1>8 DEF PushLocal, TypeOK, ListIntact
  <2> QED BY <2>1, <2>2
<1>10. PopLocal'
  <2> SUFFICES ASSUME NEW u \in Thread
               PROVE  /\ pc'[u] = "pop" => head # tail
                      /\ pc'[u] = "unlinked" => data'[node'[u]] \in Value
                                               /\ next'[node'[u]] = NoNode
    BY <1>a DEF PopLocal
  <2>1. CASE u = t
    BY <2>1, <1>a DEF TypeOK
  <2>2. CASE u # t
    <3>1. pc[u] = "unlinked" => node[u] \in Node /\ node[u] # n
      BY <2>2, <1>2 DEF TypeOK, Ownership
    <3>2. pc'[u] = pc[u] /\ node'[u] = node[u]
      BY <2>2, <1>8
    <3> QED BY <3>1, <3>2, <1>5 DEF PopLocal
  <2> QED BY <2>1, <2>2
<1> QED BY <1>1, <1>11, <1>3, <1>7, <1>9, <1>10

LEMMA StoreKeeps == ASSUME NEW t \in Thread, IInv, Store(t) PROVE IInv'
<1> USE NullsDistinct DEF Store, Goto, IInv
<1>1. TypeOK'
  BY DEF TypeOK, PCs, PushLocal, locks
<1>2. Ownership'
  BY DEF TypeOK, Ownership
<1>3. Locked'
  BY DEF TypeOK, Locked, locks
<1>4. \A x \in Node : x # tail => next'[x] = next[x] /\ data'[x] = data[x]
  BY DEF TypeOK
<1>5. Linked' = Linked /\ tail \in Linked /\ Linked \subseteq Node
  BY DEF Linked, TypeOK, ListIntact
<1>6. ListIntact'
  <2>1. \A x \in Linked \ {tail} : next'[x] = next[x] /\ data'[x] = data[x]
    BY <1>4, <1>5
  <2>2. UNCHANGED <<head, tail>>
    OBVIOUS
  <2> QED BY <2>1, <2>2, <1>5, ListKept
<1>7. \A u \in Thread \ {t} : pc'[u] = pc[u] /\ arg'[u] = arg[u]
  BY DEF TypeOK
<1>8. PushLocal'
  <2> SUFFICES ASSUME NEW u \in Thread
               PROVE  /\ pc'[u] \in {"lock tail", "store"} => arg'[u] \in Value
                      /\ pc'[u] = "advance" => next'[tail] = node[u] /\ data'[tail] \in Value
    BY DEF PushLocal
  <2>1. CASE u = t
    BY <2>1 DEF TypeOK, PushLocal
  <2>2. CASE u # t
    BY <2>2, <1>7 DEF PushLocal, Locked
  <2> QED BY <2>1, <2>2
<1>9. PopLocal'
  <2> SUFFICES ASSUME NEW u \in Thread
               PROVE  /\ pc'[u] = "pop" => head # tail
                      /\ pc'[u] = "unlinked" => data'[node[u]] \in Value
                                               /\ next'[node[u]] = NoNode
    BY DEF PopLocal
  <2>1. CASE u = t
    BY <2>1 DEF TypeOK
  <2>2. CASE u # t
    <3>1. pc[u] = "unlinked" => node[u] \in Node /\ node[u] # tail
      BY <1>5 DEF TypeOK, Ownership, Linked
    <3>2. pc'[u] = pc[u]
      BY <2>2, <1>7
    <3> QED BY <3>1, <3>2, <1>4 DEF PopLocal
  <2> QED BY <2>1, <2>2
<1> QED BY <1>1, <1>2, <1>3, <1>6, <1>8, <1>9

\* The node a thread gives away joins the list.
LEMMA LinkedGrows ==
  ASSUME IInv, NEW t \in Thread, node[t] # NoNode, node' = [node EXCEPT ![t] = NoNode],
         UNCHANGED live
  PROVE  Linked' = Linked \cup {node[t]} /\ node[t] \notin Linked
<1>1. \A u \in Thread : node'[u] = IF u = t THEN NoNode ELSE node[u]
  BY DEF IInv, TypeOK
<1>2. node[t] \in live /\ \A u \in Thread : u # t => node[u] # node[t]
  BY DEF IInv, Ownership
<1>3. NoNode \notin live
  BY NullsDistinct DEF IInv, TypeOK
<1> QED BY <1>1, <1>2, <1>3 DEF Linked

LEMMA AdvanceKeeps == ASSUME NEW t \in Thread, IInv, Advance(t) PROVE IInv'
<1> USE NullsDistinct DEF Advance, Goto, IInv
<1>1. TypeOK'
  BY DEF TypeOK, PCs, Ownership
<1>2. Ownership'
  BY DEF TypeOK, Ownership
<1>3. Locked'
  BY DEF TypeOK, Locked
<1>4. Linked' = Linked \cup {node[t]} /\ node[t] \notin Linked
  BY LinkedGrows DEF memory, Ownership
<1>5. next[tail] = node[t] /\ data[tail] \in Value
  BY DEF PushLocal
<1>6. ListIntact'
  <2>1. /\ head' \in Linked' /\ tail' \in Linked'
        /\ Linked' \ {tail'} = Linked
    BY <1>4 DEF ListIntact
  <2>2. \A x \in Linked : data'[x] \in Value /\ next'[x] \in Linked' \ {head'}
    BY <1>4, <1>5 DEF ListIntact
  <2>3. \A x, y \in Linked : next'[x] = next'[y] => x = y
    BY <1>4, <1>5 DEF ListIntact
  <2> QED BY <2>1, <2>2, <2>3 DEF ListIntact
<1>7. \A u \in Thread \ {t} : pc'[u] = pc[u] /\ node'[u] = node[u]
  BY DEF TypeOK
<1>8. \A u \in Thread : pc'[u] \notin {"store", "advance"}
  BY <1>7 DEF TypeOK, Locked
<1>9. PushLocal' /\ PopLocal'
  <2>1. tail' # head'
    BY <1>4 DEF ListIntact
  <2>2. PushLocal'
    BY <1>7, <1>8 DEF PushLocal, TypeOK
  <2>3. PopLocal'
    BY <2>1, <1>7 DEF PopLocal, TypeOK
  <2> QED BY <2>2, <2>3
<1> QED BY <1>1, <1>2, <1>3, <1>6, <1>9

LEMMA UnlinkKeeps == ASSUME NEW t \in Thread, IInv, Unlink(t) PROVE IInv'
<1> USE NullsDistinct DEF Unlink, Goto, IInv
<1>0. /\ head # tail /\ head \in Linked /\ next[head] \in Linked \ {head}
      /\ data[head] \in Value /\ tail \in Linked /\ Linked \subseteq Node
  BY DEF PopLocal, ListIntact, Linked, TypeOK
<1>1. TypeOK'
  BY <1>0 DEF TypeOK, PCs, Linked
<1>2. Ownership'
  BY <1>0 DEF TypeOK, Ownership, Linked
<1>3. Locked'
  BY DEF TypeOK, Locked
<1>4. Linked' = Linked \ {head}
  BY <1>0 DEF TypeOK, Ownership, Linked
<1>5. \A x \in Node : x # head => next'[x] = next[x]
  BY DEF TypeOK
<1>6. ListIntact'
  <2>1. head' \in Linked' /\ tail' \in Linked'
    BY <1>0, <1>4
  <2>2. \A x \in Linked' \ {tail'} : data'[x] \in Value /\ next'[x] \in Linked' \ {head'}
    <3> SUFFICES ASSUME NEW x \in Linked \ {head, tail}
                 PROVE  data[x] \in Value /\ next'[x] \in Linked \ {head, next[head]}
      BY <1>4
    <3>1. next'[x] = next[x]
      BY <1>0, <1>5
    <3> QED BY <3>1, <1>0 DEF ListIntact
  <2>3. \A x, y \in Linked' \ {tail'} : next'[x] = next'[y] => x = y
    BY <1>0, <1>4, <1>5 DEF ListIntact
  <2> QED BY <2>1, <2>2, <2>3 DEF ListIntact
<1>7. \A u \in Thread \ {t} : pc'[u] = pc[u] /\ node'[u] = node[u]
  BY DEF TypeOK
<1>8. PushLocal'
  <2> SUFFICES ASSUME NEW u \in Thread
               PROVE  /\ pc'[u] \in {"lock tail", "store"} => arg[u] \in Value
                      /\ pc'[u] = "advance" => next'[tail] = node'[u] /\ data[tail] \in Value
    BY DEF PushLocal
  <2>1. CASE u = t
    BY <2>1 DEF TypeOK
  <2>2. CASE u # t
    BY <2>2, <1>0, <1>5, <1>7 DEF PushLocal
  <2> QED BY <2>1, <2>2
<1>9. PopLocal'
  <2> SUFFICES ASSUME NEW u \in Thread
               PROVE  /\ pc'[u] = "pop" => head' # tail
                      /\ pc'[u] = "unlinked" => data[node'[u]] \in Value
                                               /\ next'[node'[u]] = NoNode
    BY DEF PopLocal
  <2>1. CASE u = t
    BY <2>1, <1>0 DEF TypeOK
  <2>2. CASE u # t
    <3>1. pc[u] # "pop"
      BY <2>2 DEF Locked
    <3>2. pc[u] = "unlinked" => node[u] \in Node \ {head}
      BY <1>0 DEF TypeOK, Ownership, Linked
    <3> QED BY <2>2, <3>1, <3>2, <1>5, <1>7 DEF PopLocal
  <2> QED BY <2>1, <2>2
<1> QED BY <1>1, <1>2, <1>3, <1>6, <1>8, <1>9

LEMMA ReturnKeeps == ASSUME NEW t \in Thread, IInv, Return(t) PROVE IInv'
<1> USE NullsDistinct DEF Return, Finish, Goto, IInv
<1>1. TypeOK'
  BY DEF TypeOK, PCs, Ops, PopLocal, locks
<1>2. Ownership'
  BY DEF TypeOK, Ownership
<1>3. Locked'
  BY DEF TypeOK, Locked, locks
<1>4. PushLocal' /\ PopLocal'
  BY DEF TypeOK, PushLocal, PopLocal, Ownership
<1>5. Linked' = Linked
  <2>1. node[t] \notin Linked
    BY DEF Linked
  <2>2. \A u \in Thread : node'[u] = IF u = t THEN NoNode ELSE node[u]
    BY DEF TypeOK
  <2>3. live' = live \ {node[t]} /\ NoNode \notin live
    BY DEF TypeOK
  <2> QED BY <2>1, <2>2, <2>3 DEF Linked
<1>6. ListIntact'
  BY <1>5 DEF ListIntact
<1> QED BY <1>1, <1>2, <1>3, <1>4, <1>6

LEMMA NextKeeps == IInv /\ [Next]_vars => IInv'
<1> SUFFICES ASSUME IInv, [Next]_vars PROVE IInv'
  OBVIOUS
<1>1. CASE UNCHANGED vars
  <2> USE <1>1 DEF vars, memory, locks, frame, IInv
  <2>1. TypeOK' /\ Ownership' /\ Locked'
    BY DEF TypeOK, Ownership, Locked
  <2>2. PushLocal' /\ PopLocal' /\ ListIntact'
    BY ListUntouched DEF PushLocal, PopLocal
  <2> QED BY <2>1, <2>2
<1>2. CASE Next
  BY <1>2, LockTailKeeps, LockHeadKeeps, CheckWaitKeeps, CheckReturnKeeps, CheckPopKeeps,
     SleepKeeps, SpuriousWakeKeeps, MoveThrowsKeeps, NotifyKeeps, CallKeeps, CallPushKeeps,
     StoreKeeps, AdvanceKeeps, UnlinkKeeps, ReturnKeeps DEF Next, Proceed
<1> QED BY <1>1, <1>2

-----------------------------------------------------------------------------
\* Every variable stays in its range: in particular no operation ever
\* dereferences a null head or tail, whatever the interleaving.
THEOREM TypeCorrect == Spec => []TypeOK
<1>1. IInv => TypeOK
  BY DEF IInv
<1> QED BY <1>1, InitIInv, NextKeeps, PTL DEF Spec

\* Pushers under tail_mutex and poppers under head_mutex keep the list intact.
THEOREM ListStaysIntact == Spec => []ListIntact
<1>1. IInv => ListIntact
  BY DEF IInv
<1> QED BY <1>1, InitIInv, NextKeeps, PTL DEF Spec

\* No pop ever takes the dummy node or a node that another thread owns.
THEOREM PopsTakeData == Spec => []PoppedHasData
<1>1. IInv => PoppedHasData
  BY DEF IInv, PoppedHasData, PopLocal, Ownership
<1> QED BY <1>1, InitIInv, NextKeeps, PTL DEF Spec

-----------------------------------------------------------------------------
(* Nothing is lost: next leads along the nodes pushed and not yet popped. *)

\* The nodes of the history variable are different ones.
ChainOK == /\ chain \in Seq(Node)
           /\ NothingLost
           /\ \A i, j \in 1 .. Len(chain) : chain[i] = chain[j] => i = j

LEMMA ChainFacts ==
  ASSUME ChainOK
  PROVE  /\ Len(chain) \in Nat \ {0} /\ DOMAIN chain = 1 .. Len(chain)
         /\ \A i \in 1 .. Len(chain) : chain[i] \in Linked
         /\ \A x \in Linked : \E i \in 1 .. Len(chain) : x = chain[i]
         /\ \A i \in 1 .. Len(chain) - 1 : chain[i] # tail
<1>1. Len(chain) \in Nat \ {0} /\ DOMAIN chain = 1 .. Len(chain)
  BY EmptySeq, LenProperties DEF ChainOK, NothingLost
<1>2. Range(chain) = {chain[i] : i \in 1 .. Len(chain)}
  BY <1>1 DEF Range
<1>3. /\ \A i \in 1 .. Len(chain) : chain[i] \in Linked
      /\ \A x \in Linked : \E i \in 1 .. Len(chain) : x = chain[i]
  BY <1>2 DEF ChainOK, NothingLost
<1>4. \A i \in 1 .. Len(chain) - 1 : chain[i] # tail
  BY <1>1 DEF ChainOK, NothingLost
<1> QED BY <1>1, <1>3, <1>4

LEMMA InitChain == Init => ChainOK
<1> SUFFICES ASSUME Init PROVE ChainOK
  OBVIOUS
<1> PICK n \in Node : head = n /\ tail = n /\ live = {n} /\ chain = <<n>>
  BY DEF Init
<1>1. chain \in Seq(Node) /\ Len(chain) = 1 /\ chain[1] = n /\ DOMAIN chain = {1}
  OBVIOUS
<1>2. Range(chain) = {n}
  BY <1>1 DEF Range
<1>3. Linked = {n}
  BY NullsDistinct DEF Init, Linked
<1>4. chain # <<>>
  BY <1>1
<1> QED BY <1>1, <1>2, <1>3, <1>4 DEF ChainOK, NothingLost

\* The chain stays when the same nodes are linked, and linked in the same way.
LEMMA ChainKept ==
  ASSUME ChainOK, UNCHANGED <<chain, head, tail>>, Linked' = Linked,
         \A x \in Linked \ {tail} : next'[x] = next[x]
  PROVE  ChainOK'
<1>1. \A i \in 1 .. Len(chain) - 1 : next'[chain[i]] = next[chain[i]]
  BY ChainFacts
<1> QED BY <1>1 DEF ChainOK, NothingLost

LEMMA AdvanceChain == ASSUME NEW t \in Thread, IInv, ChainOK, Advance(t) PROVE ChainOK'
<1> DEFINE k == Len(chain)
<1>0. /\ tail' = node[t] /\ chain' = Append(chain, node[t]) /\ UNCHANGED <<head, next, live>>
      /\ node' = [node EXCEPT ![t] = NoNode] /\ pc[t] = "advance" /\ node[t] \in Node
  BY NullsDistinct DEF Advance, IInv, Ownership, TypeOK
<1>1. Linked' = Linked \cup {node[t]} /\ node[t] \notin Linked
  BY <1>0, LinkedGrows, NullsDistinct
<1>2. next[tail] = node[t]
  BY <1>0 DEF IInv, PushLocal
<1>3. /\ chain' \in Seq(Node) /\ Len(chain') = k + 1 /\ chain'[k + 1] = node[t]
      /\ \A i \in 1 .. k : chain'[i] = chain[i]
  BY <1>0, AppendProperties DEF ChainOK
<1>4. k \in Nat \ {0} /\ DOMAIN chain' = 1 .. k + 1
  BY <1>3, ChainFacts, LenProperties
<1>5. Range(chain') = Linked'
  <2>1. Range(chain') = {chain'[i] : i \in 1 .. k + 1}
    BY <1>4 DEF Range
  <2>2. \A i \in 1 .. k + 1 : chain'[i] \in Linked'
    BY <1>1, <1>3, <1>4, ChainFacts
  <2>3. \A x \in Linked' : \E i \in 1 .. k + 1 : x = chain'[i]
    <3> SUFFICES ASSUME NEW x \in Linked' PROVE \E i \in 1 .. k + 1 : x = chain'[i]
      OBVIOUS
    <3>1. CASE x = node[t]
      BY <3>1, <1>3, <1>4
    <3>2. CASE x \in Linked
      BY <3>2, <1>3, <1>4, ChainFacts
    <3> QED BY <3>1, <3>2, <1>1
  <2> QED BY <2>1, <2>2, <2>3
<1>6. chain' # <<>> /\ head' = chain'[1] /\ tail' = chain'[Len(chain')]
  BY <1>0, <1>3, <1>4 DEF ChainOK, NothingLost
<1>7. \A i \in 1 .. Len(chain') - 1 : next'[chain'[i]] = chain'[i + 1]
  BY <1>0, <1>2, <1>3, <1>4 DEF ChainOK, NothingLost
<1>8. \A i, j \in 1 .. Len(chain') : chain'[i] = chain'[j] => i = j
  BY <1>1, <1>3, <1>4, ChainFacts DEF ChainOK
<1> QED BY <1>3, <1>5, <1>6, <1>7, <1>8 DEF ChainOK, NothingLost

LEMMA UnlinkChain == ASSUME NEW t \in Thread, IInv, ChainOK, Unlink(t) PROVE ChainOK'
<1> DEFINE k == Len(chain)
<1>0. /\ head' = next[head] /\ chain' = Tail(chain) /\ UNCHANGED <<tail, live>>
      /\ node' = [node EXCEPT ![t] = head] /\ next' = [next EXCEPT ![head] = NoNode]
      /\ head # tail /\ head \in Node
  BY DEF Unlink, IInv, PopLocal, TypeOK
<1>1. Linked' = Linked \ {head}
  <2>1. head \in Linked /\ node[t] = NoNode
    BY DEF Unlink, IInv, Ownership, ListIntact
  <2>2. \A u \in Thread : node'[u] = IF u = t THEN head ELSE node[u]
    BY <1>0 DEF IInv, TypeOK
  <2>3. NoNode \notin live
    BY NullsDistinct DEF IInv, TypeOK
  <2> QED BY <2>1, <2>2, <2>3, <1>0 DEF Linked
<1>2. k \in Nat /\ k > 1
  BY <1>0, ChainFacts DEF ChainOK, NothingLost
<1>3. /\ chain' \in Seq(Node) /\ Len(chain') = k - 1
      /\ \A i \in 1 .. k - 1 : chain'[i] = chain[i + 1]
  BY <1>0, HeadTailProperties DEF ChainOK, NothingLost
<1>4. DOMAIN chain' = 1 .. k - 1
  BY <1>3, LenProperties
<1>5. \A i \in 2 .. k : chain[i] # head
  BY <1>2 DEF ChainOK, NothingLost
<1>6. Range(chain') = Linked'
  <2>1. Range(chain') = {chain'[i] : i \in 1 .. k - 1}
    BY <1>4 DEF Range
  <2>2. \A i \in 1 .. k - 1 : chain'[i] \in Linked'
    BY <1>1, <1>2, <1>3, <1>5, ChainFacts
  <2>3. \A x \in Linked' : \E i \in 1 .. k - 1 : x = chain'[i]
    <3> SUFFICES ASSUME NEW x \in Linked, x # head PROVE \E i \in 1 .. k - 1 : x = chain'[i]
      BY <1>1
    <3>1. PICK j \in 1 .. k : x = chain[j]
      BY ChainFacts
    <3>2. j # 1
      BY <3>1 DEF ChainOK, NothingLost
    <3>3. j - 1 \in 1 .. k - 1 /\ x = chain'[j - 1]
      BY <3>1, <3>2, <1>2, <1>3
    <3> QED BY <3>3
  <2> QED BY <2>1, <2>2, <2>3
<1>7. head' = chain'[1] /\ tail' = chain'[Len(chain')]
  BY <1>0, <1>2, <1>3 DEF ChainOK, NothingLost
<1>8. \A i \in 1 .. Len(chain') - 1 : next'[chain'[i]] = chain'[i + 1]
  <2> SUFFICES ASSUME NEW i \in 1 .. k - 2 PROVE next'[chain'[i]] = chain'[i + 1]
    BY <1>2, <1>3
  <2>1. chain'[i] = chain[i + 1] /\ chain'[i + 1] = chain[i + 2] /\ chain[i + 1] # head
    BY <1>2, <1>3, <1>5
  <2>2. next[chain[i + 1]] = chain[i + 2] /\ chain[i + 1] \in Node
    BY <1>2, ElementOfSeq DEF ChainOK, NothingLost
  <2> QED BY <2>1, <2>2, <1>0 DEF IInv, TypeOK
<1>9. \A i, j \in 1 .. Len(chain') : chain'[i] = chain'[j] => i = j
  <2> SUFFICES ASSUME NEW i \in 1 .. k - 1, NEW j \in 1 .. k - 1, chain'[i] = chain'[j]
               PROVE  i = j
    BY <1>3
  <2>1. chain[i + 1] = chain[j + 1] /\ i + 1 \in 1 .. k /\ j + 1 \in 1 .. k
    BY <1>2, <1>3
  <2> QED BY <2>1 DEF ChainOK
<1>10. chain' # <<>>
  BY <1>2, <1>3
<1> QED BY <1>3, <1>6, <1>7, <1>8, <1>9, <1>10 DEF ChainOK, NothingLost

LEMMA CallPushChain ==
  ASSUME NEW t \in Thread, NEW v \in Value, IInv, ChainOK, CallPush(t, v) PROVE ChainOK'
<1> PICK n \in Node \ live :
         /\ live' = live \cup {n}
         /\ next' = [next EXCEPT ![n] = NoNode]
         /\ node' = [node EXCEPT ![t] = n]
  BY DEF CallPush
<1>1. pc[t] = "idle" /\ UNCHANGED <<chain, head, tail>>
  BY DEF CallPush
<1>2. Linked' = Linked /\ n \notin Linked /\ Linked \subseteq Node
  <2>1. node[t] = NoNode /\ \A u \in Thread : node[u] # n
    BY <1>1, NullsDistinct DEF IInv, Ownership
  <2>2. node'[t] = n /\ \A u \in Thread : u # t => node'[u] = node[u]
    BY DEF IInv, TypeOK
  <2>3. n \notin Linked' /\ n \notin Linked
    BY <2>2 DEF Linked
  <2>4. \A x \in live : (\A u \in Thread : node'[u] # x) <=> (\A u \in Thread : node[u] # x)
    <3>1. n \notin live /\ NoNode \notin live
      BY NullsDistinct DEF IInv, TypeOK
    <3> QED BY <2>1, <2>2, <3>1
  <2>5. \A x : x \in Linked' <=> x \in Linked
    BY <2>3, <2>4 DEF Linked
  <2>6. Linked \subseteq Node
    BY DEF Linked, IInv, TypeOK
  <2> QED BY <2>3, <2>5, <2>6
<1>3. \A x \in Linked : next'[x] = next[x]
  BY <1>2 DEF IInv, TypeOK
<1> QED BY <1>1, <1>2, <1>3, ChainKept

LEMMA ReturnChain == ASSUME NEW t \in Thread, IInv, ChainOK, Return(t) PROVE ChainOK'
<1>1. /\ UNCHANGED <<chain, head, tail, next>> /\ live' = live \ {node[t]}
      /\ node' = [node EXCEPT ![t] = NoNode] /\ node[t] # NoNode
  BY DEF Return, IInv, Ownership
<1>2. Linked' = Linked
  <2>1. node[t] \notin Linked
    BY DEF Linked
  <2>2. \A x \in live' : (\A u \in Thread : node'[u] # x) <=> (\A u \in Thread : node[u] # x)
    BY <1>1, NullsDistinct DEF IInv, TypeOK, Ownership
  <2> QED BY <1>1, <2>1, <2>2 DEF Linked
<1> QED BY <1>1, <1>2, ChainKept

LEMMA StoreChain == ASSUME NEW t \in Thread, IInv, ChainOK, Store(t) PROVE ChainOK'
<1>1. UNCHANGED <<chain, head, tail, live, node>> /\ next' = [next EXCEPT ![tail] = node[t]]
  BY DEF Store
<1>2. Linked' = Linked /\ Linked \subseteq Node
  BY <1>1 DEF Linked, IInv, TypeOK
<1>3. \A x \in Linked \ {tail} : next'[x] = next[x]
  BY <1>1, <1>2 DEF IInv, TypeOK
<1> QED BY <1>1, <1>2, <1>3, ChainKept

LEMMA NextChain == IInv /\ ChainOK /\ [Next]_vars => ChainOK'
<1> SUFFICES ASSUME IInv, ChainOK, [Next]_vars PROVE ChainOK'
  OBVIOUS
<1>1. ASSUME UNCHANGED <<chain, head, tail, next, live, node>> PROVE ChainOK'
  <2>1. Linked' = Linked
    BY <1>1 DEF Linked
  <2> QED BY <2>1, <1>1, ChainKept
<1>2. CASE UNCHANGED vars
  BY <1>1, <1>2 DEF vars, memory, frame
<1>3. ASSUME NEW t \in Thread, SpuriousWake(t) \/ MoveThrows(t) PROVE ChainOK'
  BY <1>1, <1>3 DEF SpuriousWake, MoveThrows, memory
<1>4. ASSUME NEW t \in Thread, NEW o \in Ops, Call(t, o) PROVE ChainOK'
  BY <1>1, <1>4 DEF Call, memory
<1>5. ASSUME NEW t \in Thread, Proceed(t) PROVE ChainOK'
  <2>1. CASE LockTail(t) \/ LockHead(t) \/ Notify(t) \/ CheckWait(t) \/ CheckReturn(t)
                \/ CheckPop(t) \/ Sleep(t)
    BY <2>1, <1>1 DEF LockTail, LockHead, Notify, CheckWait, CheckReturn, CheckPop, Sleep, memory
  <2> QED BY <2>1, <1>5, StoreChain, AdvanceChain, UnlinkChain, ReturnChain DEF Proceed
<1>6. CASE Next
  BY <1>3, <1>4, <1>5, <1>6, CallPushChain DEF Next
<1> QED BY <1>2, <1>6

\* Whatever pushers and poppers do at either end: following next from head to tail meets
\* the nodes pushed and not yet popped, and every other allocated node is owned.
THEOREM NeverLoses == Spec => []NothingLost
<1>1. ChainOK => NothingLost
  BY DEF ChainOK
<1> QED BY <1>1, InitIInv, InitChain, NextKeeps, NextChain, PTL DEF Spec

-----------------------------------------------------------------------------
(* The queue implements the atomic FIFO queue. *)

\* What a call has found is not decided before it has unlinked a node or returns.
Undecideds == \A t \in Thread :
    pc[t] \in {"lock head", "check", "sleep", "blocked", "pop"} => answer[t] = "undecided"

LEMMA NextUndecided == IInv /\ Undecideds /\ [Next]_vars => Undecideds'
<1> SUFFICES ASSUME IInv, Undecideds, [Next]_vars, NEW u \in Thread,
                    pc'[u] \in {"lock head", "check", "sleep", "blocked", "pop"}
             PROVE  answer'[u] = "undecided"
  BY DEF Undecideds
<1> USE DEF Undecideds, Goto, Finish, IInv, TypeOK
<1>1. CASE UNCHANGED vars
  BY <1>1 DEF vars, frame
<1>2. ASSUME NEW t \in Thread, NEW v \in Value, CallPush(t, v) PROVE answer'[u] = "undecided"
  BY <1>2 DEF CallPush
<1>3. ASSUME NEW t \in Thread, NEW o \in Ops, Call(t, o) PROVE answer'[u] = "undecided"
  BY <1>3 DEF Call
<1>4. ASSUME NEW t \in Thread, SpuriousWake(t) \/ MoveThrows(t) PROVE answer'[u] = "undecided"
  BY <1>4 DEF SpuriousWake, MoveThrows
<1>5. ASSUME NEW t \in Thread, Proceed(t) PROVE answer'[u] = "undecided"
  <2>1. CASE LockTail(t) \/ Store(t) \/ Advance(t) \/ LockHead(t)
    BY <2>1 DEF LockTail, Store, Advance, LockHead
  <2>2. CASE Notify(t)
    BY <2>2 DEF Notify, Blocked
  <2>3. CASE CheckWait(t) \/ CheckReturn(t) \/ CheckPop(t) \/ Sleep(t)
    BY <2>3 DEF CheckWait, CheckReturn, CheckPop, Sleep
  <2>4. CASE Unlink(t) \/ Return(t)
    BY <2>4 DEF Unlink, Return
  <2> QED BY <1>5, <2>1, <2>2, <2>3, <2>4 DEF Proceed
<1> QED BY <1>1, <1>2, <1>3, <1>4, <1>5 DEF Next

\* The results that callers will see.
Answered == [t \in Thread |-> Result(t)]

LEMMA FifoVars == Fifo!vars = <<Items, Answered>>
  BY DEF Fifo!vars, Answered

LEMMA InitMaps == Init => Fifo!Init
<1> SUFFICES ASSUME Init PROVE Fifo!Init
  OBVIOUS
<1>1. Items = <<>>
  <2>1. Len(chain) = 1
    BY DEF Init
  <2> QED BY <2>1 DEF Items
<1>2. \A t \in Thread : Result(t) = "undecided"
  BY DEF Init, Result
<1> QED BY <1>1, <1>2 DEF Fifo!Init, Fifo!Undecided

LEMMA ItemFacts ==
  ASSUME IInv, ChainOK
  PROVE  /\ Items \in Seq(Value) /\ Len(Items) = Len(chain) - 1
         /\ \A i \in 1 .. Len(chain) - 1 : Items[i] = data[chain[i]]
         /\ Items = <<>> <=> head = tail
         /\ head # tail => Items # <<>> /\ Head(Items) = data[head]
<1> DEFINE k == Len(chain)
<1>1. k \in Nat \ {0}
  BY ChainFacts
<1>2. \A i \in 1 .. k - 1 : data[chain[i]] \in Value
  BY <1>1, ChainFacts DEF IInv, ListIntact
<1>3. Items = [i \in 1 .. k - 1 |-> data[chain[i]]] /\ k - 1 \in Nat
  BY <1>1 DEF Items
<1>4. Items \in Seq(Value) /\ Len(Items) = k - 1
  BY <1>2, <1>3, SeqDef
<1>5. Items = <<>> <=> k = 1
  <2>1. Items = <<>> => Len(Items) = 0
    OBVIOUS
  <2>2. Items # <<>> => Len(Items) # 0
    BY <1>4, EmptySeq
  <2> QED BY <2>1, <2>2, <1>1, <1>4
<1>6. head = tail <=> k = 1
  <2>1. head = chain[1] /\ tail = chain[k] /\ 1 \in 1 .. k /\ k \in 1 .. k
    BY <1>1 DEF ChainOK, NothingLost
  <2>2. chain[1] = chain[k] => k = 1
    BY <2>1 DEF ChainOK
  <2> QED BY <2>1, <2>2
<1>7. head # tail => Head(Items) = data[head]
  <2> SUFFICES ASSUME head # tail PROVE Head(Items) = data[head]
    OBVIOUS
  <2>1. Items # <<>>
    BY <1>5, <1>6
  <2>2. 1 \in 1 .. k - 1
    <3>1. \A m \in Nat : m # 0 => 1 \in 1 .. m
      OBVIOUS
    <3>2. k - 1 # 0
      BY <2>1, <1>1, <1>5
    <3> QED BY <3>1, <3>2, <1>3
  <2>3. Items[1] = data[chain[1]] /\ chain[1] = head
    BY <1>3, <2>2 DEF ChainOK, NothingLost
  <2> QED BY <1>4, <2>1, <2>3
<1> QED BY <1>3, <1>4, <1>5, <1>6, <1>7

\* The values in the queue stay the same when no node before the tail is touched.
LEMMA ItemsKept ==
  ASSUME ChainOK, UNCHANGED chain, \A x \in Linked \ {tail} : data'[x] = data[x]
  PROVE  Items' = Items
<1>1. \A i \in 1 .. Len(chain) - 1 : data'[chain[i]] = data[chain[i]]
  BY ChainFacts
<1> QED BY <1>1 DEF Items

\* A step that decides nothing.
LEMMA Stutters ==
  ASSUME Items' = Items, \A u \in Thread : Result(u)' = Result(u)
  PROVE  UNCHANGED Fifo!vars
<1>1. Answered' = Answered
  BY DEF Answered
<1> QED BY <1>1, FifoVars DEF Fifo!vars, Answered

\* A push takes effect when tail moves.
LEMMA AdvanceMaps ==
  ASSUME IInv, ChainOK, NEW t \in Thread, Advance(t)
  PROVE  \E v \in Value : Fifo!Enqueue(v)
<1> DEFINE k == Len(chain)
           v == data[tail]
<1>0. /\ chain' = Append(chain, node[t]) /\ UNCHANGED <<data, op, answer>>
      /\ pc[t] = "advance" /\ pc' = [pc EXCEPT ![t] = "notify"]
      /\ node' = [node EXCEPT ![t] = NoNode]
  BY DEF Advance, Goto
<1>1. v \in Value
  BY <1>0 DEF IInv, PushLocal
<1>2. k \in Nat \ {0} /\ chain[k] = tail
  BY ChainFacts DEF ChainOK, NothingLost
<1>3. node[t] \in Node
  BY <1>0, NullsDistinct DEF IInv, Ownership, TypeOK
<1>4. Len(chain') = k + 1 /\ \A i \in 1 .. k : chain'[i] = chain[i]
  BY <1>0, <1>3, AppendProperties DEF ChainOK
<1>5. Items' = Append(Items, v)
  <2>1. /\ Append(Items, v) \in Seq(Value) /\ Len(Append(Items, v)) = k
        /\ \A i \in 1 .. k - 1 : Append(Items, v)[i] = data[chain[i]]
        /\ Append(Items, v)[k] = v
    BY <1>1, <1>2, ItemFacts, AppendProperties
  <2>2. /\ Items' \in Seq(Value) /\ Len(Items') = k
        /\ \A i \in 1 .. k : Items'[i] = data[chain[i]]
    <3>1. Items' = [i \in 1 .. k |-> data[chain'[i]]]
      BY <1>0, <1>2, <1>4 DEF Items
    <3>2. \A i \in 1 .. k : data[chain'[i]] = data[chain[i]] /\ data[chain[i]] \in Value
      <4>1. \A i \in 1 .. k : chain[i] \in Linked
        BY ChainFacts
      <4> QED BY <4>1, <1>1, <1>4 DEF IInv, ListIntact
    <3> QED BY <3>1, <3>2, <1>2, SeqDef
  <2>3. \A i \in 1 .. k : Items'[i] = Append(Items, v)[i]
    BY <2>1, <2>2, <1>2
  <2> QED BY <2>1, <2>2, <2>3, SeqEqual
<1>6. \A u \in Thread : Result(u)' = Result(u)
  BY <1>0 DEF Result, TakesValue, IInv, TypeOK
<1> QED BY <1>1, <1>5, <1>6 DEF Fifo!Enqueue

\* A pop takes effect when head moves.
LEMMA UnlinkMaps ==
  ASSUME IInv, ChainOK, Undecideds, NEW t \in Thread, Unlink(t)
  PROVE  Fifo!Dequeue(t)
<1> DEFINE k == Len(chain)
<1>0. /\ chain' = Tail(chain) /\ UNCHANGED <<data, op>>
      /\ pc[t] = "pop" /\ pc' = [pc EXCEPT ![t] = "unlinked"]
      /\ node' = [node EXCEPT ![t] = head]
      /\ answer' = IF TakesValue(t) THEN [answer EXCEPT ![t] = data[head]] ELSE answer
  BY DEF Unlink, Goto
<1>1. head # tail
  BY <1>0 DEF IInv, PopLocal
<1>2. Items # <<>> /\ Head(Items) = data[head]
  BY <1>1, ItemFacts
<1>3. k \in Nat /\ k > 1
  BY <1>1, ChainFacts DEF ChainOK, NothingLost
<1>4. Items' = Tail(Items)
  <2>1. Len(chain') = k - 1 /\ \A i \in 1 .. k - 1 : chain'[i] = chain[i + 1]
    BY <1>0, HeadTailProperties DEF ChainOK, NothingLost
  <2>2. Items' = [i \in 1 .. k - 2 |-> data[chain'[i]]]
    BY <1>0, <1>3, <2>1 DEF Items
  <2>3. \A i \in 1 .. k - 2 : data[chain'[i]] = Items[i + 1] /\ Items[i + 1] \in Value
    <3> SUFFICES ASSUME NEW i \in 1 .. k - 2
                 PROVE  data[chain'[i]] = Items[i + 1] /\ Items[i + 1] \in Value
      OBVIOUS
    <3>1. i \in 1 .. k - 1 /\ i + 1 \in 1 .. k - 1
      BY <1>3
    <3>2. Items[i + 1] = data[chain[i + 1]] /\ Items[i + 1] \in Value
      BY <3>1, ItemFacts, ElementOfSeq
    <3> QED BY <3>1, <3>2, <2>1
  <2>4. Items' \in Seq(Value) /\ Len(Items') = k - 2 /\ \A i \in 1 .. k - 2 : Items'[i] = Items[i + 1]
    BY <2>2, <2>3, <1>3, SeqDef
  <2>5. /\ Tail(Items) \in Seq(Value) /\ Len(Tail(Items)) = k - 2
        /\ \A i \in 1 .. k - 2 : Tail(Items)[i] = Items[i + 1]
    BY <1>2, <1>3, ItemFacts, HeadTailProperties
  <2> QED BY <2>4, <2>5, SeqEqual
<1>5. Result(t) = "undecided" /\ Result(t)' = data[head]
  BY <1>0 DEF Result, TakesValue, Undecideds, IInv, TypeOK
<1>6. \A u \in Thread : u # t => Result(u)' = Result(u)
  BY <1>0 DEF Result, TakesValue, IInv, TypeOK
<1>7. Answered' = [Answered EXCEPT ![t] = Head(Items)]
  BY <1>2, <1>5, <1>6 DEF Answered
<1> QED BY <1>2, <1>4, <1>5, <1>7 DEF Fifo!Dequeue, Fifo!Decide, Fifo!Undecided, Answered

\* try_pop() finds nothing, or empty() its answer, when it compares head and tail.
LEMMA CheckMaps ==
  ASSUME IInv, ChainOK, Undecideds, NEW t \in Thread, CheckReturn(t)
  PROVE  Fifo!FindEmpty(t) \/ Fifo!FindData(t)
<1> DEFINE a == IF head = tail THEN "empty" ELSE "not empty"
<1>0. /\ UNCHANGED <<chain, data, node>> /\ pc[t] = "check"
      /\ pc' = [pc EXCEPT ![t] = "idle"] /\ op' = [op EXCEPT ![t] = "none"]
      /\ answer' = [answer EXCEPT ![t] = a]
  BY DEF CheckReturn, Finish, Goto, NoData, memory
<1>1. Items' = Items /\ (Items = <<>> <=> head = tail)
  BY <1>0, ItemFacts DEF Items
<1>2. Result(t) = "undecided" /\ Result(t)' = a
  BY <1>0 DEF Result, Undecideds, IInv, TypeOK
<1>3. \A u \in Thread : u # t => Result(u)' = Result(u)
  BY <1>0 DEF Result, TakesValue, IInv, TypeOK
<1>4. Answered' = [Answered EXCEPT ![t] = a]
  BY <1>2, <1>3 DEF Answered
<1>5. Answered[t] = Fifo!Undecided
  BY <1>2 DEF Answered, Fifo!Undecided
<1> QED BY <1>1, <1>4, <1>5 DEF Fifo!FindEmpty, Fifo!FindData, Fifo!Decide, Fifo!Undecided,
                                 Fifo!IsEmpty, Fifo!NotEmpty, Answered

\* A new call: the thread has had its last result.
LEMMA CallMaps ==
  ASSUME IInv, ChainOK, NEW t \in Thread,
         \/ \E v \in Value : CallPush(t, v)
         \/ \E o \in Ops \ {"none", "push"} : Call(t, o)
  PROVE  Fifo!Return(t)
<1>1. /\ UNCHANGED chain /\ pc[t] = "idle" /\ answer' = [answer EXCEPT ![t] = "undecided"]
      /\ pc'[t] # "unlinked"
      /\ \A u \in Thread : u # t => pc'[u] = pc[u] /\ op'[u] = op[u] /\ node'[u] = node[u]
      /\ \A x \in live : data'[x] = data[x]
  BY DEF CallPush, Call, Goto, memory, IInv, TypeOK
<1>2. Items' = Items
  BY <1>1, ItemsKept DEF Linked
<1>3. \A u \in Thread : u # t => Result(u)' = Result(u)
  <2> SUFFICES ASSUME NEW u \in Thread, u # t PROVE Result(u)' = Result(u)
    OBVIOUS
  <2>1. pc[u] = "unlinked" => node[u] \in live
    BY DEF IInv, Ownership
  <2> QED BY <1>1, <2>1 DEF Result, TakesValue, IInv, TypeOK
<1>4. Result(t)' = "undecided"
  BY <1>1 DEF Result, IInv, TypeOK
<1>5. Answered' = [Answered EXCEPT ![t] = "undecided"]
  BY <1>3, <1>4 DEF Answered
<1> QED BY <1>2, <1>5 DEF Fifo!Return, Fifo!Undecided, Answered

\* The other steps decide nothing.
LEMMA QuietMaps ==
  ASSUME IInv, ChainOK, NEW t \in Thread,
         \/ LockTail(t) \/ Store(t) \/ Notify(t) \/ LockHead(t) \/ CheckWait(t) \/ CheckPop(t)
         \/ Sleep(t) \/ SpuriousWake(t) \/ MoveThrows(t) \/ Return(t)
  PROVE  UNCHANGED Fifo!vars
<1> USE DEF Goto, Finish, memory, TakesValue, IInv, TypeOK
<1>1. CASE LockTail(t) \/ LockHead(t) \/ CheckWait(t) \/ CheckPop(t) \/ Sleep(t) \/ SpuriousWake(t)
  <2>1. /\ UNCHANGED <<chain, data, node, op, answer>>
        /\ \A u \in Thread : pc'[u] = "unlinked" <=> pc[u] = "unlinked"
    BY <1>1 DEF LockTail, LockHead, CheckWait, CheckPop, Sleep, SpuriousWake
  <2> QED BY <2>1, Stutters DEF Items, Result
<1>2. CASE Notify(t)
  <2>1. /\ UNCHANGED <<chain, data, node, answer>>
        /\ \A u \in Thread : pc'[u] = "unlinked" <=> pc[u] = "unlinked"
        /\ \A u \in Thread : pc[u] = "unlinked" => op'[u] = op[u]
    BY <1>2 DEF Notify, Blocked
  <2>2. \A u \in Thread : Result(u)' = Result(u)
    <3> SUFFICES ASSUME NEW u \in Thread PROVE Result(u)' = Result(u)
      OBVIOUS
    <3>1. CASE pc[u] = "unlinked"
      BY <2>1, <3>1 DEF Result
    <3>2. CASE pc[u] # "unlinked"
      BY <2>1, <3>2 DEF Result
    <3> QED BY <3>1, <3>2
  <2>3. Items' = Items
    BY <2>1 DEF Items
  <2> QED BY <2>2, <2>3, Stutters
<1>3. CASE MoveThrows(t)
  <2>1. /\ UNCHANGED <<chain, data, node, answer>>
        /\ \A u \in Thread : pc'[u] = "unlinked" <=> pc[u] = "unlinked"
        /\ \A u \in Thread : pc[u] = "unlinked" => op'[u] = op[u]
    BY <1>3 DEF MoveThrows
  <2>2. \A u \in Thread : Result(u)' = Result(u)
    <3> SUFFICES ASSUME NEW u \in Thread PROVE Result(u)' = Result(u)
      OBVIOUS
    <3>1. CASE pc[u] = "unlinked"
      BY <2>1, <3>1 DEF Result
    <3>2. CASE pc[u] # "unlinked"
      BY <2>1, <3>2 DEF Result
    <3> QED BY <3>1, <3>2
  <2>3. Items' = Items
    BY <2>1 DEF Items
  <2> QED BY <2>2, <2>3, Stutters
<1>4. CASE Store(t)
  <2>1. /\ UNCHANGED <<chain, node, op, answer>> /\ pc[t] = "store"
        /\ pc' = [pc EXCEPT ![t] = "advance"] /\ data' = [data EXCEPT ![tail] = arg[t]]
    BY <1>4 DEF Store
  <2>2. Items' = Items
    <3>1. \A x \in Linked \ {tail} : data'[x] = data[x]
      BY <2>1 DEF Linked
    <3> QED BY <2>1, <3>1, ItemsKept
  <2>3. \A u \in Thread : node[u] # tail
    BY DEF ListIntact, Linked
  <2>4. \A u \in Thread : Result(u)' = Result(u)
    <3> SUFFICES ASSUME NEW u \in Thread PROVE Result(u)' = Result(u)
      OBVIOUS
    <3>1. pc[u] = "unlinked" => node[u] \in Node
      BY NullsDistinct DEF Ownership
    <3> QED BY <2>1, <2>3, <3>1 DEF Result
  <2> QED BY <2>2, <2>4, Stutters
<1>5. CASE Return(t)
  <2>1. /\ UNCHANGED <<chain, data>> /\ pc[t] = "unlinked"
        /\ pc' = [pc EXCEPT ![t] = "idle"] /\ op' = [op EXCEPT ![t] = "none"]
        /\ node' = [node EXCEPT ![t] = NoNode]
        /\ answer' = IF TakesValue(t) THEN answer ELSE [answer EXCEPT ![t] = data[node[t]]]
    BY <1>5 DEF Return
  <2>2. \A u \in Thread : Result(u)' = Result(u)
    BY <2>1 DEF Result
  <2> QED BY <2>1, <2>2, Stutters DEF Items
<1> QED BY <1>1, <1>2, <1>3, <1>4, <1>5

\* Every behaviour of the queue with two mutexes is one of an atomic FIFO queue: a pop
\* returns the oldest value that no other has taken, also when a move threw it back, and
\* try_pop() and empty() find the queue empty only when it is.
THEOREM Implements == Spec => IsFifo
<1>1. IInv /\ ChainOK /\ Undecideds /\ [Next]_vars => [Fifo!Next]_(Fifo!vars)
  <2> SUFFICES ASSUME IInv, ChainOK, Undecideds, [Next]_vars PROVE [Fifo!Next]_(Fifo!vars)
    OBVIOUS
  <2>1. CASE UNCHANGED vars
    BY <2>1 DEF vars, memory, frame, Fifo!vars, Items, Result, TakesValue
  <2>2. CASE Next
    <3> PICK t \in Thread :
           \/ \E v \in Value : CallPush(t, v)
           \/ \E o \in Ops \ {"none", "push"} : Call(t, o)
           \/ Proceed(t)
           \/ SpuriousWake(t)
           \/ MoveThrows(t)
      BY <2>2 DEF Next
    <3>1. CASE (\E v \in Value : CallPush(t, v)) \/ (\E o \in Ops \ {"none", "push"} : Call(t, o))
      BY <3>1, CallMaps DEF Fifo!Next
    <3>2. CASE Proceed(t)
      <4>1. CASE Advance(t)
        BY <4>1, AdvanceMaps DEF Fifo!Next
      <4>2. CASE Unlink(t)
        BY <4>2, UnlinkMaps DEF Fifo!Next
      <4>3. CASE CheckReturn(t)
        BY <4>3, CheckMaps DEF Fifo!Next
      <4> QED BY <3>2, <4>1, <4>2, <4>3, QuietMaps DEF Proceed
    <3>3. CASE SpuriousWake(t) \/ MoveThrows(t)
      BY <3>3, QuietMaps
    <3> QED BY <3>1, <3>2, <3>3
  <2> QED BY <2>1, <2>2
<1>2. Init => Undecideds
  BY DEF Init, Undecideds
<1> QED BY <1>1, <1>2, InitIInv, InitChain, NextKeeps, NextChain, NextUndecided, InitMaps,
           PTL DEF Spec, IsFifo, Fifo!Spec
=============================================================================
