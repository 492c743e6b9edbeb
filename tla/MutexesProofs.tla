---------------------------- MODULE MutexesProofs ----------------------------
(***************************************************************************)
(* First HierarchicalMutex, for any threads, mutexes and levels.             *)
(*                                                                          *)
(* LocalIsLowest is not inductive: an unlock brings back whatever prev says.  *)
(* Chain says what that is, of every mutex held: MaxLevel, or the level of    *)
(* the next higher mutex its holder has.  Deadlock is then impossible because *)
(* along a chain of waiting threads the levels waited for get ever lower.     *)
(***************************************************************************)
EXTENDS MCMutexes, WellFoundedInduction, SequenceTheorems, TLAPS

\* The levels of what a thread holds differ, and prev leads from each to the next.
Chain ==
    \A t \in Thread : \A m \in Held(t) :
       /\ prev[m] = MaxLevel \/ \E k \in Held(t) : prev[m] = Level[k]
       /\ Level[m] < prev[m]
       /\ \A k \in Held(t) \ {m} :
             /\ Level[k] # Level[m]
             /\ Level[m] < Level[k] => prev[m] <= Level[k]

\* A lock call that passed the check still would.
Descending ==
    \A t \in Thread : pc[t] \in {"acquire", "update"} => MayLock(t, target[t])

\* An unlock call already went back to the level above that of its mutex.
Restored ==
    \A t \in Thread : pc[t] = "idle" <=> target[t] = NoMutex

IInv == TypeOK /\ LocalIsLowest /\ Chain /\ Descending /\ Restored

-----------------------------------------------------------------------------
(* The initial state. *)
LEMMA InitIInv == Init => IInv
<1> SUFFICES ASSUME Init PROVE IInv
  OBVIOUS
<1>0. MaxLevel \in Nat
  BY LevelsBounded
<1>1. TypeOK
  BY <1>0, LevelsBounded DEF Init, TypeOK, PCs
<1>2. \A t \in Thread : Held(t) = {}
  BY NonesDistinct DEF Init, Held
<1>3. LocalIsLowest /\ Chain
  BY <1>2 DEF Init, LocalIsLowest, Chain
<1>4. Descending /\ Restored
  BY DEF Init, Descending, Restored
<1> QED
  BY <1>1, <1>3, <1>4 DEF IInv

-----------------------------------------------------------------------------
(* What each action does to the mutexes held. *)

LEMMA HeldUnchanged ==
  ASSUME IInv, NEW t \in Thread, NEW m \in Mutex,
         CallLock(t, m) \/ CallTryLock(t, m) \/ Acquire(t) \/ Release(t)
  PROVE  \A u \in Thread : Held(u)' = Held(u)
<1> USE NonesDistinct DEF IInv, TypeOK
<1> TAKE u \in Thread
<1>1. CASE CallLock(t, m)
  BY <1>1 DEF CallLock, Goto, Held
<1>2. CASE CallTryLock(t, m)
  BY <1>2 DEF CallTryLock, Goto, Held
<1>3. CASE Acquire(t)
  <2>1. PICK n \in Mutex : n = target[t]
    BY <1>3 DEF Acquire, Restored
  <2>2. holder[n] = NoThread /\ holder' = [holder EXCEPT ![n] = t]
    BY <1>3, <2>1 DEF Acquire
  <2>3. pc' = [pc EXCEPT ![t] = "update"] /\ target' = [target EXCEPT ![t] = n]
    BY <1>3, <2>1 DEF Acquire, Goto
  <2> QED
    BY <1>3, <2>2, <2>3 DEF Acquire, Held
<1>4. CASE Release(t)
  <2>1. PICK n \in Mutex : n = target[t]
    BY <1>4 DEF Release, Restored
  <2>2. holder[n] = t /\ holder' = [holder EXCEPT ![n] = NoThread]
    BY <1>4, <2>1 DEF Release
  <2>3. /\ pc[t] = "release" /\ pc' = [pc EXCEPT ![t] = "idle"]
        /\ target' = [target EXCEPT ![t] = NoMutex]
    BY <1>4 DEF Release, Return, Goto
  <2> QED
    BY <2>1, <2>2, <2>3 DEF Held
<1> QED
  BY <1>1, <1>2, <1>3, <1>4

LEMMA HeldUpdate ==
  ASSUME IInv, NEW t \in Thread, Update(t)
  PROVE  /\ target[t] \in Mutex \ Held(t)
         /\ \A u \in Thread : Held(u)' = IF u = t THEN Held(u) \cup {target[t]} ELSE Held(u)
<1> USE NonesDistinct DEF IInv, TypeOK
<1>1. PICK n \in Mutex : n = target[t]
  BY DEF Update, Restored
<1>2. /\ holder[n] = t /\ holder' = holder
      /\ pc[t] = "update" /\ pc' = [pc EXCEPT ![t] = "idle"]
      /\ target' = [target EXCEPT ![t] = NoMutex]
  BY <1>1 DEF Update, Return, Goto
<1> QED
  BY <1>1, <1>2 DEF Held

LEMMA HeldUnlock ==
  ASSUME IInv, NEW t \in Thread, NEW m \in Mutex, CallUnlock(t, m)
  PROVE  /\ m \in Held(t)
         /\ \A u \in Thread : Held(u)' = IF u = t THEN Held(u) \ {m} ELSE Held(u)
<1> USE NonesDistinct DEF IInv, TypeOK
<1>1. /\ holder[m] = t /\ holder' = holder
      /\ pc[t] = "idle" /\ pc' = [pc EXCEPT ![t] = "release"]
      /\ target' = [target EXCEPT ![t] = m]
  BY DEF CallUnlock, Goto
<1> QED
  BY <1>1 DEF Held

-----------------------------------------------------------------------------
(* The two parts of IInv about what is held need prev and local only where the  *)
(* mutexes are held.                                                            *)

LEMMA ChainKept ==
  ASSUME IInv, \A t \in Thread : Held(t)' = Held(t), prev' = prev, local' = local
  PROVE  LocalIsLowest' /\ Chain'
BY DEF IInv, LocalIsLowest, Chain

LEMMA ChainUpdate ==
  ASSUME IInv, NEW t \in Thread, Update(t)
  PROVE  LocalIsLowest' /\ Chain'
<1> USE LevelsBounded DEF IInv, TypeOK
<1>1. PICK m \in Mutex : m = target[t]
  BY HeldUpdate
<1>2. /\ m \notin Held(t)
      /\ \A u \in Thread : Held(u)' = IF u = t THEN Held(u) \cup {m} ELSE Held(u)
  BY <1>1, HeldUpdate
<1>3. /\ prev' = [prev EXCEPT ![m] = local[t]]
      /\ local' = [local EXCEPT ![t] = Level[m]]
      /\ Level[m] < local[t]
      /\ holder[m] = t
  BY <1>1 DEF Update, Descending, MayLock
<1>4. \A u \in Thread : \A k \in Held(u) : k \in Mutex /\ k # m
  BY <1>2, <1>3 DEF Held
<1>5. LocalIsLowest'
  <2> SUFFICES ASSUME NEW u \in Thread
               PROVE  /\ \A k \in Held(u)' : local'[u] <= Level[k]
                      /\ local'[u] = MaxLevel \/ \E k \in Held(u)' : local'[u] = Level[k]
    BY DEF LocalIsLowest
  <2>1. CASE u = t
    BY <1>2, <1>3, <1>4, <2>1 DEF LocalIsLowest
  <2>2. CASE u # t
    BY <1>2, <1>3, <2>2 DEF LocalIsLowest
  <2> QED
    BY <2>1, <2>2
<1>6. Chain'
  <2> SUFFICES ASSUME NEW u \in Thread, NEW n \in Held(u)'
               PROVE  /\ prev'[n] = MaxLevel \/ \E k \in Held(u)' : prev'[n] = Level[k]
                      /\ Level[n] < prev'[n]
                      /\ \A k \in Held(u)' \ {n} :
                            /\ Level[k] # Level[n]
                            /\ Level[n] < Level[k] => prev'[n] <= Level[k]
    BY DEF Chain
  <2>1. CASE u = t /\ n = m
    BY <1>2, <1>3, <1>4, <2>1 DEF LocalIsLowest
  <2>2. CASE u = t /\ n # m
    <3>1. n \in Held(t) /\ n \in Mutex /\ prev'[n] = prev[n]
      BY <1>2, <1>3, <1>4, <2>2
    <3>2. local[t] <= Level[n]
      BY <3>1 DEF LocalIsLowest
    <3>3. Level[m] < Level[n]
      BY <1>3, <3>1, <3>2
    <3> QED
      BY <1>2, <1>4, <2>2, <3>1, <3>3 DEF Chain
  <2>3. CASE u # t
    BY <1>2, <1>3, <1>4, <2>3 DEF Chain
  <2> QED
    BY <2>1, <2>2, <2>3
<1> QED
  BY <1>5, <1>6

LEMMA ChainUnlock ==
  ASSUME IInv, NEW t \in Thread, NEW m \in Mutex, CallUnlock(t, m)
  PROVE  LocalIsLowest' /\ Chain'
<1> USE LevelsBounded DEF IInv, TypeOK
<1>1. /\ m \in Held(t)
      /\ \A u \in Thread : Held(u)' = IF u = t THEN Held(u) \ {m} ELSE Held(u)
  BY HeldUnlock
<1>2. /\ local[t] = Level[m]
      /\ local' = [local EXCEPT ![t] = prev[m]]
      /\ prev' = prev
  BY DEF CallUnlock, MayUnlock
<1>3. \A u \in Thread : \A k \in Held(u) : k \in Mutex
  BY DEF Held
<1>4. \A k \in Held(t) \ {m} : Level[m] < Level[k] /\ prev[m] <= Level[k]
  <2> TAKE k \in Held(t) \ {m}
  <2>1. Level[m] <= Level[k]
    BY <1>2 DEF LocalIsLowest
  <2>2. Level[m] # Level[k] /\ (Level[m] < Level[k] => prev[m] <= Level[k])
    BY <1>1 DEF Chain
  <2>3. Level[m] \in Nat /\ Level[k] \in Nat
    BY <1>1, <1>3
  <2> QED
    BY <2>1, <2>2, <2>3
<1>5. LocalIsLowest'
  <2>1. prev[m] = MaxLevel \/ \E k \in Held(t) \ {m} : prev[m] = Level[k]
    BY <1>1 DEF Chain
  <2> QED
    BY <1>1, <1>2, <1>4, <2>1 DEF LocalIsLowest
<1>6. Chain'
  <2> SUFFICES ASSUME NEW u \in Thread, NEW n \in Held(u)'
               PROVE  /\ prev[n] = MaxLevel \/ \E k \in Held(u)' : prev[n] = Level[k]
                      /\ Level[n] < prev[n]
                      /\ \A k \in Held(u)' \ {n} :
                            /\ Level[k] # Level[n]
                            /\ Level[n] < Level[k] => prev[n] <= Level[k]
    BY <1>2 DEF Chain
  <2>1. CASE u = t
    BY <1>1, <1>3, <1>4, <2>1 DEF Chain
  <2>2. CASE u # t
    BY <1>1, <2>2 DEF Chain
  <2> QED
    BY <2>1, <2>2
<1> QED
  BY <1>5, <1>6

-----------------------------------------------------------------------------
(* Every step preserves the invariant. *)

LEMMA TypeStep ==
  ASSUME IInv, NEW t \in Thread, NEW m \in Mutex,
         \/ CallLock(t, m) \/ CallTryLock(t, m) \/ CallUnlock(t, m)
         \/ Acquire(t) \/ Update(t) \/ Release(t)
  PROVE  TypeOK' /\ Descending' /\ Restored'
<1> USE NonesDistinct, LevelsBounded DEF IInv, TypeOK, PCs, Descending, Restored
<1>1. CASE CallLock(t, m)
  BY <1>1 DEF CallLock, Goto, MayLock
<1>2. CASE CallTryLock(t, m)
  BY <1>2 DEF CallTryLock, Goto, MayLock
<1>3. CASE CallUnlock(t, m)
  BY <1>3 DEF CallUnlock, Goto, MayLock
<1>4. CASE Acquire(t)
  <2>1. PICK n \in Mutex : n = target[t]
    BY <1>4 DEF Acquire
  <2>2. /\ pc[t] = "acquire" /\ holder[n] = NoThread
        /\ holder' = [holder EXCEPT ![n] = t]
        /\ pc' = [pc EXCEPT ![t] = "update"] /\ target' = [target EXCEPT ![t] = n]
        /\ prev' = prev /\ local' = local
    BY <1>4, <2>1 DEF Acquire, Goto
  <2>3. TypeOK'
    BY <2>1, <2>2
  <2>4. Descending' /\ Restored'
    BY <2>1, <2>2 DEF MayLock
  <2> QED
    BY <2>3, <2>4
<1>5. CASE Update(t)
  <2>1. PICK n \in Mutex : n = target[t]
    BY <1>5, HeldUpdate
  <2>2. /\ pc[t] = "update" /\ holder' = holder
        /\ prev' = [prev EXCEPT ![n] = local[t]]
        /\ local' = [local EXCEPT ![t] = Level[n]]
        /\ pc' = [pc EXCEPT ![t] = "idle"] /\ target' = [target EXCEPT ![t] = NoMutex]
    BY <1>5, <2>1 DEF Update, Return, Goto
  <2>3. TypeOK'
    BY <2>1, <2>2
  <2>4. Descending' /\ Restored'
    BY <2>1, <2>2 DEF MayLock
  <2> QED
    BY <2>3, <2>4
<1>6. CASE Release(t)
  <2>1. PICK n \in Mutex : n = target[t]
    BY <1>6 DEF Release
  <2>2. /\ pc[t] = "release" /\ holder[n] = t
        /\ holder' = [holder EXCEPT ![n] = NoThread]
        /\ pc' = [pc EXCEPT ![t] = "idle"] /\ target' = [target EXCEPT ![t] = NoMutex]
        /\ prev' = prev /\ local' = local
    BY <1>6, <2>1 DEF Release, Return, Goto
  <2>3. TypeOK'
    <3>1. \A u \in Thread \ {t} : pc[u] \in {"update", "release"} => target[u] # n
      BY <2>2
    <3> QED
      BY <2>1, <2>2, <3>1
  <2>4. Descending' /\ Restored'
    BY <2>1, <2>2 DEF MayLock
  <2> QED
    BY <2>3, <2>4
<1> QED
  BY <1>1, <1>2, <1>3, <1>4, <1>5, <1>6

LEMMA NextIInv == IInv /\ [Next]_vars => IInv'
<1> SUFFICES ASSUME IInv, [Next]_vars PROVE IInv'
  OBVIOUS
<1>1. CASE UNCHANGED vars
  BY <1>1 DEF vars, IInv, TypeOK, LocalIsLowest, Chain, Descending, Restored, Held, MayLock
<1>2. ASSUME NEW t \in Thread, NEW m \in Mutex, CallLock(t, m) \/ CallTryLock(t, m)
      PROVE  IInv'
  <2>1. LocalIsLowest' /\ Chain'
    BY <1>2, HeldUnchanged, ChainKept DEF CallLock, CallTryLock
  <2> QED
    BY <1>2, <2>1, TypeStep DEF IInv
<1>3. ASSUME NEW t \in Thread, NEW m \in Mutex, CallUnlock(t, m)
      PROVE  IInv'
  BY <1>3, ChainUnlock, TypeStep DEF IInv
<1>4. ASSUME NEW t \in Thread, Acquire(t) \/ Update(t) \/ Release(t)
      PROVE  IInv'
  <2>1. PICK m \in Mutex : m = target[t]
    BY <1>4 DEF Acquire, Update, Release, IInv, TypeOK, Restored
  <2>2. CASE Update(t)
    BY <2>2, ChainUpdate, TypeStep DEF IInv
  <2>3. CASE Acquire(t) \/ Release(t)
    <3>1. LocalIsLowest' /\ Chain'
      BY <2>3, HeldUnchanged, ChainKept DEF Acquire, Release
    <3> QED
      BY <2>3, <3>1, TypeStep DEF IInv
  <2> QED
    BY <1>4, <2>2, <2>3
<1> QED
  BY <1>1, <1>2, <1>3, <1>4 DEF Next, Invoke, Proceed

LEMMA Invariance == Spec => []IInv
BY InitIInv, NextIInv, PTL DEF Spec

-----------------------------------------------------------------------------
(* Whoever waits for a waiting thread waits for a higher mutex than it does. *)
LEMMA WaitsDescend ==
  ASSUME IInv, NEW t \in Thread, NEW u \in Thread, NEW v \in Thread,
         WaitsFor(t, u), WaitsFor(u, v)
  PROVE  /\ Level[target[t]] \in Nat /\ Level[target[u]] \in Nat
         /\ Level[target[u]] < Level[target[t]]
<1> USE LevelsBounded, NonesDistinct DEF IInv, TypeOK
<1>1. PICK m \in Mutex : m = target[t]
  BY DEF WaitsFor, Restored
<1>2. PICK n \in Mutex : n = target[u]
  BY DEF WaitsFor, Restored
<1>3. m \in Held(u) /\ Level[n] < local[u]
  BY <1>1, <1>2 DEF WaitsFor, Held, Descending, MayLock
<1>4. local[u] <= Level[m]
  BY <1>3 DEF LocalIsLowest
<1> QED
  BY <1>1, <1>2, <1>3, <1>4

LEMMA DescentEnds ==
  ASSUME NEW S, S \subseteq Nat, S # {}
  PROVE  \E x \in S : \A y \in S : ~(y < x)
<1> DEFINE Less == OpToRel(<, Nat)
<1>1. IsWellFoundedOn(Less, Nat)
  BY NatLessThanWellFounded
<1> HIDE DEF Less
<1>2. \E x \in S : \A y \in S : ~(<<y, x>> \in Less)
  BY <1>1, WFMin
<1>3. \A x, y \in Nat : y < x => <<y, x>> \in Less
  BY DEF Less, OpToRel
<1> QED
  BY <1>2, <1>3

LEMMA IInvNoDeadlock == IInv => NoDeadlock
<1> SUFFICES ASSUME IInv,
                    NEW D \in (SUBSET Thread) \ {{}},
                    \A t \in D : \E u \in D : WaitsFor(t, u)
             PROVE  FALSE
  BY DEF NoDeadlock
<1> DEFINE S == {Level[target[t]] : t \in D}
<1>1. S # {}
  OBVIOUS
<1>2. S \subseteq Nat
  BY WaitsDescend
<1>3. \A x \in S : \E y \in S : y < x
  BY WaitsDescend
<1> QED
  BY <1>1, <1>2, <1>3, DescentEnds

-----------------------------------------------------------------------------
(* The theorems. *)

\* Type correctness of Hierarchical_mutex.
THEOREM TypeCorrect == Spec => []TypeOK
BY Invariance, PTL DEF IInv

\* The thread_local level of each thread is always that of the lowest mutex it
\* holds, whatever sequence of lock, try_lock and unlock calls led there.
THEOREM LevelsAreRestored == Spec => []LocalIsLowest
BY Invariance, PTL DEF IInv

\* With any number of threads and mutexes, even infinitely many, no set of
\* threads deadlocks.
THEOREM DeadlockFree == Spec => []NoDeadlock
BY Invariance, IInvNoDeadlock, PTL

LEMMA StepInOrder ==
  IInv /\ [Next]_vars =>
     [\A t \in Thread : \A m \in Held(t) :
         m \notin Held(t)' => \A k \in Held(t) \ {m} : Level[m] < Level[k]]_vars
<1> SUFFICES ASSUME IInv, Next, NEW t \in Thread, NEW m \in Held(t), m \notin Held(t)',
                    NEW k \in Held(t) \ {m}
             PROVE  Level[m] < Level[k]
  OBVIOUS
<1>0. \A n \in Held(t) : n \in Mutex /\ Level[n] \in Nat
  BY LevelsBounded DEF Held
<1>1. PICK u \in Thread : Invoke(u) \/ Proceed(u)
  BY DEF Next
<1>2. PICK n \in Mutex : CallUnlock(u, n)
  <2>1. ASSUME NEW l \in Mutex,
               CallLock(u, l) \/ CallTryLock(u, l) \/ Acquire(u) \/ Release(u)
        PROVE  FALSE
    <3>1. Held(t)' = Held(t)
      BY <2>1, HeldUnchanged
    <3> QED
      BY <3>1
  <2>2. ~Update(u)
    BY HeldUpdate
  <2>3. m \in Mutex
    BY <1>0
  <2> QED
    BY <1>1, <2>1, <2>2, <2>3 DEF Invoke, Proceed
<1>3. u = t /\ n = m
  BY <1>2, HeldUnlock
<1>4. local[t] = Level[m]
  BY <1>2, <1>3 DEF CallUnlock, MayUnlock
<1>5. Level[m] <= Level[k] /\ Level[m] # Level[k]
  BY <1>4 DEF IInv, LocalIsLowest, Chain
<1> QED
  BY <1>0, <1>5

\* A thread only ever gives back the lowest of the mutexes it holds.
THEOREM UnlockOrder == Spec => UnlocksInOrder
BY Invariance, StepInOrder, PTL DEF Spec, UnlocksInOrder

-----------------------------------------------------------------------------
(***************************************************************************)
(* Then the queues with one mutex and a condition variable: they implement   *)
(* FifoQueue, for any threads, values and bound.  A push takes effect when it  *)
(* is made, a pop or a test when it has the mutex and finds what it finds; a     *)
(* call that sleeps, wakes or throws has done nothing yet.                    *)
(***************************************************************************)

\* What the queue has at each step: a call that has not yet taken effect has no result.
QueueInv == /\ data_queue \in Seq(Value)
            /\ where \in [Thread -> Queue!PCs]
            /\ answer \in [Thread -> Value \cup {DefaultValue, "undecided", "empty", "not empty"}]
            /\ \A t \in Thread : where[t] \in {"lock", "blocked"} => answer[t] = "undecided"

QueueStep(t) == \/ \E v \in Value : Queue!Push(t, v)
                \/ \E o \in Queue!Calls(t) : Queue!Call(t, o)
                \/ Queue!Notify(t) \/ Queue!Sleep(t) \/ Queue!FindEmpty(t) \/ Queue!FindData(t)
                \/ Queue!Pop(t) \/ Queue!SpuriousWake(t) \/ Queue!Throw(t)

\* What the abstract queue's answers are.
Results == [t \in Thread |-> Queue!Result(t)]

\* A notification wakes a thread whose call has no result yet.
LEMMA NotifyKeeps ==
  ASSUME QueueInv, NEW t \in Thread, Queue!NotifyOne(t), UNCHANGED answer
  PROVE  /\ where' \in [Thread -> Queue!PCs]
         /\ \A u \in Thread : where'[u] \in {"lock", "blocked"} => answer'[u] = "undecided"
<1>1. CASE where' = [where EXCEPT ![t] = "idle"]
  BY <1>1 DEF QueueInv, Queue!PCs
<1>2. CASE \E w \in Queue!Blocked : where' = [where EXCEPT ![t] = "idle", ![w] = "lock"]
  BY <1>2 DEF QueueInv, Queue!PCs, Queue!Blocked
<1> QED BY <1>1, <1>2 DEF Queue!NotifyOne, Queue!Goto

\* What a step of thread t may do to the abstract queue: q and q2 are what it holds, r and
\* r2 what t has as its result, before and after.
OneCall(q, q2, r, r2) ==
    \/ q2 = q /\ (r2 = r \/ r2 = "undecided")
    \/ r2 = r /\ \E v \in Value : q2 = Append(q, v)
    \/ q2 = q /\ r = "undecided" /\ r2 = (IF q = <<>> THEN "empty" ELSE "not empty")
    \/ q2 = Tail(q) /\ q # <<>> /\ r = "undecided" /\ r2 = Head(q)

LEMMA OneCallMaps ==
  ASSUME NEW t \in Thread,
         \A u \in Thread \ {t} : Queue!Result(u)' = Queue!Result(u),
         OneCall(data_queue, data_queue', Queue!Result(t), Queue!Result(t)')
  PROVE  [Queue!Fifo!Next]_(Queue!Fifo!vars)
<1> DEFINE r == Queue!Result(t)
           r2 == Queue!Result(t)'
<1>1. /\ Results[t] = r
      /\ Results' = [Results EXCEPT ![t] = r2]
  BY DEF Results
<1>2. r2 = r => Results' = Results
  BY <1>1 DEF Results
<1> USE DEF Results
<1>3. CASE data_queue' = data_queue /\ r2 = r
  BY <1>2, <1>3 DEF Queue!Fifo!vars
<1>4. CASE data_queue' = data_queue /\ r2 = "undecided"
  <2>1. Queue!Fifo!Return(t)
    BY <1>1, <1>4 DEF Queue!Fifo!Return, Queue!Fifo!Undecided
  <2> QED BY <2>1 DEF Queue!Fifo!Next
<1>5. CASE r2 = r /\ \E v \in Value : data_queue' = Append(data_queue, v)
  <2>1. \E v \in Value : Queue!Fifo!Enqueue(v)
    BY <1>2, <1>5 DEF Queue!Fifo!Enqueue
  <2> QED BY <2>1 DEF Queue!Fifo!Next
<1>6. CASE /\ data_queue' = data_queue /\ r = "undecided"
           /\ r2 = (IF data_queue = <<>> THEN "empty" ELSE "not empty")
  <2>1. Queue!Fifo!FindEmpty(t) \/ Queue!Fifo!FindData(t)
    BY <1>1, <1>6 DEF Queue!Fifo!FindEmpty, Queue!Fifo!FindData, Queue!Fifo!Decide,
       Queue!Fifo!Undecided, Queue!Fifo!IsEmpty, Queue!Fifo!NotEmpty
  <2> QED BY <2>1 DEF Queue!Fifo!Next
<1>7. CASE data_queue' = Tail(data_queue) /\ data_queue # <<>> /\ r = "undecided" /\ r2 = Head(data_queue)
  <2>1. Queue!Fifo!Dequeue(t)
    BY <1>1, <1>7 DEF Queue!Fifo!Dequeue, Queue!Fifo!Decide, Queue!Fifo!Undecided
  <2> QED BY <2>1 DEF Queue!Fifo!Next
<1> QED BY <1>3, <1>4, <1>5, <1>6, <1>7 DEF OneCall

-----------------------------------------------------------------------------
LEMMA QueueStepFacts ==
  ASSUME QueueInv, NEW t \in Thread, QueueStep(t)
  PROVE  /\ QueueInv'
         /\ \A u \in Thread \ {t} : Queue!Result(u)' = Queue!Result(u)
         /\ OneCall(data_queue, data_queue', Queue!Result(t), Queue!Result(t)')
<1> DEFINE Goal == /\ QueueInv'
                   /\ \A u \in Thread \ {t} : Queue!Result(u)' = Queue!Result(u)
                   /\ OneCall(data_queue, data_queue', Queue!Result(t), Queue!Result(t)')
<1> USE Roles DEF Queue!RolesAndValues
<1>0. /\ data_queue \in Seq(Value)
      /\ \A u \in Thread : where[u] \in {"lock", "blocked"} => answer[u] = "undecided"
      /\ Queue!PCs = {"idle", "lock", "blocked", "notify", "over"}
  BY DEF QueueInv, Queue!PCs
<1>1. ASSUME NEW v \in Value, Queue!Push(t, v) PROVE  Goal
  <2>1. data_queue' = Append(data_queue, v) /\ UNCHANGED answer
    BY <1>1 DEF Queue!Push
  <2>2. /\ where' \in [Thread -> Queue!PCs]
        /\ \A u \in Thread : where'[u] \in {"lock", "blocked"} => answer'[u] = "undecided"
    <3>1. CASE version = "pointers"
      BY <1>1, <2>1, <3>1, NotifyKeeps DEF Queue!Push, Queue!PushNotify
    <3>2. CASE version # "pointers"
      BY <1>1, <3>2 DEF Queue!Push, Queue!Goto, QueueInv, Queue!PCs
    <3> QED BY <3>1, <3>2
  <2>3. QueueInv'
    <3>1. data_queue' \in Seq(Value)
      BY <2>1, <1>0, AppendProperties
    <3> QED BY <2>1, <2>2, <3>1 DEF QueueInv
  <2>4. OneCall(data_queue, data_queue', Queue!Result(t), Queue!Result(t)')
    BY <2>1 DEF OneCall, Queue!Result
  <2> QED BY <2>1, <2>3, <2>4 DEF Queue!Result
<1>2. ASSUME Queue!Notify(t) PROVE  Goal
  <2>1. UNCHANGED <<data_queue, answer>> /\ Queue!NotifyOne(t)
    BY <1>2 DEF Queue!Notify
  <2> QED BY <2>1, NotifyKeeps DEF QueueInv, OneCall, Queue!Result
<1>3. ASSUME NEW l \in Queue!PCs, where' = [where EXCEPT ![t] = l], UNCHANGED <<data_queue, answer>>,
             where[t] \in {"lock", "blocked"}
      PROVE  Goal
  BY <1>3 DEF QueueInv, OneCall, Queue!Result
<1>4. ASSUME Queue!Sleep(t) \/ Queue!SpuriousWake(t) PROVE  Goal
  BY <1>3, <1>4 DEF Queue!Sleep, Queue!SpuriousWake, Queue!Goto, Queue!PCs
<1>5. ASSUME NEW l \in Queue!PCs, NEW a \in Value \cup {DefaultValue, "undecided", "empty", "not empty"},
             where' = [where EXCEPT ![t] = l], answer' = [answer EXCEPT ![t] = a],
             l \in {"lock", "blocked"} => a = "undecided", data_queue' \in Seq(Value)
      PROVE  /\ QueueInv'
             /\ \A u \in Thread \ {t} : Queue!Result(u)' = Queue!Result(u)
             /\ Queue!Result(t)' = IF a = DefaultValue THEN "empty" ELSE a
  BY <1>5 DEF QueueInv, Queue!Result
<1>6. where[t] = "lock" => Queue!Result(t) = "undecided"
  BY <1>0 DEF Queue!Result
<1>7. ASSUME NEW o, Queue!Call(t, o) PROVE  Goal
  BY <1>5, <1>7, <1>0 DEF Queue!Call, Queue!Goto, OneCall
<1>8. ASSUME Queue!FindEmpty(t) \/ Queue!FindData(t) PROVE  Goal
  BY <1>5, <1>6, <1>8, <1>0 DEF Queue!FindEmpty, Queue!FindData, Queue!Finish, Queue!Goto, OneCall
<1>9. ASSUME Queue!Throw(t) PROVE  Goal
  BY <1>5, <1>6, <1>9, <1>0 DEF Queue!Throw, Queue!Untouched, Queue!Finish, Queue!Goto, OneCall
<1>10. ASSUME Queue!Pop(t) PROVE  Goal
  <2>1. Head(data_queue) \in Value /\ Tail(data_queue) \in Seq(Value)
    BY <1>0, <1>10, HeadTailProperties DEF Queue!Pop
  <2> QED BY <1>5, <1>6, <1>10, <2>1, <1>0 DEF Queue!Pop, Queue!AfterPop, Queue!Finish, Queue!Goto, OneCall
<1> QED BY <1>1, <1>2, <1>4, <1>7, <1>8, <1>9, <1>10 DEF QueueStep

LEMMA SafeNextFacts ==
  ASSUME QueueInv, [LockNext \/ QueueNext]_<<used, lockVars, queueVars>>
  PROVE  QueueInv' /\ [Queue!Fifo!Next]_(Queue!Fifo!vars)
<1>1. CASE UNCHANGED queueVars
  <2>1. UNCHANGED <<data_queue, where, answer>>
    BY <1>1 DEF queueVars
  <2>2. QueueInv'
    BY <2>1 DEF QueueInv
  <2>3. Results' = Results
    BY <2>1 DEF Results, Queue!Result
  <2> QED BY <2>1, <2>2, <2>3 DEF Queue!Fifo!vars, Results
<1>2. CASE \E t \in Thread : QueueStep(t)
  BY <1>2, QueueStepFacts, OneCallMaps
<1>3. Queue!Next => UNCHANGED queueVars \/ \E t \in Thread : QueueStep(t)
  BY DEF Queue!Next, Queue!Over, Queue!vars, queueVars, QueueStep, Queue!Proceed
<1> QED BY <1>1, <1>2, <1>3 DEF LockNext, QueueNext

\* Whatever threads call, sleep, are woken, notified or not, and throw: each call on a
\* queue with one mutex returns what one atomic FIFO queue would.
THEOREM MonitorsAreFifo == SafeSpec => IsFifo
<1>1. AnyInit => QueueInv /\ Queue!Fifo!Init
  <2> SUFFICES ASSUME AnyInit PROVE QueueInv /\ Queue!Fifo!Init
    OBVIOUS
  <2>1. /\ data_queue = <<>> /\ where = [t \in Thread |-> "idle"]
        /\ answer = [t \in Thread |-> "undecided"]
    BY DEF AnyInit, Queue!Init
  <2>2. \A t \in Thread : Queue!Result(t) = "undecided"
    BY <2>1, Roles DEF Queue!Result, Queue!RolesAndValues
  <2> QED BY <2>1, <2>2 DEF QueueInv, Queue!PCs, Queue!Fifo!Init, Queue!Fifo!Undecided
<1> QED BY <1>1, SafeNextFacts, PTL DEF SafeSpec, IsFifo, Queue!IsFifo, Queue!Fifo!Spec
=============================================================================
