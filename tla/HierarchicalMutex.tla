-------------------------- MODULE HierarchicalMutex --------------------------
(***************************************************************************)
(* Hierarchical_mutex of "Chapter 3 - Simple Lock Hierarchical.cpp": a       *)
(* mutex with a level.  A thread remembers, in a thread_local, the level of   *)
(* the last mutex it locked, and may only lock one of a lower level; each     *)
(* mutex remembers what its holder has to go back to.                         *)
(*                                                                          *)
(* Both checks throw before they change anything, so a call they refuse is no *)
(* step at all.  A thread's own thread_local, and the prev_hiearchy_val of a   *)
(* mutex it holds, are read and written in one step with what precedes.       *)
(***************************************************************************)
EXTENDS Integers, FiniteSets

CONSTANTS Thread, Mutex,
          Level,      \* each mutex's try_hiearchy_val
          MaxLevel,   \* ULONG_MAX
          NoThread,   \* the holder of a free internal_lock
          NoMutex     \* the target of a thread outside any call

ASSUME LevelsBounded == MaxLevel \in Nat /\ Level \in [Mutex -> 0 .. MaxLevel]
ASSUME NonesDistinct == NoThread \notin Thread /\ NoMutex \notin Mutex

VARIABLES holder,     \* who holds each internal_lock
          prev,       \* prev_hiearchy_val of each mutex
          local,      \* each thread's local_hierarchy_value
          pc,         \* where each thread is in its call
          target      \* the mutex that call is on

vars == <<holder, prev, local, pc, target>>

PCs == {"idle", "acquire", "update", "release"}

\* Thread t goes to step l of a call on mutex m, or returns from its call.
Goto(t, l, m) == /\ pc' = [pc EXCEPT ![t] = l]
                 /\ target' = [target EXCEPT ![t] = m]
Return(t)     == Goto(t, "idle", NoMutex)

Init == /\ holder = [m \in Mutex |-> NoThread]
        /\ prev = [m \in Mutex |-> 0]
        /\ local = [t \in Thread |-> MaxLevel]
        /\ pc = [t \in Thread |-> "idle"]
        /\ target = [t \in Thread |-> NoMutex]

-----------------------------------------------------------------------------
\* checkHierarchyViolation does not throw.  Mutant: `>` for `>=`.
SameLevelAllowed(t, m) == Level[m] <= local[t]
MayLock(t, m)          == Level[m] < local[t]

\* lock(): the check passes, and the thread goes to wait for internal_lock.
CallLock(t, m) ==
    /\ pc[t] = "idle"
    /\ MayLock(t, m)
    /\ Goto(t, "acquire", m)
    /\ UNCHANGED <<holder, prev, local>>

\* internal_lock.lock () returns.
Acquire(t) ==
    /\ pc[t] = "acquire"
    /\ holder[target[t]] = NoThread
    /\ holder' = [holder EXCEPT ![target[t]] = t]
    /\ Goto(t, "update", target[t])
    /\ UNCHANGED <<prev, local>>

\* try_lock(): the check passes and internal_lock is free.  When it is not, the
\* call returns false, having changed nothing.
CallTryLock(t, m) ==
    /\ pc[t] = "idle"
    /\ MayLock(t, m)
    /\ holder[m] = NoThread
    /\ holder' = [holder EXCEPT ![m] = t]
    /\ Goto(t, "update", m)
    /\ UNCHANGED <<prev, local>>

\* updateHierarchyValue ().  Mutant: the old level is not saved.
PrevNotSaved(t) ==
    /\ pc[t] = "update"
    /\ local' = [local EXCEPT ![t] = Level[target[t]]]
    /\ Return(t)
    /\ UNCHANGED <<holder, prev>>

Update(t) ==
    /\ pc[t] = "update"
    /\ prev' = [prev EXCEPT ![target[t]] = local[t]]
    /\ local' = [local EXCEPT ![t] = Level[target[t]]]
    /\ Return(t)
    /\ UNCHANGED holder

\* unlock() does not throw: m is the last mutex the thread locked.
AnyOrder(t, m)  == TRUE      \* mutant
MayUnlock(t, m) == local[t] = Level[m]

\* unlock(), by a thread that holds the mutex, as internal_lock.unlock ()
\* requires of it: the check, and the level to go back to.
CallUnlock(t, m) ==
    /\ pc[t] = "idle"
    /\ holder[m] = t
    /\ MayUnlock(t, m)
    /\ local' = [local EXCEPT ![t] = prev[m]]
    /\ Goto(t, "release", m)
    /\ UNCHANGED <<holder, prev>>

\* internal_lock.unlock ().  Mutant: it is left out.
NeverReleased(t) ==
    /\ pc[t] = "release"
    /\ Return(t)
    /\ UNCHANGED <<holder, prev, local>>

Release(t) ==
    /\ pc[t] = "release"
    /\ holder' = [holder EXCEPT ![target[t]] = NoThread]
    /\ Return(t)
    /\ UNCHANGED <<prev, local>>

\* A thread wants another mutex; or it goes on, out of its last guard in the end.
Invoke(t)  == \E m \in Mutex : CallLock(t, m) \/ CallTryLock(t, m)
Proceed(t) == Acquire(t) \/ Update(t) \/ Release(t) \/ \E m \in Mutex : CallUnlock(t, m)

Next == \E t \in Thread : Invoke(t) \/ Proceed(t)

Spec == Init /\ [][Next]_vars

-----------------------------------------------------------------------------
(* Properties *)

\* Every variable stays in its range, and a mutex about to be recorded or given
\* back is held by the thread that does so.
TypeOK == /\ holder \in [Mutex -> Thread \cup {NoThread}]
          /\ prev \in [Mutex -> 0 .. MaxLevel]
          /\ local \in [Thread -> 0 .. MaxLevel]
          /\ pc \in [Thread -> PCs]
          /\ target \in [Thread -> Mutex \cup {NoMutex}]
          /\ \A t \in Thread : pc[t] \in {"update", "release"} => holder[target[t]] = t

\* The mutexes thread t holds, but for one whose lock or unlock call still runs.
Held(t) == {m \in Mutex : /\ holder[m] = t
                          /\ ~(pc[t] \in {"update", "release"} /\ target[t] = m)}

\* A thread's level is the lowest of those it holds, and the initial one when it
\* holds nothing: whatever was locked and unlocked before, and by whom, each
\* unlock brings back the level the matching lock replaced (lines 24-25, 40).
LocalIsLowest ==
    \A t \in Thread :
       /\ \A m \in Held(t) : local[t] <= Level[m]
       /\ local[t] = MaxLevel \/ \E m \in Held(t) : local[t] = Level[m]

\* t waits for a mutex that u holds.
WaitsFor(t, u) == pc[t] = "acquire" /\ holder[target[t]] = u

\* "Enforcing an one-way lock traversing order and eliminating deadlock" (line
\* 74): no threads, one alone included, all wait for mutexes they hold themselves.
NoDeadlock ==
    \A D \in (SUBSET Thread) \ {{}} : \E t \in D : \A u \in D : ~WaitsFor(t, u)

\* The order of unlocks is the reverse of that of locks (lines 38-39): the mutex a
\* thread gives back is the lowest it holds.
UnlocksInOrder ==
    [][\A t \in Thread : \A m \in Held(t) :
          m \notin Held(t)' => \A k \in Held(t) \ {m} : Level[m] < Level[k]]_vars

\* Whoever waits in lock() gets the mutex.
LocksReturn == \A t \in Thread : pc[t] = "acquire" ~> pc[t] = "idle"
=============================================================================
