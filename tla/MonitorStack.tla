----------------------------- MODULE MonitorStack -----------------------------
(***************************************************************************)
(* threadsafe_stack of "Chapter 6 - Threaded safe stack using mutex - A class  *)
(* definition example.cpp" and ThreadSafe_Stack of "Chapter 3 - Threadd-safe    *)
(* Stack.cpp": a std::stack behind one mutex.  To move or copy a value out, or   *)
(* to allocate a shared_ptr for it, may throw, and comes before data.pop ().     *)
(***************************************************************************)
EXTENDS Integers, Sequences

CONSTANTS Thread, Value,
          NoValue,    \* no value
          NoThread,   \* the owner of a free mutex
          MaxItems    \* bound: the items on the stack

VARIABLES items,      \* data, bottom first
          m,          \* who holds the mutex
          at,         \* where each thread is in its call
          call,       \* the call
          val         \* push's argument, and what pop has moved out

vars == <<items, m, at, call, val>>

Goto(t, l) == at' = [at EXCEPT ![t] = l]

Init == /\ items = <<>>
        /\ m = NoThread
        /\ at = [t \in Thread |-> "idle"]
        /\ call = [t \in Thread |-> "none"]
        /\ val = [t \in Thread |-> NoValue]

Call(t, c, v) == /\ at[t] = "idle"
                 /\ Goto(t, "lock")
                 /\ call' = [call EXCEPT ![t] = c]
                 /\ val' = [val EXCEPT ![t] = v]
                 /\ UNCHANGED <<items, m>>

\* scoped_lock guard{ m }
Lock(t) == /\ at[t] = "lock"
           /\ m = NoThread
           /\ m' = t
           /\ Goto(t, call[t])
           /\ UNCHANGED <<items, call, val>>

Push(t) == /\ at[t] = "push"
           /\ Len(items) < MaxItems
           /\ items' = Append(items, val[t])
           /\ Goto(t, "pushed")
           /\ UNCHANGED <<m, call, val>>

\* throw empty_stack (), or empty () returns true.
FindEmpty(t) == /\ at[t] \in {"pop", "empty"}
                /\ items = <<>>
                /\ Goto(t, "found empty")
                /\ UNCHANGED <<items, m, call, val>>

\* data.top () into the result.
Top(t) == /\ at[t] = "pop"
          /\ items # <<>>
          /\ val' = [val EXCEPT ![t] = items[Len(items)]]
          /\ Goto(t, "top")
          /\ UNCHANGED <<items, m, call>>

\* data.pop ()
Pop(t) == /\ at[t] = "top"
          /\ items' = SubSeq(items, 1, Len(items) - 1)
          /\ Goto(t, "popped")
          /\ UNCHANGED <<m, call, val>>

\* The guard is destroyed: the call returns, empty () finds items, or the move, the
\* copy or the allocation of Push or Top throws.
Return(t) == /\ at[t] \in {"pushed", "popped", "found empty", "push", "pop", "empty"}
             /\ at[t] = "empty" => items # <<>>
             /\ m' = NoThread
             /\ Goto(t, "idle")
             /\ call' = [call EXCEPT ![t] = "none"]
             /\ val' = [val EXCEPT ![t] = NoValue]
             /\ UNCHANGED items

Next == \E t \in Thread : \/ \E v \in Value : Call(t, "push", v)
                          \/ \E c \in {"pop", "empty"} : Call(t, c, NoValue)
                          \/ Lock(t) \/ Push(t) \/ FindEmpty(t)
                          \/ Top(t) \/ Pop(t) \/ Return(t)

Spec == Init /\ [][Next]_vars

-----------------------------------------------------------------------------
\* What a call has found, once it has taken effect.
Result(t) == IF at[t] = "popped" THEN val[t]
             ELSE IF at[t] = "found empty" THEN "empty"
             ELSE "undecided"
=============================================================================
