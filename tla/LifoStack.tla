------------------------------ MODULE LifoStack ------------------------------
(***************************************************************************)
(* What every stack of the repository promises its callers: an atomic LIFO  *)
(* stack.  A call takes effect in one step, between its invocation and its   *)
(* return; answer[t] is what that step decided thread t's pop will return.   *)
(***************************************************************************)
EXTENDS Integers, Sequences

CONSTANTS Thread,    \* the calling threads
          Value,     \* the values pushed
          IsEmpty,   \* the answer of a pop that found nothing
          Undecided  \* no answer yet

VARIABLES items,     \* the values on the stack, bottom first
          answer     \* per thread, the decided result of its current pop

vars == <<items, answer>>

Init == /\ items = <<>>
        /\ answer = [t \in Thread |-> Undecided]

Decide(t, a) == /\ answer[t] = Undecided
                /\ answer' = [answer EXCEPT ![t] = a]

Push(v) == /\ items' = Append(items, v)
           /\ UNCHANGED answer

Pop(t) == /\ items # <<>>
          /\ Decide(t, items[Len(items)])
          /\ items' = SubSeq(items, 1, Len(items) - 1)

FindEmpty(t) == /\ items = <<>>
                /\ Decide(t, IsEmpty)
                /\ UNCHANGED items

\* The caller has its result.
Return(t) == /\ answer' = [answer EXCEPT ![t] = Undecided]
             /\ UNCHANGED items

Next == \/ \E v \in Value : Push(v)
        \/ \E t \in Thread : Pop(t) \/ FindEmpty(t) \/ Return(t)

Spec == Init /\ [][Next]_vars
=============================================================================
