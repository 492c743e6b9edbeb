------------------------------ MODULE FifoQueue ------------------------------
(***************************************************************************)
(* What every queue of the repository promises its callers: an atomic,     *)
(* unbounded FIFO queue.  A call takes effect in one step, between its      *)
(* invocation and its return; answer[t] is what that step decided thread    *)
(* t's call will return.                                                    *)
(***************************************************************************)
EXTENDS Sequences

CONSTANTS Thread,    \* the calling threads
          Value      \* the values pushed

VARIABLES items,     \* the values in the queue, oldest first
          answer     \* per thread, the decided result of its current call

vars == <<items, answer>>

Undecided == "undecided"
IsEmpty   == "empty"
NotEmpty  == "not empty"
Answers   == Value \cup {Undecided, IsEmpty, NotEmpty}

Init == /\ items = <<>>
        /\ answer = [t \in Thread |-> Undecided]

Decide(t, a) == /\ answer[t] = Undecided
                /\ answer' = [answer EXCEPT ![t] = a]

Enqueue(v) == /\ items' = Append(items, v)
              /\ UNCHANGED answer

Dequeue(t) == /\ items # <<>>
              /\ Decide(t, Head(items))
              /\ items' = Tail(items)

\* try_pop() that finds nothing, or empty() that returns true.
FindEmpty(t) == /\ items = <<>>
                /\ Decide(t, IsEmpty)
                /\ UNCHANGED items

\* empty() that returns false.
FindData(t) == /\ items # <<>>
               /\ Decide(t, NotEmpty)
               /\ UNCHANGED items

\* The caller has its result; the thread may call again.
Return(t) == /\ answer' = [answer EXCEPT ![t] = Undecided]
             /\ UNCHANGED items

Next == \/ \E v \in Value : Enqueue(v)
        \/ \E t \in Thread : Dequeue(t) \/ FindEmpty(t) \/ FindData(t) \/ Return(t)

Spec == Init /\ [][Next]_vars
=============================================================================
