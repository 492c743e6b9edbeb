-------------------------- MODULE ParallelQuickSort --------------------------
(***************************************************************************)
(* Quick sort, three times:                                                   *)
(*   "pool"        sorter of "Chapter 8 - Parallel quick sort by dividing       *)
(*                 data.cpp", whose threads take chunks off a stack             *)
(*   "async"       parallel_quick_sort_async, and                              *)
(*   "sequential"  sequential_quick_sort, both of "Chapter 4 - Functional        *)
(*                 Programming and QuickSort.cpp"                              *)
(*                                                                          *)
(* A list to be sorted is the set of its elements: std::partition leaves their   *)
(* order open, so any of them may be the first.  The lower half split off at an   *)
(* element is the chunk of that element's name.  The stack of chunks, which the    *)
(* code only assumes, is atomic, and its pop() of nothing returns nullptr.       *)
(***************************************************************************)
EXTENDS Integers, Sequences, FiniteSets

CONSTANTS Elem,      \* the elements of the input
          Key,       \* the values they may have
          Hardware,  \* what hardware_concurrency() may return, 0 for unknown
          Helper,    \* the threads that may be started
          Main       \* the thread that calls, and the chunk that is the whole input

\* What a call is for that is not for a chunk.
Higher == "higher half"

ASSUME EnoughHelpers == /\ Key \subseteq Int /\ Hardware \subseteq Nat
                        /\ Main \notin Helper \cup Elem
                        /\ Higher \notin Elem \cup {Main}
                        /\ IsFiniteSet(Elem) /\ IsFiniteSet(Helper)
                        /\ Cardinality(Helper) >= Cardinality(Elem)

VARIABLES version, key, hardware,
          stack,        \* the calls of each thread, the current one last
          chunks,       \* the chunks nobody has taken, the top last
          lower,        \* the data of each chunk
          ready,        \* the chunks whose future is
          future,       \* what it then holds
          started,      \* the threads started
          growing,      \* those in the middle of threads.push_back ()
          size,         \* threads.size ()
          raced,        \* threads was used while another thread changed it: what the
                        \* program does from there on is undefined
          end_of_data,
          ended,        \* the threads that have returned from sort_thread
          done          \* the call has returned

input   == <<version, key, hardware>>
work    == <<chunks, lower, ready, future>>
pool    == <<started, growing, size, raced>>
closing == <<end_of_data, ended, done>>
vars    == <<input, stack, work, pool, closing>>

Thread == Helper \cup {Main}

\* A call of do_sort: for the chunk whose promise is to be given the result, or for
\* the call below it, which waits for its higher half.
Frame(c, s, d) == [chunk |-> c, step |-> s, data |-> d, result |-> <<>>]

Top(t)        == stack[t][Len(stack[t])]
Below(t)      == SubSeq(stack[t], 1, Len(stack[t]) - 1)
At(t, s)      == ~raced /\ stack[t] # <<>> /\ Top(t).step = s
Become(t, f)  == stack' = [stack EXCEPT ![t] = Append(Below(t), f)]
Goto(t, s)    == Become(t, [Top(t) EXCEPT !.step = s])

Init == /\ version \in {"pool", "async", "sequential"}
        /\ key \in [Elem -> Key]
        /\ hardware \in Hardware
        /\ stack = [t \in Thread |-> IF t = Main THEN <<Frame(Main, "split", Elem)>> ELSE <<>>]
        /\ chunks = <<>>
        /\ lower = [e \in Elem |-> {}]
        /\ ready = {}
        /\ future = [c \in Elem \cup {Main} |-> <<>>]
        /\ started = {} /\ growing = {} /\ size = 0 /\ raced = FALSE
        /\ end_of_data = FALSE /\ ended = {} /\ done = FALSE

\* hardware_concurrency() - 1, which is unsigned: UINT_MAX is more than is ever started.
max_thread_count == IF hardware = 0 THEN Cardinality(Helper) ELSE hardware - 1

-----------------------------------------------------------------------------
(* do_sort() *)

\* The higher half, sorted, goes behind the pivot.
WithHigher(f, r) == [f EXCEPT !.step = "wait", !.result = @ \o r]

\* The result of a call: to its promise, or to the call below.
Deliver(t, r) ==
    IF Top(t).chunk # Higher
      THEN /\ stack' = [stack EXCEPT ![t] = Below(t)]
           /\ ready' = ready \cup {Top(t).chunk}
           /\ future' = [future EXCEPT ![Top(t).chunk] = r]
      ELSE LET b == Below(t)
               n == Len(b)
           IN  /\ stack' = [stack EXCEPT ![t] = [b EXCEPT ![n] = WithHigher(b[n], r)]]
               /\ UNCHANGED <<ready, future>>

ReturnEmpty(t) ==
    /\ At(t, "split") /\ Top(t).data = {}
    /\ Deliver(t, <<>>)
    /\ UNCHANGED <<input, chunks, lower, pool, closing>>

\* The pivot p goes into the result; low is what is less than it, and the rest stays.
Low(t, p)        == {e \in Top(t).data : key[e] < key[p]}
Rest(t, p, s)    == [Top(t) EXCEPT !.data = @ \ (Low(t, p) \cup {p}), !.result = <<p>>, !.step = s]
Partition(t, p)  == /\ At(t, "split") /\ p \in Top(t).data
                    /\ lower' = [lower EXCEPT ![p] = Low(t, p)]
                    /\ UNCHANGED <<input, ready, future, pool, closing>>

\* The lower half is left to whoever takes it.
Split(t, p) ==
    /\ version # "sequential"
    /\ Partition(t, p)
    /\ Become(t, Rest(t, p, IF version = "pool" THEN "spawn" ELSE "higher"))
    /\ chunks' = Append(chunks, p)

\* sequential_quick_sort sorts the lower half itself, and first.
SortLower(t, p) ==
    /\ version = "sequential"
    /\ Partition(t, p)
    /\ stack' = [stack EXCEPT ![t] =
          Below(t) \o <<Rest(t, p, "higher"), Frame(p, "split", Low(t, p))>>]
    /\ UNCHANGED chunks

\* threads.size () < max_thread_count, and the thread pushed if it is: the vector is
\* not protected, and the thread runs before push_back () has stored it.
CheckSize(t) ==
    /\ At(t, "spawn")
    /\ raced' = (growing # {})
    /\ IF size < max_thread_count
         THEN \E h \in Helper \ started : /\ started' = started \cup {h}
                                          /\ growing' = growing \cup {t}
                                          /\ Goto(t, "push_back")
         ELSE Goto(t, "higher") /\ UNCHANGED <<started, growing>>
    /\ UNCHANGED <<input, work, size, closing>>

PushBack(t) ==
    /\ At(t, "push_back")
    /\ growing' = growing \ {t}
    /\ size' = size + 1
    /\ Goto(t, "higher")
    /\ UNCHANGED <<input, work, started, raced, closing>>

\* new_higher (do_sort (chunk_data))
CallHigher(t) ==
    /\ At(t, "higher")
    /\ stack' = [stack EXCEPT ![t] = Below(t) \o
                   <<[Top(t) EXCEPT !.step = "calling"], Frame(Higher, "split", Top(t).data)>>]
    /\ UNCHANGED <<input, work, pool, closing>>

\* The pivot is the first of the call's result, and the name of its chunk.
Pivot(f) == f.result[1]

\* The lower half goes in front.  Mutant: behind.
LowerLast(low, res) == res \o low
Splice(low, res)    == low \o res

Finish(t) ==
    /\ At(t, "wait") /\ Pivot(Top(t)) \in ready
    /\ Deliver(t, Splice(future[Pivot(Top(t))], Top(t).result))
    /\ UNCHANGED <<input, chunks, lower, pool, closing>>

\* new_lower is not ready: "help by using this thread to work on the data on the stack".
Poll(t) ==
    /\ version = "pool"
    /\ At(t, "wait") /\ Pivot(Top(t)) \notin ready
    /\ Goto(t, "help")
    /\ UNCHANGED <<input, work, pool, closing>>

\* What is left on the stack of chunks when one is taken.
Without(i) == SubSeq(chunks, 1, i - 1) \o SubSeq(chunks, i + 1, Len(chunks))

\* try_sort_chunk ().  The call on top, if there is one, goes back to its wait.
TakeChunk(t, i) ==
    /\ chunks' = Without(i)
    /\ stack' = [stack EXCEPT ![t] =
          (IF @ = <<>> THEN @ ELSE Append(Below(t), [Top(t) EXCEPT !.step = "wait"]))
             \o <<Frame(chunks[i], "split", lower[chunks[i]])>>]

\* Mutant: a thread that waits does not help.
OnlyWaits(t) ==
    /\ At(t, "help")
    /\ Goto(t, "wait")
    /\ UNCHANGED <<input, work, pool, closing>>

Help(t) ==
    /\ At(t, "help") /\ chunks # <<>>
    /\ TakeChunk(t, Len(chunks))
    /\ UNCHANGED <<input, lower, ready, future, pool, closing>>

HelpNone(t) ==
    /\ At(t, "help") /\ chunks = <<>>
    /\ Goto(t, "wait")
    /\ UNCHANGED <<input, work, pool, closing>>

-----------------------------------------------------------------------------
(* std::async, sort_thread() and ~sorter() *)

\* The system starts a thread for a chunk,
AsyncStarts(h, i) ==
    /\ version = "async" /\ h \notin started
    /\ started' = started \cup {h}
    /\ TakeChunk(h, i)
    /\ UNCHANGED <<input, lower, ready, future, growing, size, raced, closing>>

\* or leaves it to low_fut.get ().
Deferred(t, i) ==
    /\ version = "async" /\ At(t, "wait") /\ chunks[i] = Pivot(Top(t))
    /\ TakeChunk(t, i)
    /\ UNCHANGED <<input, lower, ready, future, pool, closing>>

\* One round of sort_thread; the test of end_of_data may be old.
SortChunk(h) ==
    /\ version = "pool" /\ ~raced /\ h \in started \ ended /\ stack[h] = <<>>
    /\ chunks # <<>>
    /\ TakeChunk(h, Len(chunks))
    /\ UNCHANGED <<input, lower, ready, future, pool, closing>>

LeaveLoop(h) ==
    /\ version = "pool" /\ ~raced /\ h \in started \ ended /\ stack[h] = <<>>
    /\ end_of_data
    /\ ended' = ended \cup {h}
    /\ UNCHANGED <<input, stack, work, pool, end_of_data, done>>

\* The sorter is destroyed: "signal other threads", and join them.
EndData ==
    /\ ~raced /\ version = "pool" /\ Main \in ready /\ ~end_of_data
    /\ end_of_data' = TRUE
    /\ UNCHANGED <<input, stack, work, pool, ended, done>>

JoinAll ==
    /\ ~raced /\ Main \in ready /\ ~done
    /\ version = "pool" => end_of_data /\ started \subseteq ended
    /\ done' = TRUE
    /\ UNCHANGED <<input, stack, work, pool, end_of_data, ended>>

-----------------------------------------------------------------------------
Step(t) == \/ ReturnEmpty(t) \/ (\E p \in Elem : Split(t, p) \/ SortLower(t, p))
           \/ CheckSize(t) \/ PushBack(t)
           \/ CallHigher(t) \/ Finish(t) \/ Poll(t) \/ Help(t) \/ HelpNone(t)
           \/ (\E i \in DOMAIN chunks : Deferred(t, i)) \/ SortChunk(t) \/ LeaveLoop(t)

Stopped == (done \/ raced) /\ UNCHANGED vars

Next == \/ \E t \in Thread : Step(t)
        \/ \E h \in Helper, i \in DOMAIN chunks : AsyncStarts(h, i)
        \/ EndData \/ JoinAll \/ Stopped

Spec == Init /\ [][Next]_vars

-----------------------------------------------------------------------------
(* Properties *)

\* "Make sure all works is finished by time the original function return" (line 104):
\* whoever has sorted which chunk, the result is the input, in order, and no chunk, no
\* call and no thread is left.
SortsInput ==
    done => LET r == future[Main]
            IN  /\ Len(r) = Cardinality(Elem) /\ {r[i] : i \in DOMAIN r} = Elem
                /\ \A i \in 1 .. Len(r) - 1 : key[r[i]] <= key[r[i + 1]]
                /\ chunks = <<>>
                /\ \A t \in Thread : stack[t] = <<>>
=============================================================================
