---------------------------- MODULE MonitorQueue ----------------------------
(***************************************************************************)
(* The queues with one mutex m, a std::queue and a condition variable:        *)
(*   "pointers"  threadsafe_queue of "Chapter 6 - Thread safe queue using      *)
(*               queue holding share pointer - Better exception handling.cpp"  *)
(*   "values"    threadsafe_queue of "Chapter 4 - Thread safe Queue using      *)
(*               condition variables.cpp" (commented out there)                *)
(*   "chunks"    the two functions of "Chapter 4 - Waiting for data to process *)
(*               with conditional variables.cpp" (commented out there)         *)
(* What is done under m is one step: nobody else sees any of it.  A copy of a   *)
(* shared_ptr does not throw, so the catch block of try_pop() (lines 46-49) is    *)
(* never entered.  The copy constructor of "values", which locks the mutex of the  *)
(* copy and not that of the original, is left out.                             *)
(***************************************************************************)
EXTENDS Integers, Sequences

CONSTANTS Thread,       \* the calling threads
          Prep,         \* those that run data_prep_thread in "chunks"
          Value,        \* the values pushed
          LastChunk,    \* those for which is_last_chunk holds
          DefaultValue, \* T ()
          MaxItems      \* bound: items in the queue

\* What is assumed of the constants.
RolesAndValues == /\ Prep \subseteq Thread /\ LastChunk \subseteq Value
                  /\ DefaultValue \notin Value /\ MaxItems \in Nat
                  /\ (Value \cup {DefaultValue}) \cap {"undecided", "empty", "not empty"} = {}

VARIABLES version,      \* which of the three
          data_queue,
          pc,           \* where each thread is in its call
          op,           \* which call that is
          notified,     \* the threads woken by a notify_one() that they have not acted on
          answer,       \* the result of the last call, once it is known
          lost          \* history variable: a call that was notified has thrown

vars == <<version, data_queue, pc, op, notified, answer, lost>>

Versions == {"pointers", "values", "chunks"}
WaitOps  == {"wait_and_pop()", "wait_and_pop(T&)"}
PCs      == {"idle", "lock", "blocked", "notify", "over"}

\* The calls a thread may make; the functions of "chunks" only push or only pop.
Calls(t) == CASE version = "pointers" -> WaitOps \cup {"try_pop()", "try_pop(T&)"}
              [] version = "values"   -> WaitOps \cup {"try_pop()", "try_pop(T&)", "empty"}
              [] version = "chunks"   -> IF t \in Prep THEN {} ELSE {"wait_and_pop(T&)"}

Goto(t, l) == pc' = [pc EXCEPT ![t] = l]

Init == /\ version \in Versions
        /\ data_queue = <<>>
        /\ pc = [t \in Thread |-> "idle"]
        /\ op = [t \in Thread |-> "none"]
        /\ notified = {}
        /\ answer = [t \in Thread |-> "undecided"]
        /\ lost = FALSE

-----------------------------------------------------------------------------
(* push(), data_prep_thread() *)

Blocked == {t \in Thread : pc[t] = "blocked"}

\* cond.notify_one () by t, which is then done.
NotifyOne(t) == IF Blocked = {}
                THEN Goto(t, "idle") /\ UNCHANGED notified
                ELSE \E w \in Blocked : /\ pc' = [pc EXCEPT ![t] = "idle", ![w] = "lock"]
                                        /\ notified' = notified \cup {w}

\* Mutant: push() notifies only if the queue was empty.
NotifyFirst(t) == IF data_queue # <<>>
                  THEN Goto(t, "idle") /\ UNCHANGED notified
                  ELSE NotifyOne(t)
PushNotify(t)  == NotifyOne(t)

\* data_prep_thread is run by its own threads.
MayPush(t) == version = "chunks" => t \in Prep

\* "pointers" notifies with m held, the others after they have unlocked it.
Push(t, v) ==
    /\ pc[t] = "idle" /\ MayPush(t)
    /\ Len(data_queue) < MaxItems
    /\ data_queue' = Append(data_queue, v)
    /\ IF version = "pointers" THEN PushNotify(t)
                               ELSE Goto(t, "notify") /\ UNCHANGED notified
    /\ UNCHANGED <<version, op, answer, lost>>

Notify(t) ==
    /\ pc[t] = "notify"
    /\ NotifyOne(t)
    /\ UNCHANGED <<version, data_queue, op, answer, lost>>

-----------------------------------------------------------------------------
(* wait_and_pop(), try_pop(), empty(), data_processing_thread() *)

Call(t, o) ==
    /\ pc[t] = "idle"
    /\ op' = [op EXCEPT ![t] = o]
    /\ answer' = [answer EXCEPT ![t] = "undecided"]
    /\ Goto(t, "lock")
    /\ UNCHANGED <<version, data_queue, notified, lost>>

\* The call that has the mutex returns, and what it was notified of is dealt with.
Finish(t, a, l) == /\ answer' = [answer EXCEPT ![t] = a]
                   /\ op' = [op EXCEPT ![t] = "none"]
                   /\ Goto(t, l)
                   /\ notified' = notified \ {t}
                   /\ UNCHANGED version

\* The predicate of cond.wait () does not hold.
Sleep(t) ==
    /\ pc[t] = "lock" /\ op[t] \in WaitOps
    /\ data_queue = <<>>
    /\ Goto(t, "blocked")
    /\ notified' = notified \ {t}
    /\ UNCHANGED <<version, data_queue, op, answer, lost>>

SpuriousWake(t) ==
    /\ pc[t] = "blocked"
    /\ Goto(t, "lock")
    /\ UNCHANGED <<version, data_queue, op, notified, answer, lost>>

\* An empty queue: false, a null pointer, or in "values" a pointer to a T ().
FindEmpty(t) ==
    /\ pc[t] = "lock" /\ op[t] \notin WaitOps
    /\ data_queue = <<>>
    /\ Finish(t, IF version = "values" /\ op[t] = "try_pop()" THEN DefaultValue ELSE "empty", "idle")
    /\ UNCHANGED <<data_queue, lost>>

FindData(t) ==
    /\ pc[t] = "lock" /\ op[t] = "empty"
    /\ data_queue # <<>>
    /\ Finish(t, "not empty", "idle")
    /\ UNCHANGED <<data_queue, lost>>

\* data_processing_thread ends with the last chunk; other callers go on.
AfterPop(v) == IF version = "chunks" /\ v \in LastChunk THEN "over" ELSE "idle"

\* front () and pop ().
Pop(t) ==
    /\ pc[t] = "lock" /\ op[t] # "empty"
    /\ data_queue # <<>>
    /\ data_queue' = Tail(data_queue)
    /\ Finish(t, Head(data_queue), AfterPop(Head(data_queue)))
    /\ UNCHANGED lost

\* The value is moved or copied, and in "values" its shared_ptr made, before pop ().
\* An int of "chunks" does not throw.
CanThrow(t) == CASE version = "pointers" -> op[t] \in {"wait_and_pop(T&)", "try_pop(T&)"}
                 [] version = "values"   -> op[t] # "empty"
                 [] version = "chunks"   -> FALSE

\* "Even with exception, the queue won't be touched" (line 20).  Mutant: pop () first.
Popped    == Tail(data_queue)
Untouched == data_queue

Throw(t) ==
    /\ pc[t] = "lock" /\ CanThrow(t)
    /\ data_queue # <<>>
    /\ data_queue' = Untouched
    /\ lost' = (lost \/ t \in notified)
    /\ Finish(t, "undecided", "idle")

-----------------------------------------------------------------------------
Proceed(t) == Notify(t) \/ Sleep(t) \/ FindEmpty(t) \/ FindData(t) \/ Pop(t)

\* Every data_processing_thread has had its last chunk.
Over == (\A t \in Thread \ Prep : pc[t] = "over") /\ UNCHANGED vars

Next == \/ \E t \in Thread : \/ \E v \in Value : Push(t, v)
                             \/ \E o \in Calls(t) : Call(t, o)
                             \/ Proceed(t) \/ SpuriousWake(t) \/ Throw(t)
        \/ Over

Spec == Init /\ [][Next]_vars

\* A thread that has been called, or notified, gets the mutex in the end.
Fairness == \A t \in Thread : WF_vars(Proceed(t) \/ Throw(t))

-----------------------------------------------------------------------------
(* Properties *)

Result(t) == IF answer[t] = DefaultValue THEN "empty" ELSE answer[t]

Fifo == INSTANCE FifoQueue WITH items <- data_queue, answer <- [t \in Thread |-> Result(t)]

\* With waits, wakeups and exceptions in between, every call returns what an atomic
\* FIFO queue would, and a pop that throws has taken nothing.  (That a T () that
\* try_pop() of "values" returns stands for an empty queue, the caller cannot tell.)
IsFifo == Fifo!Spec

\* A thread does not sleep beside data: neither a notification that finds nobody, nor
\* one that comes before or after the mutex is released, nor a pop that overtakes the
\* thread notified leaves a waiter behind.  The one exception is that of lines 56-57,
\* "not good if there's a thread receive the signal and then throw".
WaitersServed ==
    \A t \in Thread :
       (pc[t] = "blocked" /\ data_queue # <<>>) ~> (pc[t] # "blocked" \/ data_queue = <<>> \/ lost)
=============================================================================
