------------------------------ MODULE MCMutexes ------------------------------
(* What threads wait for inside a call, one or the other of two.                    *)
(*   "mutexes"  HierarchicalMutex with a bounded number of locks per thread, each of   *)
(*              which is followed by its unlock, as a lock guard does.  A std::mutex    *)
(*              need not be fair, so a thread could wait for ever behind others that    *)
(*              lock again and again; the bound leaves only the waits that the          *)
(*              hierarchy must rule out.                                             *)
(*   "queue"    MonitorQueue, with threads that make any calls on a queue with one     *)
(*              mutex and a condition variable; in its "chunks" one prepares what the    *)
(*              others process.                                                      *)
EXTENDS HierarchicalMutex

CONSTANTS MaxCalls,      \* bound: locks each thread takes
          Prep, Value, LastChunk, DefaultValue, MaxItems   \* of the queue

VARIABLES used,          \* which of the two
          calls,         \* how many locks each thread has asked for
          version, data_queue, where, op, notified, answer, lost   \* of the queue

Queue == INSTANCE MonitorQueue WITH pc <- where

ASSUME Roles == Queue!RolesAndValues

MCMutex == 1 .. 3
MCLevel == <<3, 2, 2>>

lockVars  == <<vars, calls>>
queueVars == <<version, data_queue, where, op, notified, answer, lost>>

AnyInit == /\ used \in {"mutexes", "queue"}
           /\ Init /\ calls = [t \in Thread |-> 0]
           /\ Queue!Init
           /\ used # "queue" => version = "pointers"

Ask(t) == /\ calls[t] < MaxCalls
          /\ calls' = [calls EXCEPT ![t] = @ + 1]
          /\ Invoke(t)

Continue(t) == Proceed(t) /\ UNCHANGED calls

LockNext  == /\ used = "mutexes"
             /\ \E t \in Thread : Ask(t) \/ Continue(t)
             /\ UNCHANGED <<used, queueVars>>
QueueNext == used = "queue" /\ Queue!Next /\ UNCHANGED <<used, lockVars>>

\* Safety needs no more than this,
SafeSpec == AnyInit /\ [][LockNext \/ QueueNext]_<<used, lockVars, queueVars>>

\* and liveness that a thread which can go on with its call does, and one that waits for
\* the mutex of the queue gets it in the end.
AnySpec == /\ SafeSpec
           /\ \A t \in Thread : WF_lockVars(used = "mutexes" /\ Continue(t))
           /\ Queue!Fairness

-----------------------------------------------------------------------------
(* The properties of the queue; those of the mutexes are in HierarchicalMutex. *)

\* With waits, wakeups and exceptions in between, every call on a queue with one mutex
\* returns what an atomic FIFO queue would.
IsFifo == Queue!IsFifo

\* No thread sleeps beside data in the queue, unless a thread that was notified threw.
WaitersServed == Queue!WaitersServed
=============================================================================
