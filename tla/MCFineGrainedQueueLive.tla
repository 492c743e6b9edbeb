----------------------- MODULE MCFineGrainedQueueLive -----------------------
(* FineGrainedQueue with a bounded number of calls per thread, no spurious     *)
(* wakeup and no exception, for liveness: what must happen must happen without *)
(* the help of a later call.                                                   *)
EXTENDS FineGrainedQueue

CONSTANT MaxCalls      \* bound: calls each thread makes

VARIABLE calls         \* how many each thread has made

allVars == <<vars, calls>>

LiveInit == Init /\ calls = [t \in Thread |-> 0]

Invoke(t) == /\ calls[t] < MaxCalls
             /\ calls' = [calls EXCEPT ![t] = @ + 1]
             /\ \/ \E v \in Value : CallPush(t, v)
                \/ \E o \in Ops \ {"none", "push"} : Call(t, o)

Continue(t) == Proceed(t) /\ UNCHANGED calls

LiveNext == \E t \in Thread : Invoke(t) \/ Continue(t)

LiveSpec == /\ LiveInit /\ [][LiveNext]_allVars
            /\ \A t \in Thread : WF_allVars(Continue(t))
=============================================================================
