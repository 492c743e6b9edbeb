------------------------------ MODULE AtomicMap ------------------------------
(***************************************************************************)
(* What a thread-safe map promises its callers: an atomic map.  A call takes  *)
(* effect in one step, between its invocation and its return; answer[t] is     *)
(* what that step decided thread t's call will return.                         *)
(***************************************************************************)
CONSTANTS Thread,     \* the calling threads
          Key, Value,
          NoValue,    \* the value of a key that is not in the map
          Default,    \* what a look-up of such a key returns
          Undecided   \* no answer yet

VARIABLES map,        \* map[k]: the value k is mapped to
          answer      \* per thread, the decided result of its current look-up

vars == <<map, answer>>

Init == /\ map = [k \in Key |-> NoValue]
        /\ answer = [t \in Thread |-> Undecided]

Decide(t, a) == /\ answer[t] = Undecided
                /\ answer' = [answer EXCEPT ![t] = a]
                /\ UNCHANGED map

LookUp(t, k) == Decide(t, IF map[k] = NoValue THEN Default ELSE map[k])

\* The whole map at one instant.
Snapshot(t)  == Decide(t, map)

Map(k, v)    == /\ map' = [map EXCEPT ![k] = v]
                /\ UNCHANGED answer

\* The caller has its result.
Return(t)    == /\ answer' = [answer EXCEPT ![t] = Undecided]
                /\ UNCHANGED map

Next == \/ \E t \in Thread : Return(t) \/ Snapshot(t) \/ \E k \in Key : LookUp(t, k)
        \/ \E k \in Key, v \in Value \cup {NoValue} : Map(k, v)

Spec == Init /\ [][Next]_vars
=============================================================================
