--------------------------- MODULE MCCountedQueues ---------------------------
(* Both queues of CountedQueueNodes for TLC, in the uses they are correct in: one *)
(* producer and any consumers, or producers only; and the helping one as far as it    *)
(* has not gone astray.  (Several producers beside consumers are in                *)
(* MCSplitCountQueue; the helping queue astray is the run of MCHelpingQueue.cfg.)   *)
EXTENDS HelpingQueue, TLC

CONSTANTS t1, t2, t3

Spinning == INSTANCE SplitCountQueue

\* helps: the queue is the one whose pushes help each other.
MCCasts == [pushers : {{t1}}, poppers : kSubset(2, Thread), helps : BOOLEAN]
             \cup [pushers : {Thread}, poppers : {{}}, helps : BOOLEAN]

SpinningNext == ~cast.helps /\ Spinning!Next /\ UNCHANGED neo
HelpingNext  == cast.helps /\ ~Astray /\ Next

BothSpec == Init /\ [][SpinningNext \/ HelpingNext]_vars

\* In the queue without help, the data of the dummy node is the lock of the one push
\* that stored it there (line 79).
TailIsClaimed == ~cast.helps => Spinning!TailIsClaimed

\* In the queue with help, the node linked behind the dummy one is allocated, has no value,
\* and is nobody's to delete, whoever of the push and its helpers linked it.
HelpLeavesNoTrace == cast.helps => NextTailIsFresh

\* Producers only, of the queue whose pushes help each other: Spec is that queue to the end.
MCProducers == [pushers : {Thread}, poppers : {{}}, helps : {TRUE}]

AllAlike == Permutations(Thread) \cup Permutations(Node)
Symmetry == Permutations({t2, t3}) \cup Permutations(Node) \cup Permutations(Value)
=============================================================================
