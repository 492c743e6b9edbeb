------------------------- MODULE SplitCountStackProofs -------------------------
(***************************************************************************)
(* The inductive invariant of SplitCountStack, checked by TLAPS for any      *)
(* number of threads, addresses and values, and any bound on the counts.     *)
(* Then the same stack with its own memory orders, CustomOrderStack: its       *)
(* steps are steps of SplitCountStack, so that all of this carries over, and   *)
(* its orders are enough for two of the three things its comments promise:     *)
(* nodes are visible to those who use them, and the swap of the data happens    *)
(* before the delete.                                                          *)
(***************************************************************************)
EXTENDS CustomOrderStack, FiniteSetTheorems, SequenceTheorems, TLAPS

-----------------------------------------------------------------------------
(* The strengthening.  CountsBalance speaks of the nodes on the stack; to show  *)
(* that a deletion is right, the same must be known of a node that has been     *)
(* taken off it, before and after its external count has been added.            *)

\* Thread t has taken its node off the stack and not yet added the counts up.
Taken(t) == pc[t] \in {"swap", "add"}

\* What a thread knows at its program counter.
Locals == \A t \in Thread :
    /\ mine[t] # NoNode <=> pc[t] = "push"
    /\ ptr[t] # NoNode => pc[t] \in {"read", "take", "swap", "add", "sub"}
    /\ pc[t] \in {"take", "swap", "add", "sub"} => ptr[t] # NoNode
    /\ pc[t] \in {"read", "take", "swap", "add"} => old[t].ptr = ptr[t]
    /\ pc[t] = "take" => nxt[t] = next[ptr[t]]

\* A node that push has made is nobody else's.
FreshNodes == \A t \in Thread : mine[t] # NoNode =>
    /\ mine[t] \in live \ Linked
    /\ data[mine[t]] \in Value
    /\ internal[mine[t]] = 0
    /\ \A u \in Thread : ptr[u] # mine[t] /\ (mine[u] = mine[t] => u = t)

\* While a node is on the stack its internal count only goes down (line 89).
LinkedNodes ==
    /\ \A i, j \in DOMAIN stack : stack[i] = stack[j] => i = j
    /\ \A n \in Linked : data[n] \in Value /\ internal[n] <= 0

\* A taken node has one taker, who knows its last external count.
TakenNodes == \A t \in Thread : Taken(t) =>
    /\ ptr[t] \notin Linked
    /\ \A u \in Thread : Taken(u) /\ ptr[u] = ptr[t] => u = t
    /\ internal[ptr[t]] <= 0
    /\ old[t].external_count - 1 + internal[ptr[t]] = Cardinality(Holders(ptr[t]))
    /\ pc[t] = "swap" => data[ptr[t]] \in Value

\* Every other node counts exactly the threads that are not done with it.
LooseNodes == \A n \in live :
    (/\ n \notin Linked
     /\ \A t \in Thread : mine[t] # n /\ (Taken(t) => ptr[t] # n))
    => internal[n] = Cardinality(Holders(n)) /\ internal[n] > 0

IInv == /\ TypeOK /\ Locals /\ ListIsStack /\ NoUseAfterFree /\ CountsBalance
        /\ FreshNodes /\ LinkedNodes /\ TakenNodes /\ LooseNodes

-----------------------------------------------------------------------------
(* Facts about the helpers *)

\* A node has finitely many holders.
LEMMA HoldersFinite ==
  ASSUME NEW n
  PROVE  IsFiniteSet(Holders(n)) /\ Cardinality(Holders(n)) \in Nat
<1>1. Holders(n) \in SUBSET Thread
  BY DEF Holders
<1>2. IsFiniteSet(Holders(n))
  BY <1>1, ThreadsFinite, FS_Subset
<1> QED BY <1>2, FS_CardinalityType

LEMMA NullTyped == Null \in CountedPtrs
  BY BoundPositive DEF Null, Counted, CountedPtrs

\* A thread that announces n adds one holder to n and to no other node.
LEMMA HoldersJoin ==
  ASSUME TypeOK, NEW t \in Thread, NEW n \in Node, ptr[t] = NoNode,
         ptr' = [ptr EXCEPT ![t] = n]
  PROVE  /\ Cardinality(Holders(n)') = Cardinality(Holders(n)) + 1
         /\ \A m \in Node \ {n} : Holders(m)' = Holders(m)
<1>1. Holders(n)' = Holders(n) \cup {t}
  BY DEF Holders, TypeOK
<1>2. t \notin Holders(n)
  BY NullsDistinct DEF Holders
<1>3. \A m \in Node \ {n} : Holders(m)' = Holders(m)
  BY NullsDistinct DEF Holders, TypeOK
<1> QED BY <1>1, <1>2, <1>3, HoldersFinite, FS_AddElement

\* A thread that is done with n takes one holder from n and from no other node.
LEMMA HoldersLeave ==
  ASSUME TypeOK, NEW t \in Thread, NEW n \in Node, ptr[t] = n,
         ptr' = [ptr EXCEPT ![t] = NoNode]
  PROVE  /\ Cardinality(Holders(n)') = Cardinality(Holders(n)) - 1
         /\ \A m \in Node \ {n} : Holders(m)' = Holders(m)
<1>1. Holders(n)' = Holders(n) \ {t}
  BY NullsDistinct DEF Holders, TypeOK
<1>2. t \in Holders(n)
  BY DEF Holders
<1>3. \A m \in Node \ {n} : Holders(m)' = Holders(m)
  BY NullsDistinct DEF Holders, TypeOK
<1> QED BY <1>1, <1>2, <1>3, HoldersFinite, FS_RemoveElement

\* A held node has at least one holder.
LEMMA HeldOnce ==
  ASSUME NEW t \in Thread PROVE Cardinality(Holders(ptr[t])) >= 1
<1>1. t \in Holders(ptr[t])
  BY DEF Holders
<1> QED BY <1>1, HoldersFinite, FS_EmptySet

\* The list stays the same when no linked node is touched.
LEMMA ListKept ==
  ASSUME ListIsStack, UNCHANGED <<head, stack>>, stack \in Seq(Node),
         \A n \in Linked : next'[n] = next[n]
  PROVE  ListIsStack'
<1>1. \A i \in DOMAIN stack : next'[stack[i]] = next[stack[i]]
  BY DEF Linked
<1> QED BY <1>1 DEF ListIsStack, PointerTo

LEMMA CountsKept ==
  ASSUME CountsBalance, UNCHANGED <<head, stack>>, stack \in Seq(Node),
         \A n \in Linked : /\ next'[n] = next[n] /\ internal'[n] = internal[n]
                           /\ Holders(n)' = Holders(n)
  PROVE  CountsBalance'
<1>1. \A i \in DOMAIN stack : /\ next'[stack[i]] = next[stack[i]]
                              /\ internal'[stack[i]] = internal[stack[i]]
                              /\ Holders(stack[i])' = Holders(stack[i])
  BY DEF Linked
<1> QED BY <1>1 DEF CountsBalance, PointerTo

-----------------------------------------------------------------------------
LEMMA InitIInv == Init => IInv
<1> SUFFICES ASSUME Init PROVE IInv
  OBVIOUS
<1> USE NullsDistinct DEF Init
<1>1. Linked = {} /\ stack \in Seq(Node) /\ DOMAIN stack = {}
  BY EmptySeq DEF Linked
<1>2. TypeOK
  BY <1>1, BoundPositive DEF TypeOK, Null, Counted, CountedPtrs, PCs
<1>3. Locals /\ FreshNodes /\ TakenNodes /\ LooseNodes
  BY DEF Locals, FreshNodes, TakenNodes, LooseNodes, Taken
<1>4. ListIsStack /\ NoUseAfterFree /\ CountsBalance /\ LinkedNodes
  BY <1>1 DEF ListIsStack, NoUseAfterFree, CountsBalance, LinkedNodes, Null, Counted
<1> QED BY <1>2, <1>3, <1>4 DEF IInv

\* The steps that touch nothing but the thread's own old_head, next pointer and
\* program counter, and neither take a node nor give one back.
LEMMA QuietSteps ==
  ASSUME IInv, NEW t \in Thread,
         CallPop(t) \/ AnnounceFails(t) \/ ReturnEmpty(t) \/ ReadNext(t) \/ TakeFails(t)
  PROVE  IInv'
<1>1. /\ UNCHANGED <<head, next, data, internal, live, mine, ptr, res, stack>>
      /\ \A u \in Thread \ {t} : pc'[u] = pc[u] /\ old'[u] = old[u] /\ nxt'[u] = nxt[u]
      /\ ~Taken(t) /\ ~Taken(t)'
  BY DEF IInv, TypeOK, Taken, Goto, nodes, CallPop, AnnounceFails, ReturnEmpty, ReadNext,
     TakeFails
<1>2. TypeOK'
  <2>1. old' \in [Thread -> CountedPtrs] /\ nxt' \in [Thread -> CountedPtrs]
    BY NullTyped DEF IInv, TypeOK, CallPop, AnnounceFails, ReturnEmpty, ReadNext, TakeFails
  <2>2. pc' \in [Thread -> PCs] /\ pc'[t] # "add"
    BY DEF IInv, TypeOK, Goto, PCs, CallPop, AnnounceFails, ReturnEmpty, ReadNext, TakeFails
  <2> QED BY <1>1, <2>1, <2>2 DEF IInv, TypeOK
<1>3. Linked' = Linked /\ (\A n : Holders(n)' = Holders(n))
  BY <1>1 DEF Linked, Holders
<1>4. Locals'
  BY <1>1, NullsDistinct DEF IInv, TypeOK, Locals, Goto, CallPop, AnnounceFails, ReturnEmpty, ReadNext,
     TakeFails
<1>5. ListIsStack' /\ NoUseAfterFree' /\ CountsBalance'
  BY <1>1, <1>3, ListKept, CountsKept DEF IInv, TypeOK, NoUseAfterFree
<1>6. FreshNodes' /\ LinkedNodes'
  BY <1>1, <1>3 DEF IInv, FreshNodes, LinkedNodes
<1>7. TakenNodes' /\ LooseNodes'
  BY <1>1, <1>3 DEF IInv, TakenNodes, LooseNodes, Taken
<1> QED BY <1>2, <1>4, <1>5, <1>6, <1>7 DEF IInv

LEMMA CallPushKeeps ==
  ASSUME IInv, NEW t \in Thread, NEW v \in Value, CallPush(t, v) PROVE IInv'
<1> USE DEF IInv
<1> PICK n \in Node \ live :
       /\ live' = live \cup {n}
       /\ data' = [data EXCEPT ![n] = v]
       /\ internal' = [internal EXCEPT ![n] = 0]
       /\ next' = [next EXCEPT ![n] = head]
       /\ mine' = [mine EXCEPT ![t] = n]
  BY DEF CallPush
<1>0. /\ pc[t] = "idle" /\ pc' = [pc EXCEPT ![t] = "push"]
      /\ UNCHANGED <<head, old, ptr, nxt, res, stack>>
  BY DEF CallPush, Goto
<1>1. /\ \A m \in live : next'[m] = next[m] /\ data'[m] = data[m] /\ internal'[m] = internal[m]
      /\ next'[n] = head /\ data'[n] = v /\ internal'[n] = 0
  BY DEF TypeOK
<1>2. /\ \A u \in Thread : u # t => pc'[u] = pc[u] /\ mine'[u] = mine[u]
      /\ mine[t] = NoNode /\ ptr[t] = NoNode /\ mine'[t] = n /\ pc'[t] = "push"
  BY <1>0 DEF TypeOK, Locals
<1>3. \A u \in Thread : ptr[u] # n /\ mine[u] # n
  BY NullsDistinct DEF NoUseAfterFree, FreshNodes
<1>4. Linked' = Linked /\ Linked \subseteq live /\ n \notin Linked
      /\ \A m : Holders(m)' = Holders(m)
  BY <1>0 DEF Linked, Holders, NoUseAfterFree
<1>5. TypeOK'
  BY <1>0 DEF TypeOK, PCs
<1>6. Locals'
  BY <1>0, <1>1, <1>2, NullsDistinct DEF Locals, NoUseAfterFree
<1>7. ListIsStack' /\ NoUseAfterFree' /\ CountsBalance'
  BY <1>0, <1>1, <1>4, ListKept, CountsKept DEF TypeOK, NoUseAfterFree
<1>8. FreshNodes'
  BY <1>0, <1>1, <1>2, <1>3, <1>4 DEF FreshNodes
<1>9. LinkedNodes'
  BY <1>0, <1>1, <1>4 DEF LinkedNodes
<1>10. TakenNodes'
  <2>1. \A u \in Thread : /\ Taken(u)' <=> Taken(u) 
                          /\ Taken(u) => ptr[u] \in live /\ pc'[u] = pc[u]
    BY <1>0, <1>2, NullsDistinct DEF Taken, NoUseAfterFree, Locals
  <2> QED BY <2>1, <1>0, <1>1, <1>4 DEF TakenNodes
<1>11. LooseNodes'
  <2> SUFFICES ASSUME NEW m \in live', m \notin Linked,
                      \A u \in Thread : mine'[u] # m /\ (Taken(u)' => ptr[u] # m)
               PROVE  internal'[m] = Cardinality(Holders(m)) /\ internal'[m] > 0
    BY <1>0, <1>4 DEF LooseNodes
  <2>1. m \in live
    BY <1>2
  <2>2. \A u \in Thread : mine[u] # m /\ (Taken(u) => ptr[u] # m)
    BY <2>1, <1>0, <1>2, NullsDistinct DEF Taken, TypeOK
  <2> QED BY <2>1, <2>2, <1>1 DEF LooseNodes
<1> QED BY <1>5, <1>6, <1>7, <1>8, <1>9, <1>10, <1>11

LEMMA LinkNodeFailsKeeps ==
  ASSUME IInv, NEW t \in Thread, LinkNodeFails(t) PROVE IInv'
<1> USE DEF IInv
<1>0. /\ UNCHANGED <<head, data, internal, live, pc, old, ptr, nxt, mine, res, stack>>
      /\ next' = [next EXCEPT ![mine[t]] = head]
  BY DEF LinkNodeFails
<1>1. mine[t] \in Node /\ mine[t] \notin Linked /\ \A u \in Thread : ptr[u] # mine[t]
  BY NullsDistinct DEF LinkNodeFails, NextIsHead, Locals, FreshNodes, TypeOK
<1>2. \A m \in Node : m # mine[t] => next'[m] = next[m]
  BY <1>0 DEF TypeOK
<1>3. Linked' = Linked /\ (\A m : Holders(m)' = Holders(m)) /\ Linked \subseteq Node
  BY <1>0 DEF Linked, Holders, NoUseAfterFree, TypeOK
<1>4. TypeOK'
  BY <1>0 DEF TypeOK
<1>5. Locals'
  BY <1>0, <1>1, <1>2 DEF Locals, TypeOK
<1>6. ListIsStack' /\ NoUseAfterFree' /\ CountsBalance'
  BY <1>0, <1>1, <1>2, <1>3, ListKept, CountsKept DEF TypeOK, NoUseAfterFree
<1>7. FreshNodes' /\ LinkedNodes' /\ TakenNodes' /\ LooseNodes'
  BY <1>0, <1>3 DEF FreshNodes, LinkedNodes, TakenNodes, LooseNodes, Taken
<1> QED BY <1>4, <1>5, <1>6, <1>7

LEMMA SwapKeeps == ASSUME IInv, NEW t \in Thread, Swap(t) PROVE IInv'
<1> USE DEF IInv
<1>0. /\ UNCHANGED <<head, next, internal, live, old, ptr, nxt, mine, stack>>
      /\ res' = [res EXCEPT ![t] = data[ptr[t]]]
      /\ data' = [data EXCEPT ![ptr[t]] = NoValue]
      /\ pc[t] = "swap" /\ pc' = [pc EXCEPT ![t] = "add"]
  BY DEF Swap, Goto
<1>1. /\ ptr[t] \in Node /\ ptr[t] \notin Linked /\ data[ptr[t]] \in Value
      /\ \A u \in Thread : Taken(u) /\ ptr[u] = ptr[t] => u = t
      /\ \A u \in Thread : mine[u] # ptr[t]
  BY <1>0, NullsDistinct DEF Taken, TakenNodes, Locals, TypeOK, FreshNodes
<1>2. \A m \in Node : m # ptr[t] => data'[m] = data[m]
  BY <1>0 DEF TypeOK
<1>3. Linked' = Linked /\ (\A m : Holders(m)' = Holders(m)) /\ Linked \subseteq Node
  BY <1>0 DEF Linked, Holders, NoUseAfterFree, TypeOK
<1>4. \A u \in Thread : (Taken(u)' <=> Taken(u)) /\ (u # t => pc'[u] = pc[u])
  BY <1>0 DEF Taken, TypeOK
<1>5. TypeOK'
  BY <1>0, <1>1 DEF TypeOK, PCs
<1>6. Locals'
  BY <1>0 DEF Locals, TypeOK
<1>7. ListIsStack' /\ NoUseAfterFree' /\ CountsBalance'
  BY <1>0, <1>3, ListKept, CountsKept DEF TypeOK, NoUseAfterFree
<1>8. FreshNodes' /\ LinkedNodes'
  BY <1>0, <1>1, <1>2, <1>3 DEF FreshNodes, LinkedNodes, TypeOK
<1>9. TakenNodes'
  BY <1>0, <1>1, <1>2, <1>3, <1>4, NullsDistinct DEF TakenNodes, TypeOK, Taken
<1>10. LooseNodes'
  BY <1>0, <1>3, <1>4 DEF LooseNodes
<1> QED BY <1>5, <1>6, <1>7, <1>8, <1>9, <1>10

LEMMA LinkNodeKeeps == ASSUME IInv, NEW t \in Thread, LinkNode(t) PROVE IInv'
<1> USE DEF IInv
<1> PICK n \in Node, k \in Nat : n = mine[t] /\ k = Len(stack)
  BY NullsDistinct, LenProperties DEF LinkNode, NextIsHead, Locals, TypeOK
<1>0. /\ UNCHANGED <<next, data, internal, live, old, ptr, nxt, res>>
      /\ pc[t] = "push" /\ pc' = [pc EXCEPT ![t] = "idle"]
      /\ mine' = [mine EXCEPT ![t] = NoNode]
      /\ head = next[n] /\ head' = Counted(1, n) /\ stack' = Append(stack, n)
  BY DEF LinkNode, NextIsHead, Goto, nodes, FirstCount
<1>1. /\ n \in Node /\ n \in live /\ n \notin Linked /\ data[n] \in Value /\ internal[n] = 0
      /\ \A u \in Thread : ptr[u] # n /\ (mine[u] = n => u = t)
  BY <1>0, NullsDistinct DEF Locals, FreshNodes, TypeOK
<1>2. head'.ptr = n /\ head'.external_count = 1 /\ head' \in CountedPtrs
  BY <1>0, <1>1, BoundPositive DEF Counted, CountedPtrs
<1>3. /\ stack' \in Seq(Node) /\ Len(stack') = k + 1
      /\ DOMAIN stack = 1 .. k /\ DOMAIN stack' = 1 .. k + 1
      /\ \A i \in DOMAIN stack : stack'[i] = stack[i] /\ stack[i] \in Linked
      /\ stack'[k + 1] = n
  BY <1>0, <1>1, AppendProperties, LenProperties DEF TypeOK, Linked
<1>4. Linked' = Linked \cup {n}
  <2>1. Linked = {stack[i] : i \in 1 .. k} /\ Linked' = {stack'[i] : i \in 1 .. k + 1}
    BY <1>3 DEF Linked
  <2>2. Linked' \subseteq Linked \cup {n}
    BY <2>1, <1>3
  <2>3. Linked \subseteq Linked' /\ n \in Linked'
    BY <2>1, <1>3
  <2> QED BY <2>2, <2>3
<1>5. Holders(n) = {} /\ (\A m : Holders(m)' = Holders(m))
  BY <1>0, <1>1 DEF Holders
<1>6. \A u \in Thread : /\ u # t => pc'[u] = pc[u] /\ mine'[u] = mine[u]
                        /\ Taken(u)' <=> Taken(u)
                        /\ mine'[t] = NoNode /\ pc'[t] = "idle" /\ ptr[t] = NoNode
  BY <1>0 DEF Taken, TypeOK, Locals
<1>7. TypeOK'
  BY <1>0, <1>2, <1>3 DEF TypeOK, PCs
<1>8. Locals'
  BY <1>0, <1>6 DEF Locals, TypeOK
<1>9. \A i \in DOMAIN stack : PointerTo(i)' = PointerTo(i)
  BY <1>0, <1>3 DEF PointerTo
<1>10. PointerTo(k + 1)' = head'
  BY <1>3 DEF PointerTo
<1>11. ListIsStack'
  <2>1. \A i \in DOMAIN stack' : PointerTo(i)'.ptr = stack'[i]
    BY <1>2, <1>3, <1>9, <1>10 DEF ListIsStack
  <2>2. next[stack'[1]].ptr = NoNode
    BY <1>0, <1>3, EmptySeq DEF ListIsStack, TypeOK
  <2>3. stack' # <<>> /\ head'.ptr # NoNode
    BY <1>0, <1>1, <1>2, <1>3, NullsDistinct, EmptySeq
  <2> QED BY <2>1, <2>2, <2>3, <1>0 DEF ListIsStack
<1>12. CountsBalance'
  <2>1. Cardinality(Holders(n)') = 0
    BY <1>5, FS_EmptySet
  <2> SUFFICES ASSUME NEW i \in DOMAIN stack', NEW m, m = stack'[i]
               PROVE  PointerTo(i)'.external_count - 1 + internal[m] = Cardinality(Holders(m)')
    BY <1>0 DEF CountsBalance
  <2>2. CASE i = k + 1
    BY <2>1, <2>2, <1>1, <1>2, <1>3, <1>10
  <2>3. CASE i # k + 1
    <3>1. i \in DOMAIN stack /\ m = stack[i]
      BY <2>3, <1>3
    <3> QED BY <3>1, <1>5, <1>9 DEF CountsBalance
  <2> QED BY <2>2, <2>3
<1>13. NoUseAfterFree'
  BY <1>0, <1>1, <1>4 DEF NoUseAfterFree
<1>14. FreshNodes'
  BY <1>0, <1>1, <1>4, <1>6 DEF FreshNodes
<1>15. LinkedNodes'
  <2>1. \A i \in DOMAIN stack : stack[i] # n
    BY <1>1, <1>3
  <2>2. \A i, j \in DOMAIN stack' : stack'[i] = stack'[j] => i = j
    BY <2>1, <1>3 DEF LinkedNodes
  <2> QED BY <2>2, <1>0, <1>1, <1>4 DEF LinkedNodes
<1>16. TakenNodes'
  BY <1>0, <1>1, <1>4, <1>5, <1>6 DEF TakenNodes, Taken
<1>17. LooseNodes'
  <2> SUFFICES ASSUME NEW m \in live, m \notin Linked', m # n,
                      \A u \in Thread : mine'[u] # m /\ (Taken(u)' => ptr[u] # m)
               PROVE  internal[m] = Cardinality(Holders(m)) /\ internal[m] > 0
    BY <1>0, <1>4, <1>5 DEF LooseNodes
  <2>1. \A u \in Thread : mine[u] # m /\ (Taken(u) => ptr[u] # m)
    BY <1>6
  <2> QED BY <2>1, <1>4 DEF LooseNodes
<1> QED BY <1>7, <1>8, <1>11, <1>12, <1>13, <1>14, <1>15, <1>16, <1>17

LEMMA AnnounceKeeps == ASSUME IInv, NEW t \in Thread, Announce(t) PROVE IInv'
<1> USE DEF IInv
<1> PICK n \in Node \cup {NoNode} : n = head.ptr
  BY DEF TypeOK, CountedPtrs
<1>0. /\ UNCHANGED <<next, data, internal, live, nxt, mine, res, stack>>
      /\ pc[t] = "announce" /\ pc' = [pc EXCEPT ![t] = "read"]
      /\ head.external_count < MaxCount
      /\ head' = Counted(head.external_count + 1, n)
      /\ old' = [old EXCEPT ![t] = head']
      /\ ptr' = [ptr EXCEPT ![t] = n]
  BY DEF Announce, Increased, Goto, nodes
<1>1. head'.ptr = n /\ head'.external_count = head.external_count + 1 /\ head' \in CountedPtrs
  BY <1>0, BoundPositive DEF Counted, CountedPtrs, TypeOK
<1>2. \A u \in Thread : /\ u # t => pc'[u] = pc[u] /\ ptr'[u] = ptr[u] /\ old'[u] = old[u]
                        /\ Taken(u)' <=> Taken(u)
                        /\ ~Taken(t) /\ pc'[t] = "read" /\ ptr'[t] = n /\ old'[t] = head'
                        /\ ptr[t] = NoNode
  BY <1>0, NullsDistinct DEF Taken, TypeOK, Locals
<1>3. n # NoNode => n \in Linked /\ n = stack[Len(stack)] /\ Len(stack) \in DOMAIN stack
  <2>1. CASE stack = <<>>
    BY <2>1 DEF ListIsStack
  <2>2. CASE stack # <<>>
    <3>1. Len(stack) \in DOMAIN stack
      BY <2>2, LenProperties, EmptySeq DEF TypeOK
    <3> QED BY <3>1 DEF ListIsStack, PointerTo, Linked
  <2> QED BY <2>1, <2>2
<1>4. Linked' = Linked /\ Linked \subseteq Node
  BY <1>0 DEF Linked, NoUseAfterFree, TypeOK
<1>5. \A m \in Node : m # n => Holders(m)' = Holders(m)
  BY <1>0, <1>2, NullsDistinct DEF Holders, TypeOK
<1>6. n # NoNode => Cardinality(Holders(n)') = Cardinality(Holders(n)) + 1
  BY <1>0, <1>2, <1>3, <1>4, HoldersJoin
<1>7. TypeOK'
  BY <1>0, <1>1 DEF TypeOK, PCs, CountedPtrs
<1>8. Locals'
  BY <1>0, <1>1, <1>2 DEF Locals, TypeOK
<1>9. ListIsStack'
  BY <1>0, <1>1 DEF ListIsStack, PointerTo
<1>10. CountsBalance'
  <2> SUFFICES ASSUME NEW i \in DOMAIN stack, NEW m \in Node, m = stack[i]
               PROVE  PointerTo(i)'.external_count - 1 + internal[m] = Cardinality(Holders(m)')
    <3>1. \A i \in DOMAIN stack : stack[i] \in Node
      BY <1>4 DEF Linked
    <3> QED BY <3>1, <1>0 DEF CountsBalance
  <2>1. /\ internal[m] \in Int /\ Cardinality(Holders(m)) \in Nat
        /\ PointerTo(i).external_count - 1 + internal[m] = Cardinality(Holders(m))
    BY HoldersFinite DEF TypeOK, CountsBalance
  <2>2. n = stack[Len(stack)] /\ n # NoNode /\ Len(stack) \in DOMAIN stack
    <3>1. stack # <<>>
      BY LenProperties, EmptySeq DEF TypeOK
    <3> QED BY <3>1, <1>3 DEF ListIsStack
  <2>3. CASE i = Len(stack)
    <3>1. PointerTo(i)' = head' /\ PointerTo(i) = head /\ m = n
      BY <2>2, <2>3, <1>0 DEF PointerTo
    <3>2. head.external_count \in Int
      BY BoundPositive DEF TypeOK, CountedPtrs
    <3>3. Cardinality(Holders(m)') = Cardinality(Holders(m)) + 1
      BY <3>1, <2>2, <1>6
    <3>4. head'.external_count - 1 + internal[m] = head.external_count - 1 + internal[m] + 1
      BY <3>2, <2>1, <1>1
    <3> QED BY <3>1, <3>3, <3>4, <2>1
  <2>4. CASE i # Len(stack)
    <3>1. PointerTo(i)' = PointerTo(i)
      BY <2>4, <1>0 DEF PointerTo
    <3>2. m # n
      BY <2>2, <2>4 DEF LinkedNodes
    <3> QED BY <3>1, <3>2, <2>1, <1>5
  <2> QED BY <2>3, <2>4
<1>11. NoUseAfterFree'
  BY <1>0, <1>2, <1>3, <1>4 DEF NoUseAfterFree
<1>12. FreshNodes'
  BY <1>0, <1>2, <1>3, <1>4 DEF FreshNodes
<1>13. LinkedNodes'
  BY <1>0, <1>4 DEF LinkedNodes
<1>14. TakenNodes'
  <2> SUFFICES ASSUME NEW u \in Thread, Taken(u), NEW m \in Node, m = ptr[u]
               PROVE  /\ m \notin Linked
                      /\ \A w \in Thread : Taken(w) /\ ptr[w] = m => w = u
                      /\ internal[m] <= 0
                      /\ old[u].external_count - 1 + internal[m] = Cardinality(Holders(m)')
                      /\ pc[u] = "swap" => data[m] \in Value
    <3>1. \A u \in Thread : Taken(u) => u # t /\ ptr[u] \in Node
      BY <1>2, NullsDistinct DEF Taken, Locals, TypeOK
    <3> QED BY <3>1, <1>0, <1>2, <1>4 DEF TakenNodes
  <2>1. m # n
    BY <1>3, NullsDistinct DEF TakenNodes
  <2> QED BY <2>1, <1>5 DEF TakenNodes
<1>15. LooseNodes'
  <2> SUFFICES ASSUME NEW m \in live, m \notin Linked,
                      \A u \in Thread : mine[u] # m /\ (Taken(u)' => ptr'[u] # m)
               PROVE  internal[m] = Cardinality(Holders(m)') /\ internal[m] > 0
    BY <1>0, <1>4 DEF LooseNodes
  <2>1. m \in Node /\ m # n
    BY <1>3, NullsDistinct DEF TypeOK
  <2>2. \A u \in Thread : Taken(u) => ptr[u] # m
    BY <1>2
  <2> QED BY <2>1, <2>2, <1>5 DEF LooseNodes
<1> QED BY <1>7, <1>8, <1>9, <1>10, <1>11, <1>12, <1>13, <1>14, <1>15

LEMMA TakeKeeps == ASSUME IInv, NEW t \in Thread, Take(t) PROVE IInv'
<1> USE DEF IInv
<1> PICK n \in Node, k \in Nat : n = ptr[t] /\ k = Len(stack)
  BY NullsDistinct, LenProperties DEF Take, Locals, TypeOK
<1>0. /\ UNCHANGED <<next, data, internal, live, old, ptr, mine, res>>
      /\ pc[t] = "take" /\ pc' = [pc EXCEPT ![t] = "swap"]
      /\ head = old[t] /\ head.ptr = n /\ head' = next[n]
      /\ nxt' = [nxt EXCEPT ![t] = Null]
      /\ stack' = SubSeq(stack, 1, k - 1)
  BY DEF Take, HeadUnchanged, Goto, nodes, Locals
<1>1. k \in Nat \ {0} /\ DOMAIN stack = 1 .. k /\ n = stack[k] /\ n \in Linked
  <2>1. stack # <<>>
    BY <1>0, NullsDistinct DEF ListIsStack
  <2>2. k \in Nat \ {0} /\ DOMAIN stack = 1 .. k
    BY <2>1, EmptySeq, LenProperties DEF TypeOK
  <2> QED BY <2>2, <1>0 DEF ListIsStack, PointerTo, Linked
<1>2. /\ stack' \in Seq(Node) /\ Len(stack') = k - 1 /\ DOMAIN stack' = 1 .. k - 1
      /\ \A i \in 1 .. k - 1 : stack'[i] = stack[i]
  <2>1. \A i \in 1 .. k - 1 : stack[i] \in Node
    BY <1>1, ElementOfSeq DEF TypeOK
  <2>2. /\ stack' \in Seq(Node) /\ Len(stack') = k - 1
        /\ \A i \in 1 .. k - 1 : stack'[i] = stack[1 + i - 1]
    BY <2>1, <1>0, <1>1, SubSeqProperties
  <2>3. \A i \in 1 .. k - 1 : stack'[i] = stack[i]
    BY <2>2
  <2> QED BY <2>2, <2>3, LenProperties
<1>3. \A i \in 1 .. k - 1 : stack[i] # n /\ stack[i] \in Linked
  BY <1>1 DEF LinkedNodes, Linked
<1>4. Linked' = Linked \ {n}
  <2>1. Linked = {stack[i] : i \in 1 .. k} /\ Linked' = {stack'[i] : i \in 1 .. k - 1}
    BY <1>1, <1>2 DEF Linked
  <2>2. Linked' \subseteq Linked \ {n}
    BY <2>1, <1>2, <1>3
  <2>3. Linked \ {n} \subseteq Linked'
    BY <2>1, <1>1, <1>2
  <2> QED BY <2>2, <2>3
<1>5. \A m : Holders(m)' = Holders(m)
  BY <1>0 DEF Holders
<1>6. \A u \in Thread : /\ u # t => pc'[u] = pc[u] /\ (Taken(u)' <=> Taken(u))
                        /\ u # t => nxt'[u] = nxt[u]
                        /\ pc'[t] = "swap" /\ Taken(t)' /\ mine[t] = NoNode
  BY <1>0 DEF Taken, TypeOK, Locals
<1>7. TypeOK'
  BY <1>0, <1>2, NullTyped DEF TypeOK, PCs
<1>8. Locals'
  BY <1>0, <1>6 DEF Locals
<1>9. \A i \in 1 .. k - 1 : PointerTo(i)' = PointerTo(i)
  <2> SUFFICES ASSUME NEW i \in 1 .. k - 1 PROVE PointerTo(i)' = PointerTo(i)
    OBVIOUS
  <2>1. CASE i = k - 1
    <3>1. PointerTo(i)' = head'
      BY <2>1, <1>2 DEF PointerTo
    <3>2. PointerTo(i) = next[n]
      BY <2>1, <1>1 DEF PointerTo
    <3> QED BY <3>1, <3>2, <1>0
  <2>2. CASE i # k - 1
    <3>1. PointerTo(i)' = next[stack'[i + 1]] /\ i + 1 \in 1 .. k - 1
      BY <2>2, <1>0, <1>2 DEF PointerTo
    <3>2. PointerTo(i) = next[stack[i + 1]]
      BY <1>1 DEF PointerTo
    <3> QED BY <3>1, <3>2, <1>2
  <2> QED BY <2>1, <2>2
<1>10. ListIsStack'
  <2>1. \A i \in DOMAIN stack' : PointerTo(i)'.ptr = stack'[i]
    BY <1>1, <1>2, <1>9 DEF ListIsStack
  <2>2. CASE k = 1
    <3>1. next[stack[1]].ptr = NoNode
      BY <2>2, <1>1, EmptySeq DEF ListIsStack, TypeOK
    <3>2. stack' = <<>> /\ head'.ptr = NoNode
      BY <3>1, <2>2, <1>0, <1>1, <1>2, EmptySeq
    <3> QED BY <3>2, <2>1 DEF ListIsStack
  <2>3. CASE k # 1
    <3>1. k - 1 \in 1 .. k - 1 /\ 1 \in 1 .. k - 1
      BY <2>3, <1>1
    <3>2. stack' # <<>> /\ stack # <<>>
      BY <3>1, <1>1, <1>2, EmptySeq DEF TypeOK
    <3>3. next'[stack'[1]].ptr = NoNode
      BY <3>1, <3>2, <1>0, <1>2 DEF ListIsStack
    <3>4. PointerTo(k - 1)' = head'
      <4>1. PICK j \in 1 .. k - 1 : j = k - 1
        BY <3>1
      <4>2. PointerTo(j)' = head'
        BY <4>1, <1>2 DEF PointerTo
      <4> QED BY <4>1, <4>2
    <3>5. head'.ptr = stack[k - 1] /\ stack[k - 1] \in Node
      BY <3>1, <3>4, <2>1, <1>2, ElementOfSeq DEF TypeOK
    <3> QED BY <3>2, <3>3, <3>5, <2>1, NullsDistinct DEF ListIsStack
  <2> QED BY <2>2, <2>3
<1>11. CountsBalance'
  <2> SUFFICES ASSUME NEW i \in 1 .. k - 1, NEW m, m = stack[i]
               PROVE  PointerTo(i)'.external_count - 1 + internal[m] = Cardinality(Holders(m)')
    BY <1>0, <1>2 DEF CountsBalance
  <2> QED BY <1>1, <1>5, <1>9 DEF CountsBalance
<1>12. NoUseAfterFree' /\ LinkedNodes'
  BY <1>0, <1>1, <1>2, <1>4 DEF NoUseAfterFree, LinkedNodes
<1>13. FreshNodes'
  BY <1>0, <1>4 DEF FreshNodes
<1>14. TakenNodes'
  <2>1. /\ old[t].external_count - 1 + internal[n] = Cardinality(Holders(n))
        /\ internal[n] <= 0 /\ data[n] \in Value
    BY <1>0, <1>1 DEF CountsBalance, PointerTo, LinkedNodes
  <2>2. \A u \in Thread : u # t /\ Taken(u) => ptr[u] # n
    BY <1>1 DEF TakenNodes
  <2> QED BY <2>1, <2>2, <1>0, <1>4, <1>5, <1>6 DEF TakenNodes
<1>15. LooseNodes'
  <2> SUFFICES ASSUME NEW m \in live, m \notin Linked',
                      \A u \in Thread : mine[u] # m /\ (Taken(u)' => ptr[u] # m)
               PROVE  internal[m] = Cardinality(Holders(m)) /\ internal[m] > 0
    BY <1>0, <1>5 DEF LooseNodes
  <2>1. m # n /\ \A u \in Thread : Taken(u) => ptr[u] # m
    BY <1>0, <1>6 DEF Taken
  <2> QED BY <2>1, <1>4 DEF LooseNodes
<1> QED BY <1>7, <1>8, <1>10, <1>11, <1>12, <1>13, <1>14, <1>15

\* What giving a node back does to the counts and to the allocated nodes.
LEMMA ReleaseFacts ==
  ASSUME IInv, NEW t \in Thread, NEW n \in Node, n = ptr[t],
         NEW amount \in Int, Release(t, amount)
  PROVE  /\ \A m \in Node \ {n} :
               /\ next'[m] = next[m] /\ data'[m] = data[m] /\ internal'[m] = internal[m]
               /\ m \in live' <=> m \in live
               /\ Holders(m)' = Holders(m)
         /\ Cardinality(Holders(n)') = Cardinality(Holders(n)) - 1
         /\ internal[n] = -amount => n \notin live'
         /\ internal[n] # -amount => /\ internal'[n] = internal[n] + amount
                                     /\ next' = next /\ data' = data /\ live' = live
         /\ ptr' = [ptr EXCEPT ![t] = NoNode]
         /\ \A u \in Thread : u # t => ptr'[u] = ptr[u]
         /\ live' \subseteq live /\ ptr'[t] = NoNode
         /\ next' \in [Node -> CountedPtrs] /\ data' \in [Node -> Value \cup {NoValue}]
         /\ internal' \in [Node -> Int]
<1> USE DEF IInv
<1>1. ptr' = [ptr EXCEPT ![t] = NoNode]
  BY DEF Release
<1>2. /\ Cardinality(Holders(n)') = Cardinality(Holders(n)) - 1
      /\ \A m \in Node \ {n} : Holders(m)' = Holders(m)
  BY <1>1, HoldersLeave
<1>3. CASE internal[n] = -amount
  <2>1. /\ live' = live \ {n}
        /\ internal' = [internal EXCEPT ![n] = 0]
        /\ next' = [next EXCEPT ![n] = Null]
        /\ data' = [data EXCEPT ![n] = NoValue]
    BY <1>3 DEF Release
  <2>2. /\ next' \in [Node -> CountedPtrs] /\ data' \in [Node -> Value \cup {NoValue}]
        /\ internal' \in [Node -> Int]
    BY <2>1, NullTyped DEF TypeOK
  <2>3. \A m \in Node \ {n} :
           next'[m] = next[m] /\ data'[m] = data[m] /\ internal'[m] = internal[m]
    BY <2>1 DEF TypeOK
  <2>4. (\A u \in Thread : u # t => ptr'[u] = ptr[u]) /\ ptr'[t] = NoNode
    BY <1>1 DEF TypeOK
  <2> QED BY <1>1, <1>2, <1>3, <2>1, <2>2, <2>3, <2>4
<1>4. CASE internal[n] # -amount
  BY <1>1, <1>2, <1>4 DEF Release, TypeOK
<1> QED BY <1>3, <1>4

\* The steps that give node n back, after which n may be gone: everything the
\* invariant says of the other nodes still holds.
LEMMA OthersKeep ==
  ASSUME IInv, NEW t \in Thread, NEW n \in Node, n = ptr[t],
         NEW amount \in Int, Release(t, amount), UNCHANGED <<head, stack, mine>>,
         internal[n] = -amount => n \notin Linked /\ Cardinality(Holders(n)) = 1
  PROVE  /\ Linked' = Linked
         /\ \A m \in Linked : next'[m] = next[m] /\ data'[m] = data[m]
         /\ ListIsStack' /\ NoUseAfterFree'
         /\ FreshNodes'
<1> USE DEF IInv
<1>1. Linked' = Linked /\ Linked \subseteq Node
  BY DEF Linked, NoUseAfterFree, TypeOK
<1>2. \A m \in Linked : next'[m] = next[m] /\ data'[m] = data[m]
  <2> SUFFICES ASSUME NEW m \in Linked PROVE next'[m] = next[m] /\ data'[m] = data[m]
    OBVIOUS
  <2>1. CASE m = n
    BY <2>1, ReleaseFacts
  <2>2. CASE m # n
    BY <2>2, <1>1, ReleaseFacts
  <2> QED BY <2>1, <2>2
<1>3. ListIsStack'
  BY <1>2, ListKept DEF TypeOK
<1>4. internal[n] = -amount => \A u \in Thread : ptr'[u] # n
  <2> SUFFICES ASSUME internal[n] = -amount, NEW u \in Thread, u # t PROVE ptr[u] # n
    BY ReleaseFacts, NullsDistinct
  <2>1. PICK x : Holders(n) = {x}
    BY HoldersFinite, FS_Singleton
  <2> QED BY <2>1 DEF Holders
<1>5. NoUseAfterFree'
  <2>1. \A m \in live : m \in live' \/ (m = n /\ internal[n] = -amount)
    BY ReleaseFacts DEF TypeOK
  <2>2. Linked \subseteq live'
    BY <2>1 DEF NoUseAfterFree
  <2>3. \A u \in Thread : ptr'[u] # NoNode => ptr'[u] = ptr[u]
    BY ReleaseFacts
  <2> QED BY <1>1, <1>4, <2>1, <2>2, <2>3 DEF NoUseAfterFree
<1>6. FreshNodes'
  <2> SUFFICES ASSUME NEW u \in Thread, NEW m \in Node, m = mine[u], m # NoNode
               PROVE  /\ m \in live' /\ m \notin Linked /\ data'[m] \in Value /\ internal'[m] = 0
                      /\ \A w \in Thread : ptr'[w] # m /\ (mine[w] = m => w = u)
    BY <1>1 DEF FreshNodes, TypeOK
  <2>1. m # n /\ m \in live /\ m \notin Linked /\ data[m] \in Value /\ internal[m] = 0
        /\ \A w \in Thread : ptr[w] # m /\ (mine[w] = m => w = u)
    BY DEF FreshNodes
  <2>2. \A w \in Thread : ptr'[w] = ptr[w] \/ ptr'[w] = NoNode
    BY ReleaseFacts
  <2> QED BY <2>1, <2>2, ReleaseFacts, NullsDistinct
<1> QED BY <1>1, <1>2, <1>3, <1>5, <1>6

LEMMA AddKeeps == ASSUME IInv, NEW t \in Thread, Add(t) PROVE IInv'
<1> USE DEF IInv
<1> PICK n \in Node, amount \in Int : n = ptr[t] /\ amount = old[t].external_count - 2
  BY NullsDistinct, BoundPositive DEF Add, Locals, TypeOK, CountedPtrs
<1>0. /\ UNCHANGED <<head, nxt, mine, stack>>
      /\ pc[t] = "add" /\ pc' = [pc EXCEPT ![t] = "idle"]
      /\ old' = [old EXCEPT ![t] = Null] /\ res' = [res EXCEPT ![t] = NoValue]
      /\ Release(t, amount)
  BY DEF Add, CountIncrease, Goto
<1>1. /\ Taken(t) /\ n \notin Linked
      /\ internal[n] + amount = Cardinality(Holders(n)) - 1
      /\ Cardinality(Holders(n)) \in Nat /\ internal[n] \in Int
      /\ \A u \in Thread : u # t /\ Taken(u) => ptr[u] # n
  <2>1. Taken(t) /\ old[t].external_count \in Int /\ internal[n] \in Int
    BY <1>0, BoundPositive DEF Taken, TypeOK, CountedPtrs
  <2>2. /\ n \notin Linked
        /\ \A u \in Thread : Taken(u) /\ ptr[u] = n => u = t
        /\ old[t].external_count - 1 + internal[n] = Cardinality(Holders(n))
    BY <2>1 DEF TakenNodes
  <2> QED BY <2>1, <2>2, HoldersFinite
<1>2. internal[n] = -amount => Cardinality(Holders(n)) = 1
  BY <1>1
<1>3. /\ Linked' = Linked
      /\ \A m \in Linked : next'[m] = next[m] /\ data'[m] = data[m]
      /\ ListIsStack' /\ NoUseAfterFree' /\ FreshNodes'
  BY <1>0, <1>1, <1>2, OthersKeep
<1>4. \A m \in Node \ {n} :
         /\ next'[m] = next[m] /\ data'[m] = data[m] /\ internal'[m] = internal[m]
         /\ m \in live' <=> m \in live
         /\ Holders(m)' = Holders(m)
  BY <1>0, ReleaseFacts
<1>5. \A u \in Thread : /\ u # t => /\ pc'[u] = pc[u] /\ old'[u] = old[u] /\ res'[u] = res[u]
                                   /\ ptr'[u] = ptr[u] /\ (Taken(u)' <=> Taken(u))
                        /\ pc'[t] = "idle" /\ ~Taken(t)' /\ ptr'[t] = NoNode /\ mine[t] = NoNode
  BY <1>0, ReleaseFacts DEF Taken, TypeOK, Locals
<1>6. Linked \subseteq Node \ {n}
  BY <1>1 DEF NoUseAfterFree, TypeOK
<1>7. TypeOK'
  <2>1. /\ next' \in [Node -> CountedPtrs] /\ data' \in [Node -> Value \cup {NoValue}]
        /\ internal' \in [Node -> Int] /\ live' \subseteq live
        /\ ptr' = [ptr EXCEPT ![t] = NoNode]
    BY <1>0, ReleaseFacts
  <2> QED BY <1>0, <1>5, <2>1, NullTyped DEF TypeOK, PCs
<1>8. Locals'
  <2>1. \A u \in Thread : u # t /\ pc[u] = "take" => next'[ptr[u]] = next[ptr[u]]
    <3> SUFFICES ASSUME NEW u \in Thread, u # t, pc[u] = "take" PROVE next'[ptr[u]] = next[ptr[u]]
      OBVIOUS
    <3>1. ptr[u] \in Node
      BY NullsDistinct DEF Locals, TypeOK
    <3>2. CASE ptr[u] # n
      BY <3>1, <3>2, <1>4
    <3>3. CASE ptr[u] = n
      <4>1. n \in live'
        BY <3>3, <3>1, <1>3, <1>5, NullsDistinct DEF NoUseAfterFree
      <4>2. next' = next
        BY <4>1, <1>0, ReleaseFacts
      <4> QED BY <4>2
    <3> QED BY <3>2, <3>3
  <2> QED BY <2>1, <1>0, <1>5 DEF Locals
<1>9. CountsBalance'
  <2>1. \A m \in Linked : /\ next'[m] = next[m] /\ internal'[m] = internal[m]
                          /\ Holders(m)' = Holders(m)
    BY <1>4, <1>6
  <2> QED BY <2>1, <1>0, CountsKept DEF TypeOK
<1>10. LinkedNodes'
  BY <1>0, <1>3, <1>4, <1>6 DEF LinkedNodes
<1>11. TakenNodes'
  <2> SUFFICES ASSUME NEW u \in Thread, u # t, Taken(u), NEW m \in Node \ {n}, m = ptr[u]
               PROVE  /\ m \notin Linked
                      /\ \A w \in Thread : w # t /\ Taken(w) /\ ptr[w] = m => w = u
                      /\ internal'[m] <= 0
                      /\ old[u].external_count - 1 + internal'[m] = Cardinality(Holders(m)')
                      /\ pc[u] = "swap" => data'[m] \in Value
    <3>1. \A u \in Thread : u # t /\ Taken(u) => ptr[u] \in Node \ {n}
      BY <1>1, NullsDistinct DEF Taken, Locals, TypeOK
    <3> QED BY <3>1, <1>3, <1>5 DEF TakenNodes
  <2> QED BY <1>4 DEF TakenNodes
<1>12. LooseNodes'
  <2> SUFFICES ASSUME NEW m \in live', m \notin Linked,
                      \A u \in Thread : mine[u] # m /\ (Taken(u)' => ptr'[u] # m)
               PROVE  internal'[m] = Cardinality(Holders(m)') /\ internal'[m] > 0
    BY <1>0, <1>3 DEF LooseNodes
  <2>1. m \in live /\ m \in Node
    BY <1>0, ReleaseFacts DEF TypeOK
  <2>2. CASE m = n
    <3>1. internal[n] # -amount /\ internal'[n] = internal[n] + amount
      BY <2>2, <1>0, ReleaseFacts
    <3>2. Cardinality(Holders(n)') = Cardinality(Holders(n)) - 1
      BY <1>0, ReleaseFacts
    <3>3. Cardinality(Holders(n)) >= 1
      BY HeldOnce
    <3> QED BY <2>2, <3>1, <3>2, <3>3, <1>1
  <2>3. CASE m # n
    <3>1. \A u \in Thread : Taken(u) => ptr[u] # m
      BY <2>3, <1>5
    <3> QED BY <2>1, <2>3, <3>1, <1>4 DEF LooseNodes
  <2> QED BY <2>2, <2>3
<1> QED BY <1>3, <1>7, <1>8, <1>9, <1>10, <1>11, <1>12

LEMMA SubKeeps == ASSUME IInv, NEW t \in Thread, Sub(t) PROVE IInv'
<1> USE DEF IInv
<1> PICK n \in Node : n = ptr[t]
  BY NullsDistinct DEF Sub, Locals, TypeOK
<1>0. /\ UNCHANGED <<head, old, nxt, mine, res, stack>>
      /\ pc[t] = "sub" /\ pc' = [pc EXCEPT ![t] = "announce"]
      /\ Release(t, -1)
  BY DEF Sub, Goto
<1>1. /\ internal[n] \in Int /\ Cardinality(Holders(n)) \in Nat
      /\ Cardinality(Holders(n)) >= 1 /\ Cardinality(Holders(n)') = Cardinality(Holders(n)) - 1
  BY <1>0, HoldersFinite, HeldOnce, ReleaseFacts DEF TypeOK
<1>2. internal[n] = 1 => n \notin Linked /\ Cardinality(Holders(n)) = 1
  <2> SUFFICES ASSUME internal[n] = 1 PROVE n \notin Linked /\ Cardinality(Holders(n)) = 1
    OBVIOUS
  <2>1. n \notin Linked
    BY DEF LinkedNodes
  <2>2. \A u \in Thread : mine[u] # n /\ (Taken(u) => ptr[u] # n)
    BY NullsDistinct DEF FreshNodes, TakenNodes
  <2>3. n \in live
    BY NullsDistinct DEF NoUseAfterFree
  <2> QED BY <2>1, <2>2, <2>3 DEF LooseNodes
<1>3. /\ Linked' = Linked
      /\ \A m \in Linked : next'[m] = next[m] /\ data'[m] = data[m]
      /\ ListIsStack' /\ NoUseAfterFree' /\ FreshNodes'
  BY <1>0, <1>2, OthersKeep
<1>4. \A m \in Node \ {n} :
         /\ next'[m] = next[m] /\ data'[m] = data[m] /\ internal'[m] = internal[m]
         /\ m \in live' <=> m \in live
         /\ Holders(m)' = Holders(m)
  BY <1>0, ReleaseFacts
<1>5. internal[n] # 1 => internal'[n] = internal[n] - 1 /\ next' = next /\ data' = data
  BY <1>0, <1>1, ReleaseFacts
<1>6. \A u \in Thread : /\ u # t => pc'[u] = pc[u] /\ ptr'[u] = ptr[u]
                        /\ Taken(u)' <=> Taken(u)
                        /\ pc'[t] = "announce" /\ ~Taken(t) /\ ptr'[t] = NoNode /\ mine[t] = NoNode
  BY <1>0, ReleaseFacts DEF Taken, TypeOK, Locals
<1>7. TypeOK'
  <2>1. /\ next' \in [Node -> CountedPtrs] /\ data' \in [Node -> Value \cup {NoValue}]
        /\ internal' \in [Node -> Int] /\ live' \subseteq live
        /\ ptr' = [ptr EXCEPT ![t] = NoNode]
    BY <1>0, ReleaseFacts
  <2> QED BY <1>0, <1>6, <2>1 DEF TypeOK, PCs
<1>8. Locals'
  <2>1. \A u \in Thread : u # t /\ pc[u] = "take" => next'[ptr[u]] = next[ptr[u]]
    <3> SUFFICES ASSUME NEW u \in Thread, u # t, pc[u] = "take" PROVE next'[ptr[u]] = next[ptr[u]]
      OBVIOUS
    <3>1. ptr[u] \in Node
      BY NullsDistinct DEF Locals, TypeOK
    <3>2. CASE ptr[u] # n
      BY <3>1, <3>2, <1>4
    <3>3. CASE ptr[u] = n
      <4>1. n \in live'
        BY <3>3, <3>1, <1>3, <1>6, NullsDistinct DEF NoUseAfterFree
      <4>2. next' = next
        BY <4>1, <1>0, ReleaseFacts
      <4> QED BY <4>2
    <3> QED BY <3>2, <3>3
  <2> QED BY <2>1, <1>0, <1>6 DEF Locals
<1>9. CountsBalance'
  <2> SUFFICES ASSUME NEW i \in DOMAIN stack, NEW m \in Node, m = stack[i]
               PROVE  PointerTo(i)'.external_count - 1 + internal'[m] = Cardinality(Holders(m)')
    <3>1. \A i \in DOMAIN stack : stack[i] \in Node
      BY ElementOfSeq, LenProperties DEF TypeOK
    <3> QED BY <3>1, <1>0 DEF CountsBalance
  <2>1. m \in Linked
    BY DEF Linked
  <2>2. PointerTo(i)' = PointerTo(i) /\ PointerTo(i).external_count \in Int
    <3>1. i \in 1 .. Len(stack) /\ (i # Len(stack) => stack[i + 1] \in Linked /\ stack[i + 1] \in Node)
      BY ElementOfSeq, LenProperties DEF TypeOK, Linked
    <3>2. head \in CountedPtrs /\ \A x \in Node : next[x] \in CountedPtrs
      BY DEF TypeOK
    <3>3. i # Len(stack) => next'[stack[i + 1]] = next[stack[i + 1]]
      BY <3>1, <1>0, <1>3
    <3>4. PointerTo(i)' = PointerTo(i) /\ PointerTo(i) \in CountedPtrs
      BY <3>1, <3>2, <3>3, <1>0 DEF PointerTo
    <3> QED BY <3>4, BoundPositive DEF CountedPtrs
  <2>3. PointerTo(i).external_count - 1 + internal[m] = Cardinality(Holders(m))
    BY DEF CountsBalance
  <2>4. CASE m = n
    BY <2>1, <2>2, <2>3, <2>4, <1>1, <1>2, <1>5
  <2>5. CASE m # n
    BY <2>2, <2>3, <2>5, <1>4
  <2> QED BY <2>4, <2>5
<1>10. LinkedNodes'
  <2> SUFFICES ASSUME NEW m \in Linked PROVE data'[m] \in Value /\ internal'[m] <= 0
    BY <1>0, <1>3 DEF LinkedNodes
  <2>1. data[m] \in Value /\ internal[m] <= 0 /\ m \in Node
    BY DEF LinkedNodes, NoUseAfterFree, TypeOK
  <2>2. internal'[m] <= 0
    BY <2>1, <1>1, <1>2, <1>4, <1>5
  <2> QED BY <2>1, <2>2, <1>3
<1>11. TakenNodes'
  <2> SUFFICES ASSUME NEW u \in Thread, u # t, Taken(u), NEW m \in Node, m = ptr[u]
               PROVE  /\ m \notin Linked
                      /\ \A w \in Thread : w # t /\ Taken(w) /\ ptr[w] = m => w = u
                      /\ internal'[m] <= 0
                      /\ old[u].external_count - 1 + internal'[m] = Cardinality(Holders(m)')
                      /\ pc[u] = "swap" => data'[m] \in Value
    <3>1. \A u \in Thread : u # t /\ Taken(u) => ptr[u] \in Node
      BY NullsDistinct DEF Taken, Locals, TypeOK
    <3> QED BY <3>1, <1>0, <1>3, <1>6 DEF TakenNodes
  <2>1. /\ m \notin Linked
        /\ \A w \in Thread : Taken(w) /\ ptr[w] = m => w = u
        /\ internal[m] <= 0 /\ internal[m] \in Int
        /\ old[u].external_count - 1 + internal[m] = Cardinality(Holders(m))
        /\ pc[u] = "swap" => data[m] \in Value
    BY DEF TakenNodes, TypeOK
  <2>2. old[u].external_count \in Int
    BY BoundPositive DEF TypeOK, CountedPtrs
  <2>3. CASE m = n
    BY <2>1, <2>2, <2>3, <1>1, <1>5
  <2>4. CASE m # n
    BY <2>1, <2>4, <1>4
  <2> QED BY <2>3, <2>4
<1>12. LooseNodes'
  <2> SUFFICES ASSUME NEW m \in live', m \notin Linked,
                      \A u \in Thread : mine[u] # m /\ (Taken(u)' => ptr'[u] # m)
               PROVE  internal'[m] = Cardinality(Holders(m)') /\ internal'[m] > 0
    BY <1>0, <1>3 DEF LooseNodes
  <2>1. m \in live /\ m \in Node
    BY <1>0, ReleaseFacts DEF TypeOK
  <2>2. \A u \in Thread : Taken(u) => ptr[u] # m
    BY <1>6
  <2>3. internal[m] = Cardinality(Holders(m)) /\ internal[m] > 0
    BY <2>1, <2>2 DEF LooseNodes
  <2>4. CASE m = n
    <3>1. internal[n] # 1
      BY <2>4, <1>0, <1>1, ReleaseFacts
    <3> QED BY <2>3, <2>4, <3>1, <1>1, <1>5
  <2>5. CASE m # n
    BY <2>1, <2>3, <2>5, <1>4
  <2> QED BY <2>4, <2>5
<1> QED BY <1>3, <1>7, <1>8, <1>9, <1>10, <1>11, <1>12

LEMMA NextKeeps == IInv /\ [Next]_vars => IInv'
<1> SUFFICES ASSUME IInv, [Next]_vars PROVE IInv'
  OBVIOUS
<1>1. CASE UNCHANGED vars
  <2> USE <1>1 DEF vars, nodes, IInv
  <2>1. Linked' = Linked /\ \A n : Holders(n)' = Holders(n)
    BY DEF Linked, Holders
  <2>2. ListIsStack' /\ CountsBalance'
    BY <2>1, ListKept, CountsKept DEF TypeOK
  <2>3. TypeOK' /\ Locals' /\ NoUseAfterFree' /\ FreshNodes' /\ LinkedNodes'
    BY <2>1 DEF TypeOK, Locals, NoUseAfterFree, FreshNodes, LinkedNodes
  <2>4. TakenNodes' /\ LooseNodes'
    BY <2>1 DEF TakenNodes, LooseNodes, Taken
  <2> QED BY <2>2, <2>3, <2>4
<1>2. CASE Next
  BY <1>2, CallPushKeeps, LinkNodeKeeps, LinkNodeFailsKeeps, QuietSteps, AnnounceKeeps,
     TakeKeeps, SwapKeeps, AddKeeps, SubKeeps DEF Next
<1> QED BY <1>1, <1>2

-----------------------------------------------------------------------------
\* Every variable stays in its range, and a pop that returns has a value.
THEOREM TypeCorrect == Spec => []TypeOK
<1>1. IInv => TypeOK
  BY DEF IInv
<1> QED BY <1>1, InitIInv, NextKeeps, PTL DEF Spec

\* No thread ever uses a deleted node, whatever addresses are reused.
THEOREM NeverUseAfterFree == Spec => []NoUseAfterFree
<1>1. IInv => NoUseAfterFree
  BY DEF IInv
<1> QED BY <1>1, InitIInv, NextKeeps, PTL DEF Spec

\* The two counts of a node on the stack always add up to its users.
THEOREM CountsAlwaysBalance == Spec => []CountsBalance
<1>1. IInv => CountsBalance
  BY DEF IInv
<1> QED BY <1>1, InitIInv, NextKeeps, PTL DEF Spec

\* The linked list is always the stack of the nodes pushed and not popped.
THEOREM ListIsAlwaysStack == Spec => []ListIsStack
<1>1. IInv => ListIsStack
  BY DEF IInv
<1> QED BY <1>1, InitIInv, NextKeeps, PTL DEF Spec

\* Every popped node is deleted by the last thread that is done with it.
THEOREM NeverLeak == Spec => []NoLeak
<1>1. IInv => NoLeak
  <2> SUFFICES ASSUME IInv, NEW n \in live, n \notin Linked,
                      \A t \in Thread : mine[t] # n /\ ptr[t] # n
               PROVE  FALSE
    BY DEF NoLeak
  <2>1. Holders(n) = {}
    BY DEF Holders
  <2>2. internal[n] = Cardinality(Holders(n)) /\ internal[n] > 0
    BY DEF IInv, LooseNodes
  <2> QED BY <2>1, <2>2, FS_EmptySet
<1> QED BY <1>1, InitIInv, NextKeeps, PTL DEF Spec

-----------------------------------------------------------------------------
(* The stack implements the atomic LIFO stack. *)

\* The results that callers will see.
Answers == [t \in Thread |-> Result(t)]

\* The values on the stack stay the same when no linked node is touched.
LEMMA ItemsKept ==
  ASSUME UNCHANGED stack, \A n \in Linked : data'[n] = data[n]
  PROVE  Items' = Items
<1>1. \A i \in DOMAIN stack : data'[stack[i]] = data[stack[i]]
  BY DEF Linked
<1> QED BY <1>1 DEF Items

LEMMA InitMaps == Init => Lifo!Init
<1> SUFFICES ASSUME Init PROVE Lifo!Init
  OBVIOUS
<1>1. Items = <<>>
  BY EmptySeq DEF Init, Items
<1>2. \A t \in Thread : Result(t) = "undecided"
  BY DEF Init, Result
<1> QED BY <1>1, <1>2 DEF Lifo!Init

LEMMA PushMaps ==
  ASSUME IInv, NEW t \in Thread, LinkNode(t)
  PROVE  \E v \in Value : Lifo!Push(v)
<1> USE DEF IInv
<1> PICK n \in Node : n = mine[t] /\ n \notin Linked /\ data[n] \in Value
  BY NullsDistinct DEF LinkNode, NextIsHead, Locals, FreshNodes, TypeOK
<1>0. /\ UNCHANGED <<data, ptr, res>> /\ stack' = Append(stack, n)
      /\ pc[t] = "push" /\ pc' = [pc EXCEPT ![t] = "idle"]
  BY DEF LinkNode, NextIsHead, Goto, nodes
<1>1. Items \in Seq(Value) /\ Len(Items) = Len(stack) /\ DOMAIN Items = 1 .. Len(stack)
  <2>1. \A i \in 1 .. Len(stack) : data[stack[i]] \in Value
    BY LenProperties DEF TypeOK, LinkedNodes, Linked
  <2>2. Len(stack) \in Nat /\ DOMAIN stack = 1 .. Len(stack)
    BY LenProperties DEF TypeOK
  <2> QED BY <2>1, <2>2, SeqDef DEF Items
<1>2. Items' = Append(Items, data[n])
  <2>1. /\ Append(Items, data[n]) \in Seq(Value)
        /\ Len(Append(Items, data[n])) = Len(stack) + 1
        /\ \A i \in 1 .. Len(stack) : Append(Items, data[n])[i] = data[stack[i]]
        /\ Append(Items, data[n])[Len(stack) + 1] = data[n]
    <3>1. \A i \in 1 .. Len(stack) : Items[i] = data[stack[i]]
      BY <1>1 DEF Items
    <3> QED BY <1>1, <3>1, AppendProperties
  <2>2. DOMAIN stack' = 1 .. Len(stack) + 1 /\ stack'[Len(stack) + 1] = n
        /\ \A i \in 1 .. Len(stack) : stack'[i] = stack[i]
    BY <1>0, AppendProperties, LenProperties DEF TypeOK
  <2>3. Len(stack) \in Nat
    BY LenProperties DEF TypeOK
  <2>4. DOMAIN Append(Items, data[n]) = 1 .. Len(stack) + 1
    BY <2>1, LenProperties
  <2>5. Items' = [i \in 1 .. Len(stack) + 1 |-> data[stack'[i]]]
    BY <1>0, <2>2 DEF Items
  <2>6. Append(Items, data[n]) = [i \in 1 .. Len(stack) + 1 |-> Append(Items, data[n])[i]]
    BY <2>1, <2>4, LenProperties
  <2>7. \A i \in 1 .. Len(stack) + 1 : data[stack'[i]] = Append(Items, data[n])[i]
    BY <2>1, <2>2, <2>3
  <2> QED BY <2>5, <2>6, <2>7
<1>3. \A u \in Thread : Result(u)' = Result(u)
  <2> SUFFICES ASSUME NEW u \in Thread PROVE Result(u)' = Result(u)
    OBVIOUS
  <2>1. CASE u = t
    BY <2>1, <1>0 DEF Result, TypeOK
  <2>2. CASE u # t
    BY <2>2, <1>0 DEF Result, TypeOK
  <2> QED BY <2>1, <2>2
<1> QED BY <1>2, <1>3 DEF Lifo!Push

LEMMA TakeMaps == ASSUME IInv, NEW t \in Thread, Take(t) PROVE Lifo!Pop(t)
<1> USE DEF IInv
<1> PICK n \in Node, k \in Nat : n = ptr[t] /\ k = Len(stack)
  BY NullsDistinct, LenProperties DEF Take, Locals, TypeOK
<1>0. /\ UNCHANGED <<data, ptr, res>> /\ head.ptr = n
      /\ pc[t] = "take" /\ pc' = [pc EXCEPT ![t] = "swap"]
      /\ stack' = SubSeq(stack, 1, k - 1)
  BY DEF Take, HeadUnchanged, Goto, nodes, Locals
<1>1. k \in Nat \ {0} /\ DOMAIN stack = 1 .. k /\ stack[k] = n
  <2>1. stack # <<>>
    BY <1>0, NullsDistinct DEF ListIsStack
  <2>2. k \in Nat \ {0} /\ DOMAIN stack = 1 .. k
    BY <2>1, EmptySeq, LenProperties DEF TypeOK
  <2> QED BY <2>2, <1>0 DEF ListIsStack, PointerTo
<1>2. /\ Items = [i \in 1 .. k |-> data[stack[i]]]
      /\ Items \in Seq(Value) /\ Len(Items) = k /\ Items # <<>>
  <2>1. \A i \in 1 .. k : data[stack[i]] \in Value
    BY <1>1 DEF LinkedNodes, Linked
  <2>2. Items = [i \in 1 .. k |-> data[stack[i]]]
    BY <1>1 DEF Items
  <2>3. Items \in Seq(Value) /\ Len(Items) = k
    BY <1>1, <2>1, <2>2, SeqDef
  <2> QED BY <1>1, <2>2, <2>3, EmptySeq
<1>3. Items' = SubSeq(Items, 1, Len(Items) - 1)
  <2>1. \A i \in 1 .. k - 1 : stack[i] \in Node /\ Items[i] \in Value
    BY <1>1, <1>2, ElementOfSeq DEF TypeOK
  <2>2. /\ stack' \in Seq(Node) /\ Len(stack') = k - 1
        /\ \A i \in 1 .. k - 1 : stack'[i] = stack[1 + i - 1]
    BY <2>1, <1>0, <1>1, SubSeqProperties
  <2>3. /\ SubSeq(Items, 1, k - 1) \in Seq(Value) /\ Len(SubSeq(Items, 1, k - 1)) = k - 1
        /\ \A i \in 1 .. k - 1 : SubSeq(Items, 1, k - 1)[i] = Items[1 + i - 1]
    BY <2>1, <1>1, SubSeqProperties
  <2>4. DOMAIN stack' = 1 .. k - 1 /\ DOMAIN SubSeq(Items, 1, k - 1) = 1 .. k - 1
    BY <2>2, <2>3, LenProperties
  <2>5. Items' = [i \in 1 .. k - 1 |-> data[stack'[i]]]
    BY <1>0, <2>4 DEF Items
  <2>6. SubSeq(Items, 1, k - 1) = [i \in 1 .. k - 1 |-> SubSeq(Items, 1, k - 1)[i]]
    BY <2>3, <2>4, LenProperties
  <2>7. \A i \in 1 .. k - 1 : data[stack'[i]] = SubSeq(Items, 1, k - 1)[i]
    BY <2>2, <2>3, <1>2
  <2>8. Items' = SubSeq(Items, 1, k - 1)
    BY <2>5, <2>6, <2>7
  <2> QED BY <2>8, <1>2
<1>4. Result(t) = "undecided" /\ Result(t)' = Items[Len(Items)]
  BY <1>0, <1>1, <1>2 DEF Result, TypeOK
<1>5. \A u \in Thread : u # t => Result(u)' = Result(u)
  BY <1>0 DEF Result, TypeOK
<1>6. Answers' = [Answers EXCEPT ![t] = Items[Len(Items)]]
  BY <1>4, <1>5 DEF Answers
<1> QED BY <1>2, <1>3, <1>4, <1>6 DEF Lifo!Pop, Lifo!Decide, Answers

LEMMA AnnounceMaps ==
  ASSUME IInv, NEW t \in Thread, Announce(t)
  PROVE  Lifo!FindEmpty(t) \/ UNCHANGED Lifo!vars
<1> USE DEF IInv
<1>0. /\ UNCHANGED <<data, res, stack>> /\ ptr' = [ptr EXCEPT ![t] = head.ptr]
      /\ pc[t] = "announce" /\ pc' = [pc EXCEPT ![t] = "read"]
  BY DEF Announce, Goto, nodes
<1>1. Items' = Items
  BY <1>0 DEF Items
<1>2. \A u \in Thread : u # t => Result(u)' = Result(u)
  BY <1>0 DEF Result, TypeOK
<1>3. Result(t) = "undecided" /\ Result(t)' = IF head.ptr = NoNode THEN "empty" ELSE "undecided"
  BY <1>0 DEF Result, TypeOK
<1>4. CASE head.ptr = NoNode
  <2>1. Items = <<>>
    BY <1>4, EmptySeq DEF ListIsStack, Items
  <2>2. Answers' = [Answers EXCEPT ![t] = "empty"]
    BY <1>2, <1>3, <1>4 DEF Answers
  <2> QED BY <2>1, <2>2, <1>1, <1>3 DEF Lifo!FindEmpty, Lifo!Decide, Answers
<1>5. CASE head.ptr # NoNode
  BY <1>1, <1>2, <1>3, <1>5 DEF Lifo!vars
<1> QED BY <1>4, <1>5

LEMMA ReturnMaps ==
  ASSUME IInv, NEW t \in Thread, ReturnEmpty(t) \/ Add(t)
  PROVE  Lifo!Return(t)
<1> USE DEF IInv
<1>1. CASE ReturnEmpty(t)
  <2>0. /\ UNCHANGED <<data, res, ptr, stack>> /\ pc' = [pc EXCEPT ![t] = "idle"]
    BY <1>1 DEF ReturnEmpty, Goto, nodes
  <2>1. Items' = Items
    BY <2>0 DEF Items
  <2>2. \A u \in Thread : Result(u)' = IF u = t THEN "undecided" ELSE Result(u)
    BY <2>0 DEF Result, TypeOK
  <2>3. Answers' = [Answers EXCEPT ![t] = "undecided"]
    BY <2>2 DEF Answers
  <2> QED BY <2>1, <2>3 DEF Lifo!Return, Answers
<1>2. CASE Add(t)
  <2> PICK n \in Node, amount \in Int : n = ptr[t] /\ amount = old[t].external_count - 2
    BY <1>2, NullsDistinct, BoundPositive DEF Add, Locals, TypeOK, CountedPtrs
  <2>0. /\ UNCHANGED stack /\ pc[t] = "add" /\ pc' = [pc EXCEPT ![t] = "idle"]
        /\ res' = [res EXCEPT ![t] = NoValue] /\ Release(t, amount)
    BY <1>2 DEF Add, CountIncrease, Goto
  <2>1. /\ n \notin Linked /\ Linked \subseteq Node
        /\ \A u \in Thread : u # t /\ pc[u] = "swap" => ptr[u] # n /\ ptr[u] \in Node
    BY <2>0, NullsDistinct DEF TakenNodes, Taken, NoUseAfterFree, TypeOK, Locals
  <2>2. /\ \A m \in Node \ {n} : data'[m] = data[m]
        /\ \A u \in Thread : u # t => ptr'[u] = ptr[u]
    BY <2>0, ReleaseFacts
  <2>3. Items' = Items
    BY <2>0, <2>1, <2>2, ItemsKept
  <2>4. \A u \in Thread : Result(u)' = IF u = t THEN "undecided" ELSE Result(u)
    BY <2>0, <2>1, <2>2 DEF Result, TypeOK
  <2>5. Answers' = [Answers EXCEPT ![t] = "undecided"]
    BY <2>4 DEF Answers
  <2> QED BY <2>3, <2>5 DEF Lifo!Return, Answers
<1> QED BY <1>1, <1>2

\* The steps that no caller can tell from none.
LEMMA InternalMaps ==
  ASSUME IInv, NEW t \in Thread,
         \/ \E v \in Value : CallPush(t, v)
         \/ LinkNodeFails(t) \/ CallPop(t) \/ AnnounceFails(t) \/ ReadNext(t) \/ TakeFails(t)
         \/ Swap(t) \/ Sub(t)
  PROVE  UNCHANGED Lifo!vars
<1> USE DEF IInv
<1> SUFFICES /\ UNCHANGED stack
             /\ \A n \in Linked : data'[n] = data[n]
             /\ \A u \in Thread : Result(u)' = Result(u)
  BY ItemsKept DEF Lifo!vars
<1>1. CASE \E v \in Value : CallPush(t, v)
  <2>0. PICK n \in Node \ live, v \in Value : data' = [data EXCEPT ![n] = v]
    BY <1>1 DEF CallPush
  <2>1. /\ UNCHANGED <<ptr, res, stack>>
        /\ pc[t] = "idle" /\ pc' = [pc EXCEPT ![t] = "push"]
    BY <1>1 DEF CallPush, Goto
  <2>2. \A m \in live : data'[m] = data[m]
    BY <2>0 DEF TypeOK
  <2>3. \A u \in Thread : pc[u] = "swap" => ptr[u] \in live
    BY NullsDistinct DEF Locals, NoUseAfterFree
  <2> QED BY <2>1, <2>2, <2>3 DEF Result, TypeOK, NoUseAfterFree
<1>2. CASE LinkNodeFails(t)
  BY <1>2 DEF LinkNodeFails, NextIsHead, Result
<1>3. CASE CallPop(t) \/ AnnounceFails(t) \/ ReadNext(t) \/ TakeFails(t)
  <2>1. /\ UNCHANGED <<data, ptr, res, stack>>
        /\ pc[t] \notin {"swap", "add"} /\ pc'[t] \notin {"swap", "add"}
        /\ ~(pc[t] = "read" /\ ptr[t] = NoNode) /\ pc'[t] # "read"
        /\ \A u \in Thread : u # t => pc'[u] = pc[u]
    BY <1>3 DEF CallPop, AnnounceFails, ReadNext, TakeFails, Goto, nodes, TypeOK
  <2> QED BY <2>1 DEF Result
<1>4. CASE Swap(t)
  <2>0. /\ UNCHANGED <<ptr, stack>>
        /\ data' = [data EXCEPT ![ptr[t]] = NoValue]
        /\ res' = [res EXCEPT ![t] = data[ptr[t]]]
        /\ pc[t] = "swap" /\ pc' = [pc EXCEPT ![t] = "add"]
    BY <1>4 DEF Swap, Goto
  <2>1. /\ ptr[t] \notin Linked /\ Linked \subseteq Node
        /\ \A u \in Thread : u # t /\ pc[u] = "swap" => ptr[u] # ptr[t] /\ ptr[u] \in Node
    BY <2>0, NullsDistinct DEF TakenNodes, Taken, NoUseAfterFree, TypeOK, Locals
  <2>2. \A m \in Node : m # ptr[t] => data'[m] = data[m]
    BY <2>0 DEF TypeOK
  <2> QED BY <2>0, <2>1, <2>2 DEF Result, TypeOK
<1>5. CASE Sub(t)
  <2> PICK n \in Node : n = ptr[t]
    BY <1>5, NullsDistinct DEF Sub, Locals, TypeOK
  <2>0. /\ UNCHANGED <<stack, head, mine, res>> /\ Release(t, -1)
        /\ pc[t] = "sub" /\ pc' = [pc EXCEPT ![t] = "announce"]
    BY <1>5 DEF Sub, Goto
  <2>1. internal[n] = 1 => /\ n \notin Linked
                           /\ \A u \in Thread : Taken(u) => ptr[u] # n
    BY NullsDistinct DEF LinkedNodes, TakenNodes
  <2>2. /\ \A m \in Node \ {n} : data'[m] = data[m]
        /\ internal[n] # 1 => data' = data
        /\ \A u \in Thread : u # t => ptr'[u] = ptr[u]
    BY <2>0, ReleaseFacts
  <2>3. Linked \subseteq Node /\ \A u \in Thread : pc[u] = "swap" => ptr[u] \in Node
    BY NullsDistinct DEF NoUseAfterFree, TypeOK, Locals
  <2>4. \A u \in Thread : pc[u] = "swap" => data'[ptr[u]] = data[ptr[u]]
    BY <2>1, <2>2, <2>3 DEF Taken
  <2> QED BY <2>0, <2>1, <2>2, <2>3, <2>4 DEF Result, TypeOK
<1> QED BY <1>1, <1>2, <1>3, <1>4, <1>5

\* Every behaviour of the lock-free stack is one of an atomic LIFO stack: each pop
\* returns a value pushed before it and not popped by another, the newest first,
\* and it finds the stack empty only when it is.
THEOREM Implements == Spec => IsLifo
<1>1. IInv /\ [Next]_vars => [Lifo!Next]_(Lifo!vars)
  <2> SUFFICES ASSUME IInv, [Next]_vars PROVE [Lifo!Next]_(Lifo!vars)
    OBVIOUS
  <2>1. CASE UNCHANGED vars
    BY <2>1 DEF vars, nodes, Lifo!vars, Items, Result
  <2>2. CASE Next
    <3> PICK t \in Thread :
           \/ \E v \in Value : CallPush(t, v)
           \/ LinkNode(t) \/ LinkNodeFails(t)
           \/ CallPop(t) \/ Announce(t) \/ AnnounceFails(t)
           \/ ReturnEmpty(t) \/ ReadNext(t) \/ Take(t) \/ TakeFails(t)
           \/ Swap(t) \/ Add(t) \/ Sub(t)
      BY <2>2 DEF Next
    <3>1. CASE LinkNode(t)
      BY <3>1, PushMaps DEF Lifo!Next
    <3>2. CASE Take(t)
      BY <3>2, TakeMaps DEF Lifo!Next
    <3>3. CASE Announce(t)
      BY <3>3, AnnounceMaps DEF Lifo!Next
    <3>4. CASE ReturnEmpty(t) \/ Add(t)
      BY <3>4, ReturnMaps DEF Lifo!Next
    <3> QED BY <3>1, <3>2, <3>3, <3>4, InternalMaps
  <2> QED BY <2>1, <2>2
<1> QED BY <1>1, InitIInv, NextKeeps, InitMaps, PTL DEF Spec, IsLifo, Lifo!Spec

-----------------------------------------------------------------------------
(* The custom orders: every step is one of SplitCountStack. *)

orderedVars == <<vars, orders>>

LEMMA StepRefines == [OrderedNext]_orderedVars => [Next]_vars
BY DEF OrderedNext, Next, orderedVars, OrderedCallPush, OrderedLinkNode, OrderedAnnounce,
   OrderedReadNext, OrderedSwap, OrderedAdd, OrderedSub, Unordered

\* Whatever is true of every behaviour of SplitCountStack is true of this stack.
THEOREM Refines == OrderedSpec => Spec
BY StepRefines, PTL DEF OrderedSpec, OrderedInit, Spec, orderedVars

\* No thread ever uses a deleted node, with the file's own orders.
THEOREM OrderedNeverUseAfterFree == OrderedSpec => []NoUseAfterFree
BY Refines, NeverUseAfterFree, PTL

\* Every popped node is deleted by the last thread that is done with it.
THEOREM OrderedNeverLeak == OrderedSpec => []NoLeak
BY Refines, NeverLeak, PTL

\* The stack with custom orders implements the atomic LIFO stack.
THEOREM OrderedImplements == OrderedSpec => IsLifo
BY Refines, Implements, PTL

-----------------------------------------------------------------------------
(* The strengthening for the orders. *)

Accesses == {Made(n) : n \in Node} \cup {Swapped(n) : n \in Node}
               \cup {ReadBy(n, t) : n \in Node, t \in Thread}

OrdersOK == /\ accesses \subseteq Accesses
            /\ known \in [Thread -> SUBSET Accesses]
            /\ headRel \subseteq Accesses
            /\ countRel \in [Node -> SUBSET Accesses]

\* Whoever has a node knows that it was made, whoever reads head finds it out.
MadeKnown == /\ \A t \in Thread : /\ mine[t] # NoNode => Made(mine[t]) \in known[t]
                                  /\ ptr[t] # NoNode => Made(ptr[t]) \in known[t]
             /\ \A n \in Linked : Made(n) \in headRel

\* A node is swapped once it is taken; the thread that did it knows, and tells
\* those who are done with the node after it.
SwapKnown == \A n \in Node : Swapped(n) \in accesses =>
    /\ n \in live \ Linked
    /\ \A t \in Thread : mine[t] # n
    /\ \A t \in Thread : Taken(t) /\ ptr[t] = n => pc[t] = "add" /\ Swapped(n) \in known[t]
    /\ Swapped(n) \in countRel[n] \/ \E t \in Thread : Taken(t) /\ ptr[t] = n

OInv == OrdersOK /\ MadeKnown /\ SwapKnown

-----------------------------------------------------------------------------
\* The accesses are told apart by their kind and their node.
LEMMA Kinds ==
  ASSUME NEW n, NEW m, NEW t
  PROVE  /\ Made(n) # Swapped(m) /\ Made(n) # ReadBy(m, t) /\ Swapped(n) # ReadBy(m, t)
         /\ Made(n) = Made(m) => n = m
         /\ Swapped(n) = Swapped(m) => n = m
<1>1. /\ Made(n)[1] = "made" /\ Swapped(m)[1] = "swapped" /\ ReadBy(m, t)[1] = "read"
      /\ Swapped(n)[1] = "swapped"
  BY DEF Made, Swapped, ReadBy
<1>2. Made(n)[2] = n /\ Made(m)[2] = m /\ Swapped(n)[2] = n /\ Swapped(m)[2] = m
  BY DEF Made, Swapped
<1> QED BY <1>1, <1>2

\* An access to another node is not forgotten.
LEMMA ForgottenNode ==
  ASSUME NEW n, NEW m
  PROVE  /\ Made(m) \in AccessesTo(n) => m = n
         /\ Swapped(m) \in AccessesTo(n) => m = n
         /\ Swapped(n) \in accesses => Swapped(n) \in AccessesTo(n)
<1>1. Made(m)[2] = m /\ Swapped(m)[2] = m /\ Swapped(n)[2] = n
  BY DEF Made, Swapped
<1> QED BY <1>1 DEF AccessesTo

\* What an access changes: what is known of it, and nothing else.
LEMMA DoFacts ==
  ASSUME OrdersOK, NEW t \in Thread, NEW a \in Accesses, Do(t, a)
  PROVE  /\ OrdersOK'
         /\ a \in known'[t]
         /\ \A b \in Accesses \ {a} :
                           /\ b \in accesses' <=> b \in accesses
                           /\ \A u \in Thread : b \in known'[u] <=> b \in known[u]
                           /\ b \in headRel' <=> b \in headRel
                           /\ \A n \in Node : b \in countRel'[n] <=> b \in countRel[n]
<1>1. OrdersOK'
  BY DEF OrdersOK, Do
<1>2. \A u \in Thread : known'[u] = IF u = t THEN known[u] \cup {a} ELSE known[u] \ {a}
  BY DEF Do
<1>3. \A n \in Node : countRel'[n] = countRel[n] \ {a}
  BY DEF Do
<1>4. accesses' = accesses \cup {a} /\ headRel' = headRel \ {a}
  BY DEF Do
<1>5. a \in known'[t]
  BY <1>2
<1>6. ASSUME NEW b \in Accesses \ {a}
      PROVE  /\ b \in accesses' <=> b \in accesses
             /\ \A u \in Thread : b \in known'[u] <=> b \in known[u]
             /\ b \in headRel' <=> b \in headRel
             /\ \A n \in Node : b \in countRel'[n] <=> b \in countRel[n]
  <2>1. \A u \in Thread : b \in known'[u] <=> b \in known[u]
    BY <1>2, <1>6
  <2>2. \A n \in Node : b \in countRel'[n] <=> b \in countRel[n]
    BY <1>3, <1>6
  <2>3. (b \in accesses' <=> b \in accesses) /\ (b \in headRel' <=> b \in headRel)
    BY <1>4, <1>6
  <2> QED BY <2>1, <2>2, <2>3
<1> QED BY <1>1, <1>5, <1>6

\* What a delete changes: the accesses to that node.
LEMMA ForgetFacts ==
  ASSUME OrdersOK, NEW n, Forget(n)
  PROVE  /\ OrdersOK'
         /\ Swapped(n) \notin accesses'
         /\ \A m : m # n =>
               /\ Swapped(m) \in accesses' <=> Swapped(m) \in accesses
               /\ \A u \in Thread : /\ Made(m) \in known[u] => Made(m) \in known'[u]
                                    /\ Swapped(m) \in known[u] => Swapped(m) \in known'[u]
               /\ Made(m) \in headRel => Made(m) \in headRel'
               /\ \A k \in Node : Swapped(m) \in countRel[k] => Swapped(m) \in countRel'[k]
<1> DEFINE gone == AccessesTo(n)
<1>1. /\ accesses' = accesses \ gone
      /\ \A u \in Thread : known'[u] = known[u] \ gone
      /\ headRel' = headRel \ gone
      /\ \A k \in Node : countRel'[k] = countRel[k] \ gone
  BY DEF Forget
<1>2. OrdersOK'
  BY DEF OrdersOK, Forget
<1>3. \A m : m # n => Made(m) \notin gone /\ Swapped(m) \notin gone
  BY ForgottenNode
<1>4. Swapped(n) \in accesses => Swapped(n) \in gone
  BY ForgottenNode
<1> HIDE DEF gone
<1> QED BY <1>1, <1>2, <1>3, <1>4

-----------------------------------------------------------------------------
LEMMA InitOInv == Init /\ OrdersInit => OInv
<1> SUFFICES ASSUME Init, OrdersInit PROVE OInv
  OBVIOUS
<1>1. Linked = {}
  BY DEF Init, Linked
<1> QED BY <1>1 DEF Init, OrdersInit, OInv, OrdersOK, MadeKnown, SwapKnown

\* The steps without an access or an order: at most a node is taken off the stack.
LEMMA UnorderedKeeps ==
  ASSUME IInv, OInv, NEW t \in Thread, Unordered(t), UNCHANGED orders
  PROVE  OInv'
<1>1. /\ UNCHANGED <<accesses, known, headRel, countRel, live, mine, ptr>>
      /\ \A u \in Thread \ {t} : pc'[u] = pc[u]
      /\ ~Taken(t)
      /\ Linked' \subseteq Linked
  <2>1. CASE Take(t)
    <3>1. \A i \in DOMAIN stack' : i \in DOMAIN stack /\ stack'[i] = stack[i]
      BY <2>1 DEF IInv, TypeOK, Take
    <3> QED BY <2>1, <3>1 DEF orders, Take, Linked, Taken, nodes, Goto, IInv, TypeOK
  <2>2. CASE ~Take(t)
    BY <2>2 DEF orders, Unordered, Linked, Taken, nodes, Goto, IInv, TypeOK, LinkNodeFails, CallPop,
       AnnounceFails, ReturnEmpty, TakeFails
  <2> QED BY <2>1, <2>2
<1>2. Taken(t)' => ptr[t] \in Linked
  <2>1. CASE Take(t)
    <3>1. head = old[t] /\ old[t].ptr = ptr[t] /\ ptr[t] # NoNode
      BY <2>1 DEF Take, IInv, Locals, HeadUnchanged
    <3>2. stack \in Seq(Node) /\ stack # <<>>
      BY <3>1 DEF IInv, ListIsStack, TypeOK
    <3>3. Len(stack) \in DOMAIN stack
      BY <3>2
    <3>4. PointerTo(Len(stack)).ptr = stack[Len(stack)]
      BY <3>3 DEF IInv, ListIsStack
    <3> QED BY <3>1, <3>3, <3>4 DEF PointerTo, Linked
  <2>2. CASE ~Take(t)
    BY <2>2, <1>1 DEF Unordered, Taken, Goto, IInv, TypeOK, LinkNodeFails, CallPop,
       AnnounceFails, ReturnEmpty, TakeFails
  <2> QED BY <2>1, <2>2
<1>3. OrdersOK' /\ MadeKnown'
  BY <1>1 DEF OInv, OrdersOK, MadeKnown
<1>4. SwapKnown'
  BY <1>1, <1>2 DEF OInv, SwapKnown, Taken
<1> QED BY <1>3, <1>4 DEF OInv

LEMMA ReadKeeps ==
  ASSUME IInv, OInv, NEW t \in Thread, OrderedReadNext(t) PROVE OInv'
<1> DEFINE a == ReadBy(ptr[t], t)
<1>1. /\ UNCHANGED <<live, mine, ptr, stack>>
      /\ \A u \in Thread \ {t} : pc'[u] = pc[u]
      /\ ~Taken(t) /\ ~Taken(t)'
      /\ ptr[t] \in Node
  BY DEF OrderedReadNext, ReadNext, Taken, nodes, Goto, IInv, TypeOK
<1>2. a \in Accesses /\ Do(t, a)
  BY <1>1 DEF OrderedReadNext, Accesses
<1>3. \A n \in Node : Made(n) \in Accesses \ {a} /\ Swapped(n) \in Accesses \ {a}
  BY Kinds DEF Accesses
<1>4. Linked' = Linked
  BY <1>1 DEF Linked
<1>5. Linked \subseteq Node
  BY DEF Linked, IInv, TypeOK
<1> HIDE DEF a
<1>6. OrdersOK' /\ MadeKnown'
  BY <1>1, <1>2, <1>3, <1>4, <1>5, DoFacts DEF OInv, MadeKnown, IInv, TypeOK
<1>7. SwapKnown'
  BY <1>1, <1>2, <1>3, <1>4, DoFacts DEF OInv, SwapKnown, Taken
<1> QED BY <1>6, <1>7 DEF OInv

\* The node made is new: nothing was known of it that matters, and only t has it.
LEMMA CallPushKeepsOrders ==
  ASSUME IInv, IInv', OInv, NEW t \in Thread, NEW v \in Value, OrderedCallPush(t, v)
  PROVE  OInv'
<1> DEFINE n == mine'[t]
           a == Made(n)
<1>1. /\ UNCHANGED <<ptr, stack>>
      /\ \A u \in Thread \ {t} : pc'[u] = pc[u] /\ mine'[u] = mine[u]
      /\ ~Taken(t) /\ ~Taken(t)'
      /\ n \in Node \ live /\ live \subseteq live'
  BY DEF OrderedCallPush, CallPush, Taken, Goto, IInv, TypeOK
<1>2. a \in Accesses /\ Do(t, a)
  BY <1>1 DEF OrderedCallPush, Accesses
<1>3. \A m \in Node : /\ m # n => Made(m) \in Accesses \ {a}
                      /\ Swapped(m) \in Accesses \ {a}
  BY Kinds DEF Accesses
<1>4. Linked' = Linked /\ Linked \subseteq live
  BY <1>1 DEF Linked, IInv, NoUseAfterFree
<1>5. /\ \A u \in Thread : ptr[u] # NoNode => ptr[u] # n /\ ptr[u] \in Node
      /\ \A u \in Thread \ {t} : mine[u] # NoNode => mine[u] # n /\ mine[u] \in Node
  BY <1>1 DEF IInv, NoUseAfterFree, FreshNodes, TypeOK
<1>6. live \subseteq Node
  BY DEF IInv, TypeOK
<1> HIDE DEF a, n
<1>7. OrdersOK' /\ a \in known'[t]
  BY <1>2, DoFacts DEF OInv
<1>8. MadeKnown'
  <2>1. ASSUME NEW u \in Thread, mine'[u] # NoNode PROVE Made(mine'[u]) \in known'[u]
    <3>1. CASE u = t
      BY <3>1, <1>7 DEF a, n
    <3>2. CASE u # t
      BY <3>2, <2>1, <1>1, <1>2, <1>3, <1>5, DoFacts DEF OInv, MadeKnown
    <3> QED BY <3>1, <3>2
  <2>2. ASSUME NEW u \in Thread, ptr'[u] # NoNode PROVE Made(ptr'[u]) \in known'[u]
    BY <2>2, <1>1, <1>2, <1>3, <1>5, DoFacts DEF OInv, MadeKnown
  <2>3. ASSUME NEW m \in Linked PROVE Made(m) \in headRel'
    BY <1>1, <1>2, <1>3, <1>4, <1>6, DoFacts DEF OInv, MadeKnown
  <2> QED BY <1>4, <2>1, <2>2, <2>3 DEF MadeKnown
<1>9. SwapKnown'
  <2> SUFFICES ASSUME NEW m \in Node, Swapped(m) \in accesses'
               PROVE  /\ m \in live' \ Linked
                      /\ \A u \in Thread : mine'[u] # m
                      /\ \A u \in Thread : Taken(u)' /\ ptr[u] = m
                                             => pc'[u] = "add" /\ Swapped(m) \in known'[u]
                      /\ Swapped(m) \in countRel'[m] \/ \E u \in Thread : Taken(u)' /\ ptr[u] = m
    BY <1>1, <1>4 DEF SwapKnown
  <2>1. Swapped(m) \in accesses
    BY <1>2, <1>3, DoFacts DEF OInv
  <2>2. m \in live \ Linked /\ m # n
    BY <2>1, <1>1 DEF OInv, SwapKnown
  <2>3. \A u \in Thread : mine'[u] # m
    BY <2>1, <2>2, <1>1 DEF OInv, SwapKnown, n
  <2>4. \A u \in Thread : Taken(u)' <=> Taken(u)
    BY <1>1 DEF Taken
  <2>5. \A u \in Thread : Taken(u) => pc'[u] = pc[u]
    BY <1>1
  <2>6. /\ Swapped(m) \in countRel'[m] <=> Swapped(m) \in countRel[m]
        /\ \A u \in Thread : Swapped(m) \in known'[u] <=> Swapped(m) \in known[u]
    BY <1>2, <1>3, DoFacts DEF OInv
  <2> QED BY <2>1, <2>2, <2>3, <2>4, <2>5, <2>6, <1>1 DEF OInv, SwapKnown
<1> QED BY <1>7, <1>8, <1>9 DEF OInv

\* The node linked is released with head, by the thread that made it.
LEMMA LinkKeepsOrders ==
  ASSUME IInv, OInv, NEW t \in Thread, OrderedLinkNode(t) PROVE OInv'
<1>1. /\ UNCHANGED <<ptr, live, accesses, known, countRel>>
      /\ \A u \in Thread \ {t} : pc'[u] = pc[u] /\ mine'[u] = mine[u]
      /\ ~Taken(t) /\ ~Taken(t)' /\ mine'[t] = NoNode
      /\ headRel' = headRel \cup known[t]
      /\ stack' = Append(stack, mine[t]) /\ stack \in Seq(Node)
  BY DEF OrderedLinkNode, LinkNode, LinkReleased, Taken, nodes, Goto, IInv, TypeOK
<1>2. mine[t] \in Node /\ mine[t] # NoNode
  BY DEF OrderedLinkNode, LinkNode, IInv, TypeOK, Locals
<1>3. Linked' \subseteq Linked \cup {mine[t]}
  <2> SUFFICES ASSUME NEW i \in DOMAIN stack'
               PROVE  stack'[i] \in Linked \cup {mine[t]}
    BY DEF Linked
  <2>1. CASE i = Len(stack) + 1
    BY <2>1, <1>1, <1>2
  <2>2. CASE i # Len(stack) + 1
    BY <2>2, <1>1, <1>2 DEF Linked
  <2> QED BY <2>1, <2>2
<1>4. OrdersOK'
  BY <1>1 DEF OInv, OrdersOK
<1>5. MadeKnown'
  BY <1>1, <1>2, <1>3 DEF OInv, MadeKnown
<1>6. SwapKnown'
  <2>1. \A n \in Node : Swapped(n) \in accesses => n \notin Linked' /\ \A u \in Thread : mine'[u] # n
    BY <1>1, <1>2, <1>3, NullsDistinct DEF OInv, SwapKnown
  <2> QED BY <2>1, <1>1 DEF OInv, SwapKnown, Taken
<1> QED BY <1>4, <1>5, <1>6 DEF OInv

\* Whoever announces the node at head takes over what was released with head.
LEMMA AnnounceKeepsOrders ==
  ASSUME IInv, OInv, NEW t \in Thread, OrderedAnnounce(t) PROVE OInv'
<1>1. /\ UNCHANGED <<live, mine, stack, accesses, headRel, countRel>>
      /\ \A u \in Thread \ {t} : pc'[u] = pc[u] /\ ptr'[u] = ptr[u]
      /\ ~Taken(t) /\ ~Taken(t)' /\ ptr'[t] = head.ptr /\ ptr[t] = NoNode
      /\ known' = [known EXCEPT ![t] = @ \cup headRel]
  BY DEF OrderedAnnounce, Announce, Taken, nodes, Goto, IInv, TypeOK, Locals
<1>2. Linked' = Linked
  BY <1>1 DEF Linked
<1>3. head.ptr # NoNode => head.ptr \in Linked
  <2> SUFFICES ASSUME head.ptr # NoNode PROVE head.ptr \in Linked
    OBVIOUS
  <2>1. stack # <<>> /\ stack \in Seq(Node)
    BY DEF IInv, ListIsStack, TypeOK
  <2>2. Len(stack) \in DOMAIN stack
    BY <2>1
  <2> QED BY <2>2 DEF IInv, ListIsStack, PointerTo, Linked
<1>4. OrdersOK' /\ \A u \in Thread : known[u] \subseteq known'[u]
  BY <1>1 DEF OInv, OrdersOK
<1>5. headRel \subseteq known'[t]
  BY <1>1 DEF OInv, OrdersOK
<1>6. MadeKnown'
  BY <1>1, <1>2, <1>3, <1>4, <1>5 DEF OInv, MadeKnown
<1>7. SwapKnown'
  <2>1. \A u \in Thread : (Taken(u)' <=> Taken(u)) /\ (Taken(u) => pc'[u] = pc[u] /\ ptr'[u] = ptr[u])
    BY <1>1 DEF Taken
  <2> QED BY <2>1, <1>1, <1>2, <1>4 DEF OInv, SwapKnown
<1> QED BY <1>4, <1>6, <1>7 DEF OInv

\* The taker of a node swaps its data, knows that, and is the only one to do it.
LEMMA SwapKeepsOrders ==
  ASSUME IInv, OInv, NEW t \in Thread, OrderedSwap(t) PROVE OInv'
<1> DEFINE n == ptr[t]
           a == Swapped(n)
<1>1. /\ UNCHANGED <<live, mine, ptr, stack>>
      /\ \A u \in Thread \ {t} : pc'[u] = pc[u]
      /\ pc[t] = "swap" /\ pc'[t] = "add"
      /\ n \in Node /\ n # NoNode
  BY DEF OrderedSwap, Swap, nodes, Goto, IInv, TypeOK, Locals
<1>2. a \in Accesses /\ Do(t, a)
  BY <1>1 DEF OrderedSwap, Accesses
<1>3. \A m \in Node : /\ Made(m) \in Accesses \ {a}
                      /\ m # n => Swapped(m) \in Accesses \ {a}
  BY Kinds DEF Accesses
<1>4. Linked' = Linked /\ Linked \subseteq Node
  BY <1>1 DEF Linked, IInv, TypeOK
<1>5. /\ n \in live \ Linked
      /\ \A u \in Thread : mine[u] # n /\ (Taken(u) /\ ptr[u] = n => u = t)
  BY <1>1, NullsDistinct DEF IInv, NoUseAfterFree, FreshNodes, TakenNodes, Taken
<1>6. /\ \A u \in Thread : Taken(u)' <=> Taken(u)
      /\ Taken(t)
  BY <1>1 DEF Taken
<1> HIDE DEF a, n
<1>7. OrdersOK' /\ a \in known'[t]
  BY <1>2, DoFacts DEF OInv
<1>8. MadeKnown'
  BY <1>1, <1>2, <1>3, <1>4, DoFacts DEF OInv, MadeKnown, IInv, TypeOK
<1>9. SwapKnown'
  <2> SUFFICES ASSUME NEW m \in Node, Swapped(m) \in accesses'
               PROVE  /\ m \in live \ Linked
                      /\ \A u \in Thread : mine[u] # m
                      /\ \A u \in Thread : Taken(u) /\ ptr[u] = m
                                             => pc'[u] = "add" /\ Swapped(m) \in known'[u]
                      /\ Swapped(m) \in countRel'[m] \/ \E u \in Thread : Taken(u) /\ ptr[u] = m
    BY <1>1, <1>4, <1>6 DEF SwapKnown
  <2>1. CASE m = n
    BY <2>1, <1>1, <1>5, <1>6, <1>7 DEF a, n
  <2>2. CASE m # n
    <3>1. /\ Swapped(m) \in accesses
          /\ Swapped(m) \in countRel'[m] <=> Swapped(m) \in countRel[m]
          /\ \A u \in Thread : Swapped(m) \in known'[u] <=> Swapped(m) \in known[u]
      BY <2>2, <1>2, <1>3, DoFacts DEF OInv
    <3> QED BY <2>2, <3>1, <1>1 DEF OInv, SwapKnown, n
  <2> QED BY <2>1, <2>2
<1> QED BY <1>7, <1>8, <1>9 DEF OInv

\* A thread gives its node back: the last one to do so deletes the node, and what
\* was known of it; a taker that is not leaves what it knows of the swap behind.
LEMMA ReleaseKeepsOrders ==
  ASSUME IInv, IInv', OInv, NEW t \in Thread, NEW amount \in Int, Release(t, amount),
         ptr[t] # NoNode, ~Taken(t)', UNCHANGED <<mine, stack>>,
         \A u \in Thread \ {t} : pc'[u] = pc[u],
         LastUser(t, amount) => Forget(ptr[t]),
         ~LastUser(t, amount) =>
            /\ UNCHANGED <<accesses, known, headRel>>
            /\ countRel' \in [Node -> SUBSET Accesses]
            /\ \A n \in Node : countRel[n] \subseteq countRel'[n]
            /\ Taken(t) => known[t] \subseteq countRel'[ptr[t]]
  PROVE  OInv'
<1> PICK n \in Node : n = ptr[t]
  BY DEF IInv, TypeOK
<1>1. /\ ptr'[t] = NoNode /\ \A u \in Thread \ {t} : ptr'[u] = ptr[u]
      /\ \A m \in Node \ {n} : m \in live' <=> m \in live
      /\ \A u \in Thread \ {t} : Taken(u)' <=> Taken(u)
  BY ReleaseFacts DEF Taken
<1>2. Linked' = Linked /\ Linked \subseteq Node
  BY DEF Linked, IInv, TypeOK
<1>3. CASE LastUser(t, amount)
  <2>1. n \notin live'
    BY <1>3, ReleaseFacts DEF LastUser
  <2>2. /\ \A u \in Thread : /\ ptr'[u] # NoNode => ptr'[u] # n /\ ptr'[u] \in Node
                             /\ mine'[u] # NoNode => mine'[u] # n /\ mine'[u] \in Node
        /\ n \notin Linked
    BY <2>1, <1>2 DEF IInv, NoUseAfterFree, FreshNodes, TypeOK
  <2>3. Forget(n) /\ OrdersOK
    BY <1>3 DEF OInv
  <2>4. MadeKnown'
    <3>1. ASSUME NEW u \in Thread
          PROVE  /\ mine'[u] # NoNode => Made(mine'[u]) \in known'[u]
                 /\ ptr'[u] # NoNode => Made(ptr'[u]) \in known'[u]
      BY <1>1, <2>2, <2>3, ForgetFacts DEF OInv, MadeKnown
    <3>2. ASSUME NEW m \in Linked PROVE Made(m) \in headRel'
      BY <1>2, <2>2, <2>3, ForgetFacts DEF OInv, MadeKnown
    <3> QED BY <1>2, <3>1, <3>2 DEF MadeKnown
  <2>5. SwapKnown'
    <3> SUFFICES ASSUME NEW m \in Node, Swapped(m) \in accesses'
                 PROVE  /\ m \in live' \ Linked
                        /\ \A u \in Thread : mine[u] # m
                        /\ \A u \in Thread : Taken(u)' /\ ptr'[u] = m
                                               => pc'[u] = "add" /\ Swapped(m) \in known'[u]
                        /\ Swapped(m) \in countRel'[m] \/ \E u \in Thread : Taken(u)' /\ ptr'[u] = m
      BY <1>2 DEF SwapKnown
    <3>1. m # n
      BY <2>3, ForgetFacts
    <3>2. /\ Swapped(m) \in accesses
          /\ Swapped(m) \in countRel[m] => Swapped(m) \in countRel'[m]
          /\ \A u \in Thread : Swapped(m) \in known[u] => Swapped(m) \in known'[u]
      BY <3>1, <2>3, ForgetFacts
    <3>3. m \in live' \ Linked /\ \A u \in Thread : mine[u] # m
      BY <3>1, <3>2, <1>1 DEF OInv, SwapKnown
    <3> QED BY <3>1, <3>2, <3>3, <1>1 DEF OInv, SwapKnown
  <2> QED BY <2>3, <2>4, <2>5, ForgetFacts DEF OInv
<1>4. CASE ~LastUser(t, amount)
  <2>1. live' = live
    BY <1>4, ReleaseFacts DEF LastUser
  <2>2. OrdersOK' /\ MadeKnown'
    BY <1>1, <1>2, <1>4 DEF OInv, OrdersOK, MadeKnown
  <2>3. SwapKnown'
    <3> SUFFICES ASSUME NEW m \in Node, Swapped(m) \in accesses
                 PROVE  /\ \A u \in Thread : Taken(u)' /\ ptr'[u] = m
                                               => pc'[u] = "add" /\ Swapped(m) \in known[u]
                        /\ Swapped(m) \in countRel'[m] \/ \E u \in Thread : Taken(u)' /\ ptr'[u] = m
      BY <1>2, <1>4, <2>1 DEF OInv, SwapKnown
    <3>1. \A u \in Thread : Taken(u)' /\ ptr'[u] = m => pc'[u] = "add" /\ Swapped(m) \in known[u]
      BY <1>1 DEF OInv, SwapKnown
    <3>2. CASE Swapped(m) \in countRel[m]
      BY <3>1, <3>2, <1>4
    <3>3. CASE Swapped(m) \notin countRel[m]
      <4> PICK u \in Thread : Taken(u) /\ ptr[u] = m
        BY <3>3 DEF OInv, SwapKnown
      <4>1. CASE u = t
        BY <4>1, <3>1, <1>4 DEF OInv, SwapKnown
      <4>2. CASE u # t
        BY <4>2, <3>1, <1>1
      <4> QED BY <4>1, <4>2
    <3> QED BY <3>2, <3>3
  <2> QED BY <2>2, <2>3 DEF OInv
<1> QED BY <1>3, <1>4

LEMMA AddKeepsOrders ==
  ASSUME IInv, IInv', OInv, NEW t \in Thread, OrderedAdd(t) PROVE OInv'
<1> PICK amount \in Int : amount = CountIncrease(t)
  BY BoundPositive DEF CountIncrease, IInv, TypeOK, CountedPtrs
<1>1. /\ Release(t, amount) /\ UNCHANGED <<mine, stack>>
      /\ ptr[t] # NoNode /\ ptr[t] \in Node
      /\ ~Taken(t)' /\ \A u \in Thread \ {t} : pc'[u] = pc[u]
  BY DEF OrderedAdd, Add, Goto, Taken, IInv, TypeOK, Locals
<1>2. LastUser(t, amount) => Forget(ptr[t])
  BY DEF OrderedAdd
<1>3. ASSUME ~LastUser(t, amount)
      PROVE  /\ UNCHANGED <<accesses, known, headRel>>
             /\ countRel' \in [Node -> SUBSET Accesses]
             /\ \A n \in Node : countRel[n] \subseteq countRel'[n]
             /\ known[t] \subseteq countRel'[ptr[t]]
  <2>1. /\ UNCHANGED <<accesses, known, headRel>>
        /\ countRel' = [countRel EXCEPT ![ptr[t]] = countRel[ptr[t]] \cup known[t]]
    BY <1>3 DEF OrderedAdd, AddReleased
  <2> QED BY <2>1, <1>1 DEF OInv, OrdersOK
<1> QED BY <1>1, <1>2, <1>3, ReleaseKeepsOrders

LEMMA SubKeepsOrders ==
  ASSUME IInv, IInv', OInv, NEW t \in Thread, OrderedSub(t) PROVE OInv'
<1>1. /\ Release(t, -1) /\ UNCHANGED <<mine, stack>>
      /\ ptr[t] # NoNode
      /\ ~Taken(t) /\ ~Taken(t)' /\ \A u \in Thread \ {t} : pc'[u] = pc[u]
  BY DEF OrderedSub, Sub, Goto, Taken, IInv, TypeOK, Locals
<1>2. LastUser(t, -1) => Forget(ptr[t])
  BY DEF OrderedSub
<1>3. ~LastUser(t, -1) => UNCHANGED orders
  BY DEF OrderedSub
<1>4. -1 \in Int
  OBVIOUS
<1>5. ~LastUser(t, -1) => /\ UNCHANGED <<accesses, known, headRel>>
                          /\ countRel' \in [Node -> SUBSET Accesses]
                          /\ \A n \in Node : countRel[n] \subseteq countRel'[n]
  BY <1>3 DEF orders, OInv, OrdersOK
<1> QED BY <1>1, <1>2, <1>4, <1>5, ReleaseKeepsOrders

LEMMA OrderedNextKeeps == IInv /\ IInv' /\ OInv /\ [OrderedNext]_orderedVars => OInv'
<1> SUFFICES ASSUME IInv, IInv', OInv, [OrderedNext]_orderedVars PROVE OInv'
  OBVIOUS
<1>1. CASE UNCHANGED orderedVars
  <2>1. Linked' = Linked /\ \A u \in Thread : Taken(u)' <=> Taken(u)
    BY <1>1 DEF Linked, Taken, orderedVars, vars
  <2> QED BY <1>1, <2>1 DEF OInv, OrdersOK, MadeKnown, SwapKnown, orderedVars, vars, orders, nodes
<1>2. CASE OrderedNext
  BY <1>2, UnorderedKeeps, ReadKeeps, CallPushKeepsOrders, LinkKeepsOrders,
     AnnounceKeepsOrders, SwapKeepsOrders, AddKeepsOrders, SubKeepsOrders DEF OrderedNext
<1> QED BY <1>1, <1>2

LEMMA OrderedInvariance == OrderedSpec => [](IInv /\ OInv)
<1>1. Init /\ OrdersInit => IInv /\ OInv
  BY InitIInv, InitOInv
<1>2. IInv /\ OInv /\ [OrderedNext]_orderedVars => IInv' /\ OInv'
  BY StepRefines, NextKeeps, OrderedNextKeeps
<1> QED BY <1>1, <1>2, PTL DEF OrderedSpec, OrderedInit, orderedVars

-----------------------------------------------------------------------------
\* A thread that reads a node's next or takes its data has synchronized with the push
\* that built the node, through whatever relaxed exchanges of head came between.
THEOREM AlwaysVisible == OrderedSpec => []NodesAreVisible
<1>1. OInv => NodesAreVisible
  BY DEF OInv, MadeKnown, NodesAreVisible
<1> QED BY <1>1, OrderedInvariance, PTL

\* Whichever thread deletes a node, the swap of its data happens before.
THEOREM SwapsComeFirst == OrderedSpec => []SwapBeforeDelete
<1>1. IInv /\ OInv => SwapBeforeDelete
  <2> SUFFICES ASSUME IInv, OInv, NEW t \in Thread, Deletes(t),
                      NEW a \in AccessesTo(ptr[t]), a[1] \in {"made", "swapped"}
               PROVE  a \in KnownByDelete(t)
    BY DEF SwapBeforeDelete, Ordered
  <2>1. /\ pc[t] \in {"add", "sub"} /\ ptr[t] # NoNode /\ ptr[t] \in Node
        /\ known[t] \subseteq KnownByDelete(t)
        /\ pc[t] = "sub" => countRel[ptr[t]] \subseteq KnownByDelete(t)
    BY DEF Deletes, IInv, Locals, TypeOK, KnownByDelete
  <2>2. a = Made(ptr[t]) \/ a = Swapped(ptr[t])
    <3>1. a \in Accesses /\ a[2] = ptr[t]
      BY DEF AccessesTo, OInv, OrdersOK
    <3> QED BY <3>1 DEF Accesses, Made, Swapped, ReadBy
  <2>3. CASE a = Made(ptr[t])
    BY <2>1, <2>3 DEF OInv, MadeKnown
  <2>4. CASE a = Swapped(ptr[t])
    <3>1. a \in accesses
      BY DEF AccessesTo
    <3>2. CASE pc[t] = "add"
      BY <2>1, <2>4, <3>1, <3>2 DEF OInv, SwapKnown, Taken
    <3>3. CASE pc[t] = "sub"
      <4>1. internal[ptr[t]] > 0
        BY <3>3 DEF Deletes, LastUser
      <4>2. \A u \in Thread : Taken(u) => ptr[u] # ptr[t]
        BY <4>1, <2>1 DEF IInv, TakenNodes, TypeOK
      <4> QED BY <4>2, <2>1, <2>4, <3>1, <3>3 DEF OInv, SwapKnown
    <3> QED BY <2>1, <3>2, <3>3
  <2> QED BY <2>2, <2>3, <2>4
<1> QED BY <1>1, OrderedInvariance, PTL
=============================================================================
