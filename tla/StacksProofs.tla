---------------------------- MODULE StacksProofs ----------------------------
(***************************************************************************)
(* The stacks of MCStacks, proved for any finite set of threads and any       *)
(* addresses, values and slots: the two that delete the nodes they pop never   *)
(* use a deleted node and lose none (HInv with hazard pointers, CInv with a     *)
(* count of the threads in pop), and every one of them is an atomic stack.      *)
(***************************************************************************)
EXTENDS MCStacks, FiniteSetTheorems, SequenceTheorems, TLAPS

\* The stack is the list from head, and repeats no node.
ListIsStack ==
    /\ head = IF stack = <<>> THEN NoNode ELSE stack[Len(stack)]
    /\ \A k \in DOMAIN stack : next[stack[k]] = IF k = 1 THEN NoNode ELSE stack[k - 1]
    /\ \A j, k \in DOMAIN stack : stack[j] = stack[k] => j = k

-----------------------------------------------------------------------------
(* Facts about the helpers *)

\* The nodes of the stack are nodes, and its top is head.
LEMMA TopOfStack ==
  ASSUME stack \in Seq(Node), ListIsStack
  PROVE  /\ Len(stack) \in Nat /\ DOMAIN stack = 1 .. Len(stack)
         /\ \A k \in DOMAIN stack : stack[k] \in Node /\ stack[k] \in Linked
         /\ Linked \subseteq Node
         /\ head = NoNode <=> stack = <<>>
         /\ stack # <<>> => /\ Len(stack) \in DOMAIN stack /\ head = stack[Len(stack)]
                            /\ head \in Linked
<1>1. Len(stack) \in Nat /\ DOMAIN stack = 1 .. Len(stack)
  BY LenProperties
<1>2. \A k \in DOMAIN stack : stack[k] \in Node /\ stack[k] \in Linked
  BY <1>1, ElementOfSeq DEF Linked
<1>3. Linked \subseteq Node
  BY <1>2 DEF Linked
<1>4. ASSUME stack # <<>> PROVE Len(stack) \in DOMAIN stack
  BY <1>1, <1>4, EmptySeq
<1> QED BY <1>1, <1>2, <1>3, <1>4, NullsDistinct DEF ListIsStack

\* The list stays the same when no linked node is touched.
LEMMA ListKept ==
  ASSUME ListIsStack, UNCHANGED <<head, stack>>, stack \in Seq(Node),
         \A n \in Linked : next'[n] = next[n]
  PROVE  ListIsStack' /\ Linked' = Linked
<1>1. \A k \in DOMAIN stack : next'[stack[k]] = next[stack[k]]
  BY DEF Linked
<1> QED BY <1>1 DEF ListIsStack, Linked

\* Pushing the node whose next is head.
LEMMA ListGrows ==
  ASSUME ListIsStack, stack \in Seq(Node), NEW n \in Node, n \notin Linked,
         next[n] = head, head' = n, stack' = Append(stack, n), next' = next
  PROVE  ListIsStack' /\ Linked' = Linked \cup {n} /\ stack' \in Seq(Node)
<1> DEFINE k == Len(stack)
<1>1. /\ k \in Nat /\ DOMAIN stack = 1 .. k
      /\ \A j \in DOMAIN stack : stack[j] \in Node /\ stack[j] \in Linked
  BY TopOfStack
<1>2. /\ stack' \in Seq(Node) /\ Len(stack') = k + 1 /\ DOMAIN stack' = 1 .. k + 1
      /\ stack'[k + 1] = n
      /\ \A j \in 1 .. k : stack'[j] = stack[j]
  BY AppendProperties, LenProperties
<1> HIDE DEF k
<1>3. Linked' = Linked \cup {n}
  <2>1. Linked = {stack[j] : j \in 1 .. k} /\ Linked' = {stack'[j] : j \in 1 .. k + 1}
    BY <1>1, <1>2 DEF Linked
  <2>2. Linked' \subseteq Linked \cup {n}
    BY <2>1, <1>1, <1>2
  <2>3. Linked \subseteq Linked' /\ n \in Linked'
    BY <2>1, <1>1, <1>2
  <2> QED BY <2>2, <2>3
<1>4. head' = stack'[Len(stack')] /\ stack' # <<>>
  BY <1>1, <1>2, EmptySeq
<1>5. \A j \in DOMAIN stack' : next[stack'[j]] = IF j = 1 THEN NoNode ELSE stack'[j - 1]
  <2> TAKE j \in DOMAIN stack'
  <2>1. CASE j \in 1 .. k
    BY <2>1, <1>1, <1>2 DEF ListIsStack
  <2>2. CASE j = k + 1
    <3>1. k = 0 <=> stack = <<>>
      BY <1>1, EmptySeq DEF k
    <3>2. k = 0 => next[stack'[j]] = NoNode
      BY <3>1, <2>2, <1>2 DEF ListIsStack
    <3>3. k # 0 => next[stack'[j]] = stack[k]
      BY <3>1, <2>2, <1>2 DEF ListIsStack, k
    <3> QED BY <3>2, <3>3, <2>2, <1>1, <1>2
  <2> QED BY <2>1, <2>2, <1>1, <1>2
<1>6. \A j, l \in DOMAIN stack' : stack'[j] = stack'[l] => j = l
  BY <1>1, <1>2 DEF ListIsStack
<1> QED BY <1>2, <1>3, <1>4, <1>5, <1>6 DEF ListIsStack

\* Popping the head, for what its next says.
LEMMA ListShrinks ==
  ASSUME ListIsStack, stack \in Seq(Node), head # NoNode,
         head' = next[head], stack' = SubSeq(stack, 1, Len(stack) - 1), next' = next
  PROVE  /\ ListIsStack' /\ Linked' = Linked \ {head} /\ stack' \in Seq(Node)
         /\ head \in Linked
<1> DEFINE k == Len(stack)
<1>1. /\ k \in Nat \ {0} /\ DOMAIN stack = 1 .. k /\ head = stack[k] /\ head \in Linked
      /\ \A j \in DOMAIN stack : stack[j] \in Node /\ stack[j] \in Linked
  BY TopOfStack
<1>2. /\ stack' \in Seq(Node) /\ Len(stack') = k - 1 /\ DOMAIN stack' = 1 .. k - 1
      /\ \A j \in 1 .. k - 1 : stack'[j] = stack[j]
  <2>1. \A j \in 1 .. k - 1 : stack[j] \in Node
    BY <1>1
  <2> QED BY <2>1, <1>1, SubSeqProperties, LenProperties
<1> HIDE DEF k
<1>3. Linked' = Linked \ {head}
  <2>1. Linked = {stack[j] : j \in 1 .. k} /\ Linked' = {stack'[j] : j \in 1 .. k - 1}
    BY <1>1, <1>2 DEF Linked
  <2>2. \A j \in 1 .. k : stack[j] = head => j = k
    BY <1>1 DEF ListIsStack
  <2>3. \A j \in 1 .. k - 1 : j \in 1 .. k /\ stack[j] # head /\ stack[j] \in Linked
    BY <2>2, <1>1
  <2>4. Linked' \subseteq Linked \ {head}
    BY <2>1, <2>3, <1>2
  <2>5. \A j \in 1 .. k : j = k \/ j \in 1 .. k - 1
    BY <1>1
  <2>6. Linked \ {head} \subseteq Linked'
    BY <2>1, <2>5, <1>1, <1>2
  <2> QED BY <2>4, <2>6
<1>4. head' = IF stack' = <<>> THEN NoNode ELSE stack'[Len(stack')]
  <2>1. stack' = <<>> <=> k = 1
    BY <1>1, <1>2, EmptySeq
  <2>2. next[head] = IF k = 1 THEN NoNode ELSE stack[k - 1]
    BY <1>1 DEF ListIsStack
  <2> QED BY <2>1, <2>2, <1>1, <1>2
<1>5. \A j \in DOMAIN stack' : next[stack'[j]] = IF j = 1 THEN NoNode ELSE stack'[j - 1]
  <2>1. \A j \in 1 .. k - 1 : j \in 1 .. k /\ (j # 1 => j - 1 \in 1 .. k - 1)
    BY <1>1
  <2> QED BY <2>1, <1>1, <1>2 DEF ListIsStack
<1>6. \A j, l \in DOMAIN stack' : stack'[j] = stack'[l] => j = l
  <2>1. \A j \in 1 .. k - 1 : j \in 1 .. k
    BY <1>1
  <2> QED BY <2>1, <1>1, <1>2 DEF ListIsStack
<1> QED BY <1>1, <1>2, <1>3, <1>4, <1>5, <1>6 DEF ListIsStack

\* The values on the stack stay the same when those of its nodes do.
LEMMA ItemsKept ==
  ASSUME stack' = stack, \A n \in Linked : data'[n] = data[n] PROVE Items' = Items
<1>1. \A k \in DOMAIN stack : data'[stack[k]] = data[stack[k]]
  BY DEF Linked
<1> QED BY <1>1 DEF Items

LEMMA ItemsGrow ==
  ASSUME ListIsStack, stack \in Seq(Node), NEW n \in Node, stack' = Append(stack, n), data' = data,
         data[n] \in Value, \A q \in Linked : data[q] \in Value
  PROVE  Items' = Append(Items, data[n])
<1> DEFINE k == Len(stack)
<1>1. k \in Nat /\ DOMAIN stack = 1 .. k /\ \A j \in 1 .. k : stack[j] \in Linked
  BY TopOfStack
<1>2. /\ Len(stack') = k + 1 /\ DOMAIN stack' = 1 .. k + 1 /\ stack'[k + 1] = n
      /\ \A j \in 1 .. k : stack'[j] = stack[j]
  BY AppendProperties, LenProperties
<1> HIDE DEF k
<1>3. Items = [j \in 1 .. k |-> data[stack[j]]] /\ Items \in Seq(Value) /\ Len(Items) = k
  <2>1. Items = [j \in 1 .. k |-> data[stack[j]]]
    BY <1>1 DEF Items
  <2>2. \A j \in 1 .. k : data[stack[j]] \in Value
    BY <1>1
  <2>3. Items \in [1 .. k -> Value]
    BY <2>1, <2>2
  <2> QED BY <2>1, <2>3, <1>1, SeqDef, LenProperties
<1>4. /\ Append(Items, data[n]) \in Seq(Value) /\ Len(Append(Items, data[n])) = k + 1
      /\ \A j \in 1 .. k : Append(Items, data[n])[j] = data[stack[j]]
      /\ Append(Items, data[n])[k + 1] = data[n]
  BY <1>1, <1>3, AppendProperties
<1>5. Append(Items, data[n]) = [j \in 1 .. k + 1 |-> Append(Items, data[n])[j]]
  BY <1>4, LenProperties
<1>6. Items' = [j \in 1 .. k + 1 |-> data[stack'[j]]]
  BY <1>2 DEF Items
<1>7. \A j \in 1 .. k + 1 : data[stack'[j]] = Append(Items, data[n])[j]
  BY <1>1, <1>2, <1>4
<1> QED BY <1>5, <1>6, <1>7

LEMMA ItemsShrink ==
  ASSUME ListIsStack, stack \in Seq(Node), head # NoNode, data' = data,
         stack' = SubSeq(stack, 1, Len(stack) - 1), \A q \in Linked : data[q] \in Value
  PROVE  /\ Items # <<>> /\ Items[Len(Items)] = data[head]
         /\ Items' = SubSeq(Items, 1, Len(Items) - 1)
<1> DEFINE k == Len(stack)
<1>1. /\ k \in Nat \ {0} /\ DOMAIN stack = 1 .. k /\ stack[k] = head
      /\ \A j \in 1 .. k : stack[j] \in Node /\ stack[j] \in Linked
  BY TopOfStack
<1>2. /\ stack' \in Seq(Node) /\ Len(stack') = k - 1
      /\ \A j \in 1 .. k - 1 : stack'[j] = stack[j]
  <2>1. \A j \in 1 .. k - 1 : stack[j] \in Node
    BY <1>1
  <2> QED BY <2>1, <1>1, SubSeqProperties
<1> HIDE DEF k
<1>3. Items = [j \in 1 .. k |-> data[stack[j]]] /\ Items \in Seq(Value) /\ Len(Items) = k
  <2>1. Items = [j \in 1 .. k |-> data[stack[j]]]
    BY <1>1 DEF Items
  <2>2. \A j \in 1 .. k : data[stack[j]] \in Value
    BY <1>1
  <2>3. Items \in [1 .. k -> Value]
    BY <2>1, <2>2
  <2> QED BY <2>1, <2>3, <1>1, SeqDef, LenProperties
<1>4. Items # <<>> /\ Items[Len(Items)] = data[head]
  <2>1. Len(Items) = k /\ k # 0 /\ k \in 1 .. k /\ Items \in Seq(Value)
    BY <1>1, <1>3
  <2>2. Items # <<>>
    BY <2>1, EmptySeq
  <2> QED BY <2>1, <2>2, <1>1, <1>3
<1>5. /\ SubSeq(Items, 1, k - 1) \in Seq(Value) /\ Len(SubSeq(Items, 1, k - 1)) = k - 1
      /\ \A j \in 1 .. k - 1 : SubSeq(Items, 1, k - 1)[j] = data[stack[j]]
  <2>1. \A j \in 1 .. k - 1 : Items[j] \in Value /\ Items[j] = data[stack[j]]
    BY <1>1, <1>3
  <2> QED BY <2>1, <1>1, <1>3, SubSeqProperties
<1>6. /\ DOMAIN stack' = 1 .. k - 1
      /\ SubSeq(Items, 1, k - 1) = [j \in 1 .. k - 1 |-> SubSeq(Items, 1, k - 1)[j]]
  BY <1>2, <1>5, LenProperties
<1>7. Items' = [j \in 1 .. k - 1 |-> data[stack'[j]]]
  BY <1>6 DEF Items
<1>8. Items' = SubSeq(Items, 1, k - 1)
  BY <1>2, <1>5, <1>6, <1>7
<1> QED BY <1>3, <1>4, <1>8

\* push has a node of its own until head points at it.
MineOK == \A t \in Thread :
    /\ mine[t] # NoNode <=> pc[t] = "push"
    /\ mine[t] # NoNode => mine[t] \in live /\ data[mine[t]] \in Value

\* What a thread knows at its program counter.
Locals == \A t \in Thread :
    /\ pc[t] \notin {"idle", "push", "own"} => slot[t] # 0
    /\ pc[t] \notin {"own", "scan", "rescan"} => i[t] = 1
    /\ pc[t] \in {"scan", "rescan"} => i[t] \in Slot
    /\ pc[t] \in {"swap", "scan", "keep", "delete", "rescan", "rekeep", "redelete"}
          => old[t] # NoNode
    /\ rest[t] # {} => pc[t] \in {"rescan", "rekeep", "redelete"}

\* The nodes only thread t may change or delete.
InHand(t) == Claimed(t) \cup rest[t] \cup ({mine[t]} \ {NoNode})

\* A node has one keeper: the stack, nodes_to_reclaim, or one thread.
OneKeeper ==
    /\ Linked \cap reclaim = {}
    /\ \A t \in Thread : /\ InHand(t) \cap (Linked \cup reclaim) = {}
                         /\ Claimed(t) \cap rest[t] = {}
    /\ \A t, u \in Thread : t # u => InHand(t) \cap InHand(u) = {}

\* The data is there from the constructor to the swap.
Holding == /\ \A n \in Linked : data[n] \in Value
           /\ \A t \in Thread : pc[t] \in {"clear", "swap"} /\ old[t] # NoNode
                                   => data[old[t]] \in Value

\* A pop that is going to read a node, or that has read its next.
Reading(t) == pc[t] \in {"read", "exchange"}

\* What a hazard pointer is for: the node it names was on the stack after it was
\* stored.  So it is allocated, nobody is building it, and whoever has popped it has
\* not yet looked at this slot, and will not delete it before.
Shielded(u) ==
    /\ old[u] \in live
    /\ pointer[slot[u]] = old[u]
    /\ pc[u] = "exchange" => nxt[u] = next[old[u]]
    /\ \A t \in Thread :
          /\ mine[t] # old[u]
          /\ pc[t] \in {"scan", "rescan"} /\ old[t] = old[u] => i[t] <= slot[u]
          /\ pc[t] \in {"delete", "redelete"} => old[t] # old[u]

Protected == \A u \in Thread : Reading(u) => Shielded(u)

HInv == /\ TypeOK /\ NoUseAfterFree /\ NoLeak
        /\ ListIsStack /\ MineOK /\ Locals /\ OneKeeper /\ Holding /\ Protected

-----------------------------------------------------------------------------
(* Hazard pointers: the invariant holds at the start, and every step keeps it. *)

\* No two threads have the same slot.
LEMMA SlotsDiffer ==
  ASSUME HInv, NEW t \in Thread, NEW u \in Thread, t # u, slot[t] # 0
  PROVE  slot[t] # slot[u] /\ slot[t] \in Slot /\ slot[t] \in Nat
BY SomeSlots DEF HInv, TypeOK, Slot

LEMMA InitHInv == Init => HInv
<1> SUFFICES ASSUME Init PROVE HInv
  OBVIOUS
<1> USE NullsDistinct, SomeSlots DEF Init, StackInit
<1>1. Linked = {} /\ stack \in Seq(Node) /\ DOMAIN stack = {}
  BY EmptySeq DEF Linked
<1>2. 1 \in 1 .. MaxHazard + 1
  OBVIOUS
<1>3. TypeOK
  BY <1>1, <1>2 DEF TypeOK, StackTypeOK, Nodes, PCs
<1>4. \A t \in Thread : InHand(t) = {}
  BY DEF InHand, Claimed
<1>5. NoUseAfterFree /\ NoLeak /\ OneKeeper
  BY <1>1, <1>4 DEF NoUseAfterFree, NoLeak, OneKeeper, InHand, Claimed
<1>6. ListIsStack /\ MineOK /\ Locals /\ Holding /\ Protected
  BY <1>1 DEF ListIsStack, MineOK, Locals, Holding, Protected, Reading
<1> QED BY <1>3, <1>5, <1>6 DEF HInv

\* A step that moves no node, takes none into a hand and lets none go.
LEMMA NothingMoves ==
  ASSUME HInv, NEW t \in Thread,
         UNCHANGED <<head, next, data, live, mine, stack, reclaim, rest>>,
         \A u \in Thread \ {t} : pc'[u] = pc[u] /\ old'[u] = old[u],
         Claimed(t)' = Claimed(t),
         pc'[t] = "push" <=> pc[t] = "push",
         pc'[t] \in {"clear", "swap"} /\ old'[t] # NoNode
            => pc[t] \in {"clear", "swap"} /\ old'[t] = old[t],
         Protected'
  PROVE  /\ NoUseAfterFree' /\ NoLeak' /\ ListIsStack' /\ MineOK' /\ OneKeeper'
         /\ Holding'
<1>1. ListIsStack' /\ Linked' = Linked
  BY ListKept DEF HInv, TypeOK, StackTypeOK
<1>2. \A u \in Thread : Claimed(u)' = Claimed(u)
  BY DEF Claimed
<1>3. \A u \in Thread : InHand(u)' = InHand(u)
  BY <1>2 DEF InHand
<1>4. NoUseAfterFree'
  BY <1>1, <1>2 DEF HInv, NoUseAfterFree, Protected, Shielded, Reading
<1>5. NoLeak'
  BY <1>1, <1>2 DEF HInv, NoLeak
<1>6. OneKeeper'
  BY <1>1, <1>2, <1>3 DEF HInv, OneKeeper
<1>7. MineOK'
  BY DEF HInv, MineOK
<1>8. Holding'
  BY <1>1 DEF HInv, Holding
<1> QED BY <1>1, <1>4, <1>5, <1>6, <1>7, <1>8

\* A thread that neither reads a node nor looks at slots, before its step or after,
\* and writes to no slot but its own, takes no protection away.
LEMMA ProtectionKept ==
  ASSUME HInv, NEW t \in Thread,
         UNCHANGED <<next, live, mine>>,
         \A u \in Thread \ {t} : /\ pc'[u] = pc[u] /\ old'[u] = old[u] /\ nxt'[u] = nxt[u]
                                 /\ slot'[u] = slot[u] /\ i'[u] = i[u],
         pc'[t] \notin {"read", "exchange", "scan", "rescan", "delete", "redelete"},
         \A s \in Slot : s # slot[t] => pointer'[s] = pointer[s]
  PROVE  Protected'
<1> USE DEF HInv
<1> SUFFICES ASSUME NEW u \in Thread, Reading(u)' PROVE Shielded(u)'
  BY DEF Protected
<1>1. u # t /\ Reading(u)
  BY DEF Reading
<1>2. slot'[u] = slot[u] /\ slot[u] # 0 /\ slot[u] \in Slot /\ slot[u] # slot[t]
  BY <1>1, SlotsDiffer DEF Reading, Locals
<1> QED BY <1>1, <1>2 DEF Protected, Shielded

\* pop() but for what it does to nodes, and the end of a thread.
LEMMA SmallStepsKeep ==
  ASSUME HInv, NEW t \in Thread,
         \/ CallPop(t) \/ Own(t) \/ OwnNext(t) \/ OwnNone(t) \/ Exit(t) \/ LoadHead(t)
         \/ Publish(t) \/ Clear(t) \/ (TakeFails(t, "publish") /\ UNCHANGED <<hazards, lists>>)
  PROVE  HInv'
<1> USE DEF HInv, Goto, CallPop, Own, OwnNext, OwnNone, Exit, LoadHead, Publish, Clear, TakeFails,
      nodes, popping, stackVars, hazards, lists, TypeOK
<1>1. UNCHANGED <<head, next, data, live, mine, stack, reclaim, rest>>
  OBVIOUS
<1>2. \A u \in Thread \ {t} : /\ pc'[u] = pc[u] /\ old'[u] = old[u] /\ nxt'[u] = nxt[u]
                              /\ slot'[u] = slot[u] /\ i'[u] = i[u]
  BY DEF StackTypeOK
<1>3. /\ pc'[t] \notin {"read", "exchange", "scan", "rescan", "delete", "redelete"}
      /\ pc'[t] # "push" /\ pc[t] # "push"
      /\ \A s \in Slot : s # slot[t] => pointer'[s] = pointer[s]
  BY DEF StackTypeOK
<1>4. Claimed(t)' = Claimed(t)
  BY DEF StackTypeOK, Claimed
<1>5. pc'[t] \in {"clear", "swap"} /\ old'[t] # NoNode
         => pc[t] \in {"clear", "swap"} /\ old'[t] = old[t]
  BY DEF StackTypeOK
<1>6. Protected'
  BY <1>1, <1>2, <1>3, ProtectionKept
<1>7. Locals'
  BY <1>1, <1>2, SomeSlots DEF StackTypeOK, Locals, Slot
<1>8. StackTypeOK'
  BY <1>1 DEF StackTypeOK, Nodes
<1>9. TypeOK'
  <2>0. pc' \in [Thread -> PCs]
    BY DEF PCs
  <2>1. i' \in [Thread -> 1 .. MaxHazard + 1]
    BY SomeSlots DEF Slot
  <2>2. /\ owner' \in [Slot -> Thread \cup {NoThread, Outsider}]
        /\ pointer' \in [Slot -> Nodes]
        /\ slot' \in [Thread -> Slot \cup {0}]
    BY ZenonT(40) DEF StackTypeOK, Nodes
  <2>3. \A u \in Thread : slot'[u] # 0 => owner'[slot'[u]] = u
    BY NobodyIsNoThread, SomeSlots DEF Slot
  <2>4. \A u \in Thread : pc'[u] = "swap" => data'[old'[u]] \in Value
    BY <1>1, <1>2, <1>5 DEF Holding, StackTypeOK
  <2> QED BY <1>1, <1>8, <2>0, <2>1, <2>2, <2>3, <2>4 DEF TypeOK
<1> QED BY <1>1, <1>2, <1>3, <1>4, <1>5, <1>6, <1>7, <1>9, NothingMoves

\* The node head was at when the slot had been stored is safe to read.
LEMMA RecheckKeeps == ASSUME HInv, NEW t \in Thread, Recheck(t) PROVE HInv'
<1> USE DEF HInv, Recheck, Goto, nodes, hazards, lists, TypeOK
<1>1. UNCHANGED <<head, next, data, live, mine, nxt, stack, hazards, lists>>
  OBVIOUS
<1>2. \A u \in Thread \ {t} : pc'[u] = pc[u] /\ old'[u] = old[u]
  BY DEF StackTypeOK
<1>3. /\ pc[t] = "recheck" /\ pc'[t] \in {"publish", "clear", "read"} /\ old'[t] = head
      /\ pc'[t] = "clear" => head = NoNode
      /\ pc'[t] = "read" => head # NoNode /\ head = pointer[slot[t]]
  BY DEF StackTypeOK
<1>4. Claimed(t)' = Claimed(t)
  BY <1>3 DEF Claimed
<1>5. Protected'
  <2> SUFFICES ASSUME NEW u \in Thread, Reading(u)' PROVE Shielded(u)'
    BY DEF Protected
  <2>1. CASE u # t
    BY <2>1, <1>1, <1>2, <1>3 DEF Protected, Shielded, Reading
  <2>2. CASE u = t
    <3>1. pc'[t] = "read" /\ head = pointer[slot[t]] /\ head \in Linked
      BY <2>2, <1>3, TopOfStack DEF Reading, StackTypeOK
    <3>2. head \in live /\ \A s \in Thread : head \notin InHand(s)
      BY <3>1 DEF NoUseAfterFree, OneKeeper
    <3>3. \A s \in Thread : /\ mine[s] # head
                            /\ pc[s] \in {"scan", "rescan", "delete", "redelete"} => old[s] # head
      BY <3>2, NullsDistinct DEF InHand, Claimed, StackTypeOK
    <3> QED BY <2>2, <3>1, <3>2, <3>3, <1>1, <1>2, <1>3 DEF Shielded
  <2> QED BY <2>1, <2>2
<1>6. Locals'
  BY <1>1, <1>2, <1>3 DEF Locals
<1>7. TypeOK'
  BY <1>1, <1>2, <1>3 DEF StackTypeOK, Nodes, PCs
<1> QED BY <1>1, <1>2, <1>3, <1>4, <1>5, <1>6, <1>7, NothingMoves

LEMMA ReadNextKeeps ==
  ASSUME HInv, NEW t \in Thread, ReadNext(t), UNCHANGED <<hazards, lists>> PROVE HInv'
<1> USE DEF HInv, ReadNext, Goto, nodes, hazards, lists, TypeOK
<1>1. /\ UNCHANGED <<head, next, data, live, mine, old, stack, hazards, lists>>
      /\ pc[t] = "read" /\ nxt' = [nxt EXCEPT ![t] = next[old[t]]]
      /\ pc' = [pc EXCEPT ![t] = "exchange"] /\ old[t] \in Node
  BY DEF StackTypeOK, Nodes
<1>2. /\ \A u \in Thread \ {t} : pc'[u] = pc[u] /\ nxt'[u] = nxt[u]
      /\ pc'[t] = "exchange" /\ nxt'[t] = next[old[t]]
  BY <1>1 DEF StackTypeOK
<1>3. Claimed(t)' = Claimed(t)
  BY <1>1, <1>2 DEF Claimed
<1>4. Protected'
  BY <1>1, <1>2 DEF Protected, Shielded, Reading
<1>5. Locals'
  BY <1>1, <1>2 DEF Locals
<1>6. TypeOK'
  BY <1>1, <1>2 DEF StackTypeOK, Nodes, PCs
<1> QED BY <1>1, <1>2, <1>3, <1>4, <1>5, <1>6, NothingMoves

\* The scan of a slot: it stops there, or the slot does not protect its node.
LEMMA ScanKeeps == ASSUME HInv, NEW t \in Thread, Found(t) \/ NotHere(t) PROVE HInv'
<1> USE DEF HInv, Found, NotHere, OwnNode, Goto, nodes, popping, lists, TypeOK
<1>1. /\ UNCHANGED <<head, next, data, live, mine, old, nxt, stack, owner, pointer, slot, lists>>
      /\ pc[t] \in {"scan", "rescan"} /\ i[t] \in Slot
      /\ pc'[t] \in {"keep", "rekeep", "delete", "redelete", "scan", "rescan"}
      /\ pc[t] = "scan" <=> pc'[t] \in {"scan", "keep", "delete"}
  BY DEF StackTypeOK
<1>2. \A u \in Thread \ {t} : pc'[u] = pc[u] /\ i'[u] = i[u]
  BY DEF StackTypeOK
<1>3. Claimed(t)' = Claimed(t)
  BY <1>1 DEF Claimed
<1>4. Protected'
  <2> SUFFICES ASSUME NEW u \in Thread, Reading(u)' PROVE Shielded(u)'
    BY DEF Protected
  <2>1. u # t /\ Reading(u) /\ Shielded(u)
    BY <1>1, <1>2 DEF Reading, Protected
  <2>2. slot[u] \in Slot /\ pc'[u] = pc[u]
    BY <2>1, <1>2, SlotsDiffer DEF Reading, Locals
  <2>3. CASE old[t] # old[u]
    BY <2>1, <2>2, <2>3, <1>1, <1>2 DEF Shielded
  <2>4. CASE old[t] = old[u]
    <3>1. i[t] <= slot[u] /\ pointer[slot[u]] = old[t]
      BY <2>1, <2>4, <1>1 DEF Shielded
    <3>2. CASE Found(t)
      BY <2>1, <2>2, <3>2, <1>1, <1>2 DEF Shielded
    <3>3. CASE NotHere(t)
      <4>1. i[t] # slot[u]
        BY <3>1, <3>3
      <4>2. i[t] < slot[u] /\ slot[u] <= MaxHazard /\ i[t] \in Nat /\ slot[u] \in Nat
        BY <3>1, <4>1, <2>2, <1>1, SomeSlots DEF Slot
      <4>3. i'[t] = i[t] + 1 /\ pc'[t] = pc[t]
        BY <4>2, <3>3, SomeSlots
      <4>4. i'[t] <= slot[u]
        BY <4>2, <4>3
      <4> QED BY <2>1, <2>2, <4>3, <4>4, <1>1, <1>2 DEF Shielded
    <3> QED BY <3>2, <3>3
  <2> QED BY <2>3, <2>4
<1>5. i' \in [Thread -> 1 .. MaxHazard + 1] /\ i'[t] \in Slot
      /\ (pc'[t] \notin {"scan", "rescan"} => i'[t] = 1)
  BY SomeSlots DEF Slot
<1>6. pc' \in [Thread -> PCs]
  BY DEF PCs
<1>7. Locals'
  BY <1>1, <1>2, <1>5 DEF Locals
<1>8. TypeOK'
  BY <1>1, <1>2, <1>5, <1>6 DEF StackTypeOK
<1> QED BY <1>1, <1>2, <1>3, <1>4, <1>7, <1>8, NothingMoves

LEMMA CallPushKeeps ==
  ASSUME HInv, NEW t \in Thread, NEW v \in Value, CallPush(t, v), UNCHANGED <<hazards, lists>>
  PROVE  HInv'
<1> USE DEF HInv, hazards, lists, popping
<1> PICK n \in Node \ live :
       /\ live' = live \cup {n}
       /\ data' = [data EXCEPT ![n] = v]
       /\ next' = [next EXCEPT ![n] = head]
       /\ mine' = [mine EXCEPT ![t] = n]
  BY DEF CallPush, Stored
<1>1. /\ pc[t] = "idle" /\ pc' = [pc EXCEPT ![t] = "push"]
      /\ UNCHANGED <<head, old, nxt, stack, hazards, lists>>
  BY DEF CallPush, Goto
<1>2. /\ \A k \in live : next'[k] = next[k] /\ data'[k] = data[k] /\ k # n
      /\ data'[n] = v
      /\ \A u \in Thread : u # t => pc'[u] = pc[u] /\ mine'[u] = mine[u]
      /\ mine[t] = NoNode /\ mine'[t] = n /\ pc'[t] = "push"
  BY <1>1 DEF TypeOK, StackTypeOK, MineOK
<1>3. Linked \subseteq live /\ stack \in Seq(Node)
  BY DEF NoUseAfterFree, TypeOK, StackTypeOK
<1>4. ListIsStack' /\ Linked' = Linked
  BY <1>1, <1>2, <1>3, ListKept
<1>5. \A u \in Thread : Claimed(u)' = Claimed(u)
  BY <1>1, <1>2 DEF Claimed
<1>6. /\ InHand(t) = {} /\ InHand(t)' = {n}
      /\ \A u \in Thread : u # t => InHand(u)' = InHand(u)
  <2>1. Claimed(t) = {} /\ rest[t] = {}
    BY <1>1 DEF Claimed, Locals
  <2> QED BY <2>1, <1>1, <1>2, <1>5, NullsDistinct DEF InHand
<1>7. \A u \in Thread : InHand(u) \subseteq live
  BY DEF InHand, NoUseAfterFree, MineOK
<1>8. TypeOK'
  <2>1. pc' \in [Thread -> PCs]
    BY <1>1 DEF TypeOK, PCs
  <2>2. StackTypeOK'
    BY <1>1 DEF TypeOK, StackTypeOK, Nodes
  <2>3. \A u \in Thread : pc'[u] = "swap" => data'[old[u]] \in Value
    BY <1>1, <1>2 DEF TypeOK, StackTypeOK
  <2> QED BY <2>1, <2>2, <2>3, <1>1 DEF TypeOK
<1>9. NoUseAfterFree'
  BY <1>1, <1>2, <1>3, <1>4, <1>5 DEF NoUseAfterFree
<1>10. NoLeak'
  <2>1. \A k \in live : \/ k \in Linked \cup reclaim
                        \/ \E u \in Thread : k \in Claimed(u) \cup rest[u]
                        \/ \E u \in Thread : k = mine'[u]
    BY <1>2, NullsDistinct, <1>7 DEF NoLeak, TypeOK, StackTypeOK
  <2> QED BY <2>1, <1>1, <1>2, <1>4, <1>5 DEF NoLeak
<1>11. MineOK'
  BY <1>1, <1>2, NullsDistinct DEF MineOK
<1>12. Locals'
  BY <1>1, <1>2 DEF Locals
<1>13. OneKeeper'
  BY <1>1, <1>3, <1>4, <1>5, <1>6, <1>7 DEF OneKeeper, NoUseAfterFree
<1>14. Holding'
  <2>1. \A u \in Thread : pc'[u] \in {"clear", "swap"} /\ old[u] # NoNode => old[u] \in live
    BY <1>1, <1>2 DEF NoUseAfterFree, Claimed
  <2> QED BY <2>1, <1>1, <1>2, <1>3, <1>4 DEF Holding
<1>15. Protected'
  BY <1>1, <1>2 DEF Protected, Shielded, Reading
<1> QED BY <1>4, <1>8, <1>9, <1>10, <1>11, <1>12, <1>13, <1>14, <1>15

LEMMA LinkNodeFailsKeeps ==
  ASSUME HInv, NEW t \in Thread, LinkNodeFails(t), UNCHANGED <<hazards, lists>> PROVE HInv'
<1> USE DEF HInv, hazards, lists, popping
<1>1. /\ UNCHANGED <<head, data, live, pc, old, nxt, mine, stack, hazards, lists>>
      /\ pc[t] = "push" /\ next' = [next EXCEPT ![mine[t]] = head]
  BY DEF LinkNodeFails
<1>2. /\ mine[t] \in Node /\ mine[t] \in InHand(t) /\ mine[t] \notin Linked
      /\ \A k \in Node : k # mine[t] => next'[k] = next[k]
  BY <1>1, NullsDistinct DEF MineOK, InHand, OneKeeper, TypeOK, StackTypeOK, Nodes
<1>3. ListIsStack' /\ Linked' = Linked
  BY <1>1, <1>2, ListKept, TopOfStack DEF TypeOK, StackTypeOK
<1>4. \A u \in Thread : Claimed(u)' = Claimed(u) /\ InHand(u)' = InHand(u)
  BY <1>1 DEF Claimed, InHand
<1>5. TypeOK'
  BY <1>1 DEF TypeOK, StackTypeOK
<1>6. NoUseAfterFree' /\ NoLeak' /\ MineOK' /\ Locals' /\ OneKeeper' /\ Holding'
  BY <1>1, <1>3, <1>4 DEF NoUseAfterFree, NoLeak, MineOK, Locals, OneKeeper, Holding
<1>7. Protected'
  BY <1>1, <1>2 DEF Protected, Shielded, Reading, TypeOK, StackTypeOK
<1> QED BY <1>3, <1>5, <1>6, <1>7

LEMMA LinkNodeKeeps ==
  ASSUME HInv, NEW t \in Thread, LinkNode(t), UNCHANGED <<hazards, lists>> PROVE HInv'
<1> USE DEF HInv, hazards, lists, popping, nodes
<1> DEFINE n == mine[t]
<1>1. /\ UNCHANGED <<next, data, live, old, nxt, hazards, lists>>
      /\ pc[t] = "push" /\ pc' = [pc EXCEPT ![t] = "idle"]
      /\ mine' = [mine EXCEPT ![t] = NoNode]
      /\ head = next[n] /\ head' = n /\ stack' = Append(stack, n)
  BY DEF LinkNode, NextIsHead, Goto
<1>2. /\ n \in Node /\ n \in live /\ data[n] \in Value /\ n \in InHand(t)
      /\ n \notin Linked /\ n \notin reclaim
      /\ \A u \in Thread : u # t => n \notin InHand(u)
  BY <1>1, NullsDistinct DEF MineOK, InHand, OneKeeper, TypeOK, StackTypeOK, Nodes
<1>3. ListIsStack' /\ Linked' = Linked \cup {n} /\ stack' \in Seq(Node)
  BY <1>1, <1>2, ListGrows DEF TypeOK, StackTypeOK
<1>4. /\ \A u \in Thread : u # t => pc'[u] = pc[u] /\ mine'[u] = mine[u]
      /\ pc'[t] = "idle" /\ mine'[t] = NoNode
  BY <1>1 DEF TypeOK, StackTypeOK
<1>5. \A u \in Thread : Claimed(u)' = Claimed(u)
  BY <1>1, <1>4 DEF Claimed
<1>6. InHand(t)' = {} /\ \A u \in Thread : u # t => InHand(u)' = InHand(u)
  <2>1. Claimed(t) = {} /\ rest[t] = {}
    BY <1>1 DEF Claimed, Locals
  <2> QED BY <2>1, <1>1, <1>4, <1>5 DEF InHand
<1>7. TypeOK'
  <2>1. pc' \in [Thread -> PCs]
    BY <1>1 DEF TypeOK, PCs
  <2>2. StackTypeOK'
    BY <1>1, <1>2, <1>3 DEF TypeOK, StackTypeOK, Nodes
  <2>3. \A u \in Thread : pc'[u] = "swap" => data'[old[u]] \in Value
    BY <1>1, <1>4 DEF TypeOK
  <2> QED BY <2>1, <2>2, <2>3, <1>1 DEF TypeOK
<1>8. NoUseAfterFree'
  BY <1>1, <1>2, <1>3, <1>4, <1>5 DEF NoUseAfterFree
<1>9. NoLeak'
  <2>1. \A k \in live : \/ k \in Linked \cup {n} \cup reclaim
                        \/ \E u \in Thread : k \in Claimed(u) \cup rest[u]
                        \/ \E u \in Thread : u # t /\ k = mine[u]
    BY DEF NoLeak
  <2> QED BY <2>1, <1>1, <1>3, <1>4, <1>5 DEF NoLeak
<1>10. MineOK' /\ Locals'
  BY <1>1, <1>4, NullsDistinct DEF MineOK, Locals
<1>11. OneKeeper'
  BY <1>1, <1>2, <1>3, <1>5, <1>6 DEF OneKeeper
<1>12. Holding'
  BY <1>1, <1>2, <1>3, <1>4 DEF Holding
<1>13. Protected'
  BY <1>1, <1>4, NullsDistinct DEF Protected, Shielded, Reading, NoUseAfterFree, TypeOK, StackTypeOK
<1> QED BY <1>3, <1>7, <1>8, <1>9, <1>10, <1>11, <1>12, <1>13

\* The exchange takes the node that was read off the stack: its next is still what
\* was read, though the node may have left the stack and come back meanwhile.
LEMMA TakeKeeps ==
  ASSUME HInv, NEW t \in Thread, Take(t, "clear"), UNCHANGED <<hazards, lists>> PROVE HInv'
<1> USE DEF HInv, hazards, lists, nodes
<1> DEFINE n == old[t]
<1>1. /\ UNCHANGED <<next, data, live, mine, old, hazards, lists>>
      /\ pc[t] = "exchange" /\ pc' = [pc EXCEPT ![t] = "clear"]
      /\ nxt' = [nxt EXCEPT ![t] = NoNode]
      /\ head = n /\ head' = nxt[t] /\ stack' = SubSeq(stack, 1, Len(stack) - 1)
  BY DEF Take, HeadUnchanged, Goto
<1>2. nxt[t] = next[n] /\ n \in live /\ n # NoNode
  BY <1>1, NullsDistinct DEF Protected, Shielded, Reading, TypeOK, StackTypeOK
<1>3. ListIsStack' /\ Linked' = Linked \ {n} /\ stack' \in Seq(Node) /\ n \in Linked
  BY <1>1, <1>2, ListShrinks DEF TypeOK, StackTypeOK
<1>4. /\ \A u \in Thread : u # t => pc'[u] = pc[u] /\ nxt'[u] = nxt[u]
      /\ pc'[t] = "clear"
  BY <1>1 DEF TypeOK, StackTypeOK
<1>5. /\ Claimed(t)' = {n} /\ Claimed(t) = {}
      /\ \A u \in Thread : u # t => Claimed(u)' = Claimed(u)
  BY <1>1, <1>2, <1>4 DEF Claimed
<1>6. /\ InHand(t)' = {n}
      /\ \A u \in Thread : u # t => InHand(u)' = InHand(u) /\ n \notin InHand(u)
      /\ rest[t] = {} /\ mine[t] = NoNode
  <2>1. rest[t] = {} /\ mine[t] = NoNode
    BY <1>1 DEF Locals, MineOK
  <2> QED BY <2>1, <1>1, <1>3, <1>5 DEF InHand, OneKeeper
<1>7. TypeOK'
  <2>1. pc' \in [Thread -> PCs]
    BY <1>1 DEF TypeOK, PCs
  <2>2. StackTypeOK'
    BY <1>1, <1>3 DEF TypeOK, StackTypeOK, Nodes
  <2>3. \A u \in Thread : pc'[u] = "swap" => data'[old[u]] \in Value
    BY <1>1, <1>4 DEF TypeOK
  <2> QED BY <2>1, <2>2, <2>3, <1>1 DEF TypeOK
<1>8. NoUseAfterFree'
  BY <1>1, <1>2, <1>3, <1>4, <1>5 DEF NoUseAfterFree
<1>9. NoLeak'
  <2>1. \A u \in Thread : Claimed(u) \subseteq Claimed(u)'
    BY <1>5
  <2>2. \A k \in live : \/ k \in Linked' \cup reclaim'
                        \/ \E u \in Thread : k \in Claimed(u)' \cup rest'[u] \cup {mine'[u]}
    BY <2>1, <1>1, <1>3, <1>5 DEF NoLeak
  <2> QED BY <2>2, <1>1 DEF NoLeak
<1>10. MineOK' /\ Locals'
  BY <1>1, <1>4 DEF MineOK, Locals
<1>11. OneKeeper'
  BY <1>1, <1>3, <1>5, <1>6 DEF OneKeeper
<1>12. Holding'
  BY <1>1, <1>3, <1>4 DEF Holding
<1>13. Protected'
  BY <1>1, <1>4 DEF Protected, Shielded, Reading
<1> QED BY <1>3, <1>7, <1>8, <1>9, <1>10, <1>11, <1>12, <1>13

LEMMA SwapKeeps == ASSUME HInv, NEW t \in Thread, Swap(t) PROVE HInv'
<1> USE DEF HInv, hazards, lists, popping
<1>1. /\ UNCHANGED <<head, next, live, mine, old, nxt, stack, hazards, lists>>
      /\ pc[t] = "swap" /\ pc' = [pc EXCEPT ![t] = "scan"]
      /\ data' = [data EXCEPT ![old[t]] = NoValue]
  BY DEF Swap, Goto
<1>2. /\ \A u \in Thread : u # t => pc'[u] = pc[u]
      /\ pc'[t] = "scan" /\ i[t] = 1 /\ old[t] # NoNode
      /\ \A k \in Node : k # old[t] => data'[k] = data[k]
  BY <1>1 DEF TypeOK, StackTypeOK, Locals
<1>3. \A u \in Thread : Claimed(u)' = Claimed(u) /\ InHand(u)' = InHand(u)
  BY <1>1, <1>2 DEF Claimed, InHand
<1>4. /\ old[t] \notin Linked /\ old[t] \in Node
      /\ \A u \in Thread : u # t => old[t] \notin InHand(u)
  BY <1>1, <1>2 DEF Claimed, InHand, OneKeeper, TypeOK, StackTypeOK, Nodes
<1>5. ListIsStack' /\ Linked' = Linked /\ Linked \subseteq Node
  BY <1>1, ListKept, TopOfStack DEF TypeOK, StackTypeOK
<1>6. \A u \in Thread : u # t /\ pc[u] \in {"clear", "swap"} /\ old[u] # NoNode
                           => old[u] \in Node /\ old[u] # old[t]
  BY <1>4 DEF InHand, Claimed, TypeOK, StackTypeOK, Nodes
<1>7. TypeOK'
  <2>1. pc' \in [Thread -> PCs]
    BY <1>1 DEF TypeOK, PCs
  <2>2. StackTypeOK'
    BY <1>1 DEF TypeOK, StackTypeOK
  <2>3. \A u \in Thread : pc'[u] = "swap" => data'[old[u]] \in Value
    BY <1>1, <1>2, <1>6 DEF TypeOK, Locals
  <2> QED BY <2>1, <2>2, <2>3, <1>1 DEF TypeOK
<1>8. NoUseAfterFree' /\ NoLeak' /\ OneKeeper'
  BY <1>1, <1>2, <1>3, <1>5 DEF NoUseAfterFree, NoLeak, OneKeeper
<1>9. MineOK'
  <2>1. \A u \in Thread : mine[u] # NoNode => mine[u] \in Node /\ mine[u] # old[t]
    <3>1. \A u \in Thread : mine[u] # NoNode => mine[u] \in InHand(u)
      BY DEF InHand
    <3>2. mine[t] = NoNode
      BY <1>1 DEF MineOK
    <3> QED BY <3>1, <3>2, <1>4 DEF TypeOK, StackTypeOK, Nodes
  <2> QED BY <2>1, <1>1, <1>2 DEF MineOK
<1>10. Locals'
  BY <1>1, <1>2, SomeSlots DEF Locals, Slot
<1>11. Holding'
  BY <1>1, <1>2, <1>4, <1>5, <1>6 DEF Holding
<1>12. Protected'
  <2> SUFFICES ASSUME NEW u \in Thread, Reading(u)' PROVE Shielded(u)'
    BY DEF Protected
  <2>1. u # t /\ Reading(u) /\ Shielded(u)
    BY <1>1, <1>2 DEF Reading, Protected
  <2>2. 1 <= slot[u]
    BY <2>1, SlotsDiffer, <1>1 DEF Reading, Locals, Slot
  <2> QED BY <2>1, <2>2, <1>1, <1>2 DEF Shielded
<1> QED BY <1>5, <1>7, <1>8, <1>9, <1>10, <1>11, <1>12

\* The pop goes on, with or without a node of the list: what it keeps.
LEMMA AdvanceHands ==
  ASSUME HInv, NEW t \in Thread, NEW left \in SUBSET Node, Advance(t, left),
         pc[t] \in {"keep", "delete", "rekeep", "redelete", "list"},
         pc[t] # "list" => left = rest[t]
  PROVE  /\ \A u \in Thread : u # t => pc'[u] = pc[u] /\ old'[u] = old[u] /\ rest'[u] = rest[u]
         /\ pc'[t] \in {"list", "idle", "rescan"} /\ pc' \in [Thread -> PCs]
         /\ rest' \in [Thread -> SUBSET Node] /\ old' \in [Thread -> Nodes]
         /\ pc'[t] = "rescan" <=> old'[t] # NoNode
         /\ rest'[t] # {} => pc'[t] = "rescan"
         /\ Claimed(t)' \cup rest'[t] = left /\ Claimed(t)' \cap rest'[t] = {}
<1> USE DEF HInv, TypeOK, StackTypeOK, Goto
<1>1. CASE OwnNode(t)
  <2>1. /\ old' = [old EXCEPT ![t] = NoNode] /\ pc' = [pc EXCEPT ![t] = "list"]
        /\ rest' = rest /\ pc[t] \in {"keep", "delete"}
    BY <1>1 DEF Advance, OwnNode
  <2>2. /\ \A u \in Thread : u # t => pc'[u] = pc[u] /\ old'[u] = old[u]
        /\ pc'[t] = "list" /\ old'[t] = NoNode
    BY <2>1
  <2>3. rest[t] = {} /\ left = {}
    BY <2>1 DEF Locals
  <2>4. Claimed(t)' = {}
    BY <2>2 DEF Claimed
  <2>5. pc' \in [Thread -> PCs] /\ old' \in [Thread -> Nodes]
    BY <2>1 DEF PCs, Nodes
  <2> QED BY <2>1, <2>2, <2>3, <2>4, <2>5
<1>2. CASE ~OwnNode(t) /\ left = {}
  <2>1. rest[t] = {}
    BY <1>2 DEF Locals
  <2>2. /\ old' = [old EXCEPT ![t] = NoNode] /\ pc' = [pc EXCEPT ![t] = "idle"]
        /\ rest' = rest
    BY <1>2 DEF Advance
  <2>3. /\ \A u \in Thread : u # t => pc'[u] = pc[u] /\ old'[u] = old[u]
        /\ pc'[t] = "idle" /\ old'[t] = NoNode
    BY <2>2
  <2>4. Claimed(t)' = {}
    BY <2>3 DEF Claimed
  <2> QED BY <2>1, <2>2, <2>3, <2>4, <1>2 DEF PCs, Nodes
<1>3. CASE ~OwnNode(t) /\ left # {}
  <2>1. PICK n \in left : /\ old' = [old EXCEPT ![t] = n]
                          /\ rest' = [rest EXCEPT ![t] = left \ {n}]
                          /\ pc' = [pc EXCEPT ![t] = "rescan"]
    BY <1>3 DEF Advance
  <2>2. n \in Node /\ n # NoNode
    BY NullsDistinct
  <2>3. /\ \A u \in Thread : u # t => pc'[u] = pc[u] /\ old'[u] = old[u] /\ rest'[u] = rest[u]
        /\ pc'[t] = "rescan" /\ old'[t] = n /\ rest'[t] = left \ {n}
    BY <2>1
  <2>4. Claimed(t)' = {n}
    BY <2>2, <2>3 DEF Claimed
  <2> QED BY <2>1, <2>2, <2>3, <2>4 DEF PCs, Nodes
<1> QED BY <1>1, <1>2, <1>3

\* A step of a pop that gets rid of nodes: of those it had and those in
\* nodes_to_reclaim, it deletes some that nobody reads, keeps left for itself, and
\* leaves the others in nodes_to_reclaim.
LEMMA ReclaimingKeeps ==
  ASSUME HInv, NEW t \in Thread, NEW left \in SUBSET Node, Advance(t, left),
         pc[t] \in {"keep", "delete", "rekeep", "redelete", "list"},
         pc[t] # "list" => left = rest[t],
         UNCHANGED <<head, mine, nxt, stack, hazards>>,
         StackTypeOK', reclaim' \subseteq Node,
         live' \subseteq live, live \ live' \subseteq Claimed(t),
         left \cap reclaim' = {},
         left \cup reclaim' = (Claimed(t) \cup rest[t] \cup reclaim) \cap live',
         \A n \in live' : next'[n] = next[n] /\ data'[n] = data[n],
         \A u \in Thread : Reading(u) => old[u] \in live'
  PROVE  HInv'
<1> USE DEF HInv, hazards
<1> DEFINE Old == Claimed(t) \cup rest[t] \cup reclaim
<1>1. /\ \A u \in Thread : u # t => pc'[u] = pc[u] /\ old'[u] = old[u] /\ rest'[u] = rest[u]
      /\ pc'[t] \in {"list", "idle", "rescan"} /\ pc' \in [Thread -> PCs]
      /\ rest' \in [Thread -> SUBSET Node] /\ old' \in [Thread -> Nodes]
      /\ pc'[t] = "rescan" <=> old'[t] # NoNode
      /\ rest'[t] # {} => pc'[t] = "rescan"
      /\ Claimed(t)' \cup rest'[t] = left /\ Claimed(t)' \cap rest'[t] = {}
  BY AdvanceHands
<1>2. \A u \in Thread : u # t => Claimed(u)' = Claimed(u) /\ InHand(u)' = InHand(u)
  BY <1>1 DEF Claimed, InHand
<1>3. mine[t] = NoNode /\ InHand(t) = Claimed(t) \cup rest[t] /\ InHand(t)' = left
  <2>1. mine[t] = NoNode
    BY DEF MineOK
  <2> QED BY <2>1, <1>1 DEF InHand
<1>4. /\ Old \cap Linked = {} /\ Old \subseteq live
      /\ \A u \in Thread : u # t => Old \cap InHand(u) = {}
      /\ \A u \in Thread : InHand(u) \subseteq live
  BY <1>3 DEF OneKeeper, NoUseAfterFree, InHand, MineOK
<1>5. /\ live \ live' \subseteq Old /\ left \cup reclaim' = Old \cap live' /\ Linked \subseteq live'
      /\ \A u \in Thread : u # t => InHand(u) \subseteq live'
  <2>1. live \ live' \subseteq Old /\ left \cup reclaim' = Old \cap live'
    OBVIOUS
  <2> QED BY <2>1, <1>4 DEF NoUseAfterFree
<1> HIDE DEF Old
<1>6. ListIsStack' /\ Linked' = Linked
  BY <1>5, ListKept DEF TypeOK, StackTypeOK
<1>7. Locals'
  BY <1>1, SomeSlots DEF Locals, Slot
<1>8. TypeOK'
  <2>1. \A u \in Thread : pc'[u] = "swap" => data'[old'[u]] \in Value
    <3> SUFFICES ASSUME NEW u \in Thread, pc'[u] = "swap" PROVE data'[old'[u]] \in Value
      OBVIOUS
    <3>1. u # t /\ pc[u] = "swap" /\ old'[u] = old[u]
      BY <1>1
    <3>2. old[u] \in InHand(u)
      BY <3>1 DEF InHand, Claimed, Locals
    <3> QED BY <3>1, <3>2, <1>5 DEF TypeOK
  <2> QED BY <2>1, <1>1 DEF TypeOK
<1>9. NoUseAfterFree'
  <2>1. \A u \in Thread : Claimed(u)' \cup rest'[u] \subseteq live'
    BY <1>1, <1>2, <1>5 DEF InHand
  <2>2. \A u \in Thread : pc'[u] = "read" => old'[u] \in live'
    BY <1>1 DEF Reading
  <2> QED BY <2>1, <2>2, <1>5, <1>6 DEF NoUseAfterFree
<1>10. NoLeak'
  <2>1. ASSUME NEW n \in live', n \notin Linked', n \notin reclaim'
        PROVE  \E u \in Thread : n \in Claimed(u)' \cup rest'[u] \cup {mine'[u]}
    <3>1. CASE n \in Old
      BY <2>1, <3>1, <1>1, <1>5
    <3>2. CASE n \notin Old
      <4>1. PICK u \in Thread : n \in Claimed(u) \cup rest[u] \cup {mine[u]}
        BY <2>1, <3>2, <1>6 DEF NoLeak, Old
      <4>2. n # NoNode
        BY NullsDistinct DEF TypeOK, StackTypeOK
      <4>3. u # t
        BY <4>1, <4>2, <3>2, <1>3 DEF Old
      <4> QED BY <4>1, <4>3, <1>1, <1>2
    <3> QED BY <3>1, <3>2
  <2> QED BY <2>1 DEF NoLeak
<1>11. MineOK'
  <2>1. \A u \in Thread : mine[u] # NoNode => u # t /\ mine[u] \in live'
    BY <1>3, <1>5 DEF InHand
  <2> QED BY <2>1, <1>1, <1>3 DEF MineOK
<1>12. OneKeeper'
  <2>1. Linked \cap reclaim' = {} /\ Linked \cap left = {}
    BY <1>4, <1>5
  <2>2. \A u \in Thread : u # t => InHand(u) \cap (Linked \cup reclaim') = {} /\ InHand(u) \cap left = {}
    BY <1>4, <1>5 DEF OneKeeper
  <2> QED BY <2>1, <2>2, <1>1, <1>2, <1>3, <1>6 DEF OneKeeper
<1>13. Holding'
  <2>1. \A u \in Thread : u # t /\ pc[u] \in {"clear", "swap"} /\ old[u] # NoNode => old[u] \in live'
    BY <1>5 DEF InHand, Claimed
  <2> QED BY <2>1, <1>1, <1>5, <1>6 DEF Holding
<1>14. Protected'
  <2> SUFFICES ASSUME NEW u \in Thread, Reading(u)' PROVE Shielded(u)'
    BY DEF Protected
  <2>1. u # t /\ Reading(u) /\ Shielded(u) /\ old'[u] = old[u] /\ pc'[u] = pc[u]
    BY <1>1 DEF Reading, Protected
  <2>2. 1 <= slot[u] /\ i[t] = 1
    BY <2>1, SlotsDiffer DEF Reading, Locals, Slot
  <2> QED BY <2>1, <2>2, <1>1 DEF Shielded
<1> QED BY <1>6, <1>7, <1>8, <1>9, <1>10, <1>11, <1>12, <1>13, <1>14

LEMMA KeepKeeps == ASSUME HInv, NEW t \in Thread, Keep(t) PROVE HInv'
<1> USE DEF HInv, nodes
<1>1. /\ pc[t] \in {"keep", "rekeep"} /\ reclaim' = reclaim \cup {old[t]} /\ Advance(t, rest[t])
      /\ UNCHANGED <<head, next, data, live, mine, nxt, stack, hazards>>
  BY DEF Keep
<1>2. Claimed(t) = {old[t]} /\ old[t] \in live /\ rest[t] \subseteq live /\ reclaim \subseteq live
      /\ rest[t] \in SUBSET Node /\ rest[t] \cap reclaim = {} /\ old[t] \notin rest[t]
      /\ live \subseteq Node
  BY <1>1 DEF Claimed, Locals, NoUseAfterFree, OneKeeper, InHand, TypeOK, StackTypeOK
<1>3. StackTypeOK' /\ reclaim' \subseteq Node
  BY <1>1, <1>2, AdvanceHands DEF TypeOK, StackTypeOK
<1>4. \A u \in Thread : Reading(u) => old[u] \in live
  BY DEF Protected, Shielded
<1> QED BY <1>1, <1>2, <1>3, <1>4, ReclaimingKeeps

\* delete: no slot names the node, so nobody is reading it.
LEMMA DeleteKeeps == ASSUME HInv, NEW t \in Thread, DeleteNode(t) PROVE HInv'
<1> USE DEF HInv
<1>1. /\ pc[t] \in {"delete", "redelete"} /\ Delete({old[t]}) /\ Advance(t, rest[t])
      /\ UNCHANGED <<head, mine, nxt, stack, hazards, reclaim>>
  BY DEF DeleteNode
<1>2. Claimed(t) = {old[t]} /\ old[t] \in live /\ rest[t] \subseteq live /\ reclaim \subseteq live
      /\ rest[t] \in SUBSET Node /\ rest[t] \cap reclaim = {} /\ old[t] \notin rest[t]
      /\ old[t] \notin reclaim /\ live \subseteq Node
  BY <1>1 DEF Claimed, Locals, NoUseAfterFree, OneKeeper, InHand, TypeOK, StackTypeOK
<1>3. /\ live' = live \ {old[t]}
      /\ \A n \in live' : next'[n] = next[n] /\ data'[n] = data[n]
  BY <1>1, <1>2 DEF Delete
<1>4. StackTypeOK'
  BY <1>1, <1>2, AdvanceHands DEF TypeOK, StackTypeOK, Delete, Nodes
<1>5. \A u \in Thread : Reading(u) => old[u] \in live'
  BY <1>1, <1>3 DEF Protected, Shielded
<1> QED BY <1>1, <1>2, <1>3, <1>4, <1>5, ReclaimingKeeps DEF TypeOK

LEMMA TakeListKeeps == ASSUME HInv, NEW t \in Thread, TakeList(t) PROVE HInv'
<1> USE DEF HInv, nodes
<1>1. /\ pc[t] = "list" /\ reclaim' = {} /\ Advance(t, reclaim)
      /\ UNCHANGED <<head, next, data, live, mine, nxt, stack, hazards>>
  BY DEF TakeList
<1>2. Claimed(t) = {} /\ rest[t] = {} /\ reclaim \subseteq live /\ reclaim \in SUBSET Node
  BY <1>1 DEF Claimed, Locals, NoUseAfterFree, TypeOK
<1>3. StackTypeOK'
  BY <1>1, <1>2, AdvanceHands DEF TypeOK, StackTypeOK
<1>4. \A u \in Thread : Reading(u) => old[u] \in live
  BY DEF Protected, Shielded
<1> QED BY <1>1, <1>2, <1>3, <1>4, ReclaimingKeeps

LEMMA NextKeepsHInv == HInv /\ [Next]_vars => HInv'
<1> SUFFICES ASSUME HInv, [Next]_vars PROVE HInv'
  OBVIOUS
<1>1. CASE UNCHANGED vars
  <2>1. UNCHANGED <<head, next, data, live, pc, mine, old, nxt, stack, owner, pointer, slot, i,
                    reclaim, rest>>
    BY <1>1 DEF vars, stackVars, nodes, popping, hazards, lists
  <2>2. Linked' = Linked /\ \A t \in Thread : Claimed(t)' = Claimed(t) /\ InHand(t)' = InHand(t)
    BY <2>1 DEF Linked, Claimed, InHand
  <2>3. TypeOK' /\ NoUseAfterFree' /\ NoLeak'
    BY <2>1, <2>2 DEF HInv, TypeOK, StackTypeOK, NoUseAfterFree, NoLeak
  <2>4. ListIsStack' /\ MineOK' /\ Locals' /\ OneKeeper' /\ Holding'
    BY <2>1, <2>2 DEF HInv, ListIsStack, MineOK, Locals, OneKeeper, Holding
  <2>5. Protected'
    BY <2>1 DEF HInv, Protected, Shielded, Reading
  <2> QED BY <2>3, <2>4, <2>5 DEF HInv
<1>2. ASSUME NEW t \in Thread, Push(t), UNCHANGED <<hazards, lists>> PROVE HInv'
  BY <1>2, CallPushKeeps, LinkNodeKeeps, LinkNodeFailsKeeps DEF Push
<1>3. ASSUME NEW t \in Thread, Pop(t) PROVE HInv'
  BY <1>3, SmallStepsKeep, RecheckKeeps, ReadNextKeeps, ScanKeeps, TakeKeeps, SwapKeeps,
     KeepKeeps, DeleteKeeps, TakeListKeeps DEF Pop, Exchange
<1>4. ASSUME NEW t \in Thread, CallPop(t) \/ Exit(t) PROVE HInv'
  BY <1>4, SmallStepsKeep
<1> QED BY <1>1, <1>2, <1>3, <1>4 DEF Next

-----------------------------------------------------------------------------
(* Hazard pointers: the stack is an atomic one. *)

\* The steps that change what callers can tell: a push, a pop, a pop that finds nothing,
\* a return.  The rest are none of their business.
LEMMA HazardsPush ==
  ASSUME HInv, NEW t \in Thread, LinkNode(t)
  PROVE  /\ \E v \in Value : Items' = Append(Items, v)
         /\ \A u \in Thread : Result(u)' = Result(u)
<1> USE DEF HInv, popping, nodes
<1>1. /\ UNCHANGED <<data, old>> /\ stack' = Append(stack, mine[t])
      /\ pc[t] = "push" /\ pc' = [pc EXCEPT ![t] = "idle"]
  BY DEF LinkNode, Goto
<1>2. mine[t] \in Node /\ data[mine[t]] \in Value
  BY <1>1 DEF MineOK, TypeOK, StackTypeOK, Nodes
<1>3. Items' = Append(Items, data[mine[t]])
  BY <1>1, <1>2, ItemsGrow DEF Holding, TypeOK, StackTypeOK
<1>4. \A u \in Thread : Result(u)' = Result(u)
  BY <1>1 DEF Result, TypeOK
<1> QED BY <1>2, <1>3, <1>4

LEMMA HazardsTake ==
  ASSUME HInv, NEW t \in Thread, Take(t, "clear")
  PROVE  /\ Items # <<>> /\ Items' = SubSeq(Items, 1, Len(Items) - 1)
         /\ Result(t) = "undecided" /\ Result(t)' = Items[Len(Items)]
         /\ \A u \in Thread \ {t} : Result(u)' = Result(u)
<1> USE DEF HInv, nodes
<1>1. /\ UNCHANGED <<data, old>> /\ head = old[t]
      /\ pc[t] = "exchange" /\ pc' = [pc EXCEPT ![t] = "clear"]
      /\ stack' = SubSeq(stack, 1, Len(stack) - 1)
  BY DEF Take, HeadUnchanged, Goto
<1>2. old[t] # NoNode
  BY <1>1, NullsDistinct DEF Protected, Shielded, Reading, TypeOK, StackTypeOK
<1>3. /\ Items # <<>> /\ Items[Len(Items)] = data[head]
      /\ Items' = SubSeq(Items, 1, Len(Items) - 1)
  BY <1>1, <1>2, ItemsShrink DEF Holding, TypeOK, StackTypeOK
<1> QED BY <1>1, <1>2, <1>3 DEF Result, TypeOK

LEMMA HazardsRecheck ==
  ASSUME HInv, NEW t \in Thread, Recheck(t)
  PROVE  /\ Items' = Items /\ \A u \in Thread \ {t} : Result(u)' = Result(u)
         /\ Result(t) = "undecided"
         /\ Result(t)' = "undecided" \/ (Result(t)' = "empty" /\ Items = <<>>)
<1> USE DEF HInv, nodes
<1>1. /\ UNCHANGED <<data, stack>> /\ old' = [old EXCEPT ![t] = head]
      /\ pc[t] = "recheck" /\ pc'[t] \in {"publish", "clear", "read"}
      /\ pc'[t] = "clear" => head = NoNode
      /\ \A u \in Thread \ {t} : pc'[u] = pc[u]
  BY DEF Recheck, Goto, TypeOK
<1>2. Items' = Items
  BY <1>1, ItemsKept
<1>3. head = NoNode => Items = <<>>
  BY TopOfStack, EmptySeq DEF TypeOK, StackTypeOK, Items
<1> QED BY <1>1, <1>2, <1>3 DEF Result, TypeOK, StackTypeOK

LEMMA HazardsReturn ==
  ASSUME HInv, NEW t \in Thread, Swap(t) \/ Clear(t)
  PROVE  /\ Items' = Items /\ \A u \in Thread \ {t} : Result(u)' = Result(u)
         /\ Result(t)' = Result(t) \/ Result(t)' = "undecided"
<1> USE DEF HInv, nodes, popping
<1>1. CASE Clear(t)
  <2>1. /\ UNCHANGED <<data, stack, old>> /\ pc[t] = "clear"
        /\ pc'[t] = IF old[t] = NoNode THEN "list" ELSE "swap"
        /\ \A u \in Thread \ {t} : pc'[u] = pc[u]
    BY <1>1 DEF Clear, Goto, TypeOK
  <2> QED BY <2>1, ItemsKept DEF Result
<1>2. CASE Swap(t)
  <2>1. /\ UNCHANGED <<stack, old>> /\ pc[t] = "swap" /\ pc'[t] = "scan"
        /\ \A u \in Thread \ {t} : pc'[u] = pc[u]
        /\ \A n \in Node : n # old[t] => data'[n] = data[n]
    BY <1>2 DEF Swap, Goto, TypeOK, StackTypeOK
  <2>2. old[t] \in InHand(t)
    BY <2>1 DEF InHand, Claimed, Locals
  <2>3. \A u \in Thread \ {t} : pc[u] \in {"clear", "swap"} /\ old[u] # NoNode
                                  => old[u] \in Node /\ old[u] # old[t]
    BY <2>2 DEF InHand, Claimed, OneKeeper, TypeOK, StackTypeOK, Nodes
  <2>4. \A n \in Linked : n \in Node /\ n # old[t]
    BY <2>2, TopOfStack DEF OneKeeper, TypeOK, StackTypeOK
  <2>5. \A u \in Thread \ {t} : pc[u] = "swap" => old[u] # NoNode
    BY DEF Locals
  <2> QED BY <2>1, <2>3, <2>4, <2>5, ItemsKept DEF Result
<1> QED BY <1>1, <1>2

LEMMA HazardsInternal ==
  ASSUME HInv, NEW t \in Thread,
         \/ \E v \in Value : CallPush(t, v)
         \/ LinkNodeFails(t) \/ CallPop(t) \/ Exit(t) \/ Own(t) \/ OwnNext(t) \/ OwnNone(t)
         \/ LoadHead(t) \/ Publish(t) \/ ReadNext(t) \/ TakeFails(t, "publish") 
         \/ Found(t) \/ NotHere(t) \/ Keep(t) \/ DeleteNode(t) \/ TakeList(t)
  PROVE  Items' = Items /\ \A u \in Thread : Result(u)' = Result(u)
<1> USE DEF HInv, nodes, popping
<1>1. /\ stack' = stack
      /\ pc[t] \notin {"clear", "swap"} /\ pc'[t] \notin {"clear", "swap"}
      /\ \A u \in Thread \ {t} : pc'[u] = pc[u] /\ old'[u] = old[u]
  <2>1. CASE \E v \in Value : CallPush(t, v)
    BY <2>1 DEF CallPush, Goto, TypeOK
  <2>2. CASE LinkNodeFails(t) \/ CallPop(t) \/ Exit(t) \/ Own(t) \/ OwnNext(t) \/ OwnNone(t)
    BY <2>2 DEF LinkNodeFails, CallPop, Exit, Own, OwnNext, OwnNone, Goto, stackVars, TypeOK
  <2>3. CASE LoadHead(t) \/ Publish(t) \/ ReadNext(t) \/ TakeFails(t, "publish")
    BY <2>3 DEF LoadHead, Publish, ReadNext, TakeFails, Goto, TypeOK, StackTypeOK
  <2>4. CASE Found(t) \/ NotHere(t)
    BY <2>4 DEF Found, NotHere, OwnNode, Goto, TypeOK
  <2>5. CASE Keep(t) \/ DeleteNode(t)
    <3>1. /\ stack' = stack /\ pc[t] \in {"keep", "rekeep", "delete", "redelete"}
          /\ Advance(t, rest[t]) /\ rest[t] \in SUBSET Node
      BY <2>5 DEF Keep, DeleteNode, TypeOK
    <3> QED BY <3>1, AdvanceHands
  <2>6. CASE TakeList(t)
    <3>1. /\ stack' = stack /\ pc[t] = "list"
          /\ Advance(t, reclaim) /\ reclaim \in SUBSET Node
      BY <2>6 DEF TakeList, TypeOK
    <3> QED BY <3>1, AdvanceHands
  <2> QED BY <2>1, <2>2, <2>3, <2>4, <2>5, <2>6
<1>2. \A n \in live \ (IF DeleteNode(t) THEN {old[t]} ELSE {}) : data'[n] = data[n]
  <2>1. CASE \E v \in Value : CallPush(t, v)
    BY <2>1 DEF CallPush, TypeOK, StackTypeOK
  <2>2. CASE DeleteNode(t)
    BY <2>2 DEF DeleteNode, Delete, TypeOK, StackTypeOK
  <2>3. CASE ~DeleteNode(t) /\ ~\E v \in Value : CallPush(t, v)
    BY <2>3 DEF LinkNodeFails, CallPop, Exit, Own, OwnNext, OwnNone, LoadHead, Publish, ReadNext,
       TakeFails, Found, NotHere, Keep, TakeList, stackVars
  <2> QED BY <2>1, <2>2, <2>3
<1>3. DeleteNode(t) => old[t] \in InHand(t)
  BY DEF DeleteNode, InHand, Claimed, Locals
<1>4. \A n \in Linked : data'[n] = data[n]
  BY <1>2, <1>3 DEF OneKeeper, NoUseAfterFree
<1>5. \A u \in Thread \ {t} : pc[u] \in {"clear", "swap"} /\ old[u] # NoNode
                                => data'[old[u]] = data[old[u]]
  <2> TAKE u \in Thread \ {t}
  <2> HAVE pc[u] \in {"clear", "swap"} /\ old[u] # NoNode
  <2>1. old[u] \in live /\ old[u] \in InHand(u)
    BY DEF NoUseAfterFree, Claimed, InHand
  <2> QED BY <2>1, <1>2, <1>3 DEF OneKeeper
<1>6. \A u \in Thread \ {t} : pc[u] = "swap" => old[u] # NoNode
  BY DEF Locals
<1>7. \A u \in Thread : Result(u)' = Result(u)
  BY <1>1, <1>5, <1>6 DEF Result
<1> QED BY <1>1, <1>4, <1>7, ItemsKept

-----------------------------------------------------------------------------
(* Counting the threads in pop: the strengthening. *)

\* What a thread knows at its program counter, in its own words: a node of its own
\* to chain, or a list it has taken over.
CountingLocal(t) ==
    /\ pc[t] \in {"exchange", "swap"} => old[t] # NoNode
    /\ pc[t] \in {"delete_nodes", "walk"} => first[t] # NoNode
    /\ pc[t] = "walk" => last[t] \in Counting!Path(next, first[t], NoNode)
    /\ pc[t] \in {"link", "splice"} =>
          IF first[t] = old[t] THEN last[t] = old[t]
          ELSE /\ last[t] \in Counting!Taken(t)
               /\ pc[t] = "link" => next[last[t]] = NoNode
    /\ pc[t] = "splice" => first[t] # NoNode

CountingLocals == \A t \in Thread : CountingLocal(t)

\* The nodes only thread t may change or delete.
CountingHand(t) == Counting!Claimed(t) \cup Counting!Taken(t) \cup ({mine[t]} \ {NoNode})

\* A node has one keeper: the stack, the list from to_be_deleted, or one thread.
CountingKeeper ==
    /\ Linked \cap Counting!Pending = {}
    /\ \A t \in Thread : /\ CountingHand(t) \cap (Linked \cup Counting!Pending) = {}
                         /\ Counting!Claimed(t) \cap Counting!Taken(t) = {}
    /\ \A t, u \in Thread : t # u => CountingHand(t) \cap CountingHand(u) = {}

\* C is a list from n, up to stop: n is nobody's next, and no two have the same.
Listed(C, n, stop) == \A k \in C \ {stop} :
    /\ next[k] # n
    /\ next[k] # NoNode => \A l \in C \ {stop} : next[l] = next[k] => l = k

Lists == /\ Listed(Counting!Pending, to_be_deleted, NoNode)
         /\ \A t \in Thread : Listed(Counting!Taken(t), first[t], Counting!Stop(t))

CountingHolding == /\ \A n \in Linked : data[n] \in Value
                   /\ \A t \in Thread : pc[t] = "swap" => data[old[t]] \in Value

\* What thread t will delete: a node nobody could be reading when t was found alone
\* in pop, nor can find since.
Doomed(t) ==
    (IF \/ pc[t] \in {"claim", "leave", "delete_nodes", "walk", "delete"}
        \/ pc[t] \in {"link", "splice"} /\ first[t] # old[t]
     THEN Counting!Claimed(t) ELSE {})
    \cup (IF pc[t] = "delete_nodes" THEN Counting!Taken(t) ELSE {})

\* A node a pop may read is allocated, is not being built, and is not doomed; what
\* was read of it is its next still if it has not left the stack.
NotDoomed(u) ==
    /\ old[u] \in live
    /\ pc[u] = "exchange" /\ old[u] \in Linked => nxt[u] = next[old[u]]
    /\ \A t \in Thread : mine[t] # old[u] /\ old[u] \notin Doomed(t)

Spared == \A u \in Thread : Reading(u) /\ old[u] # NoNode => NotDoomed(u)

CInv == /\ Counting!TypeOK /\ Counting!NoUseAfterFree /\ Counting!NoLeak
        /\ ListIsStack /\ MineOK /\ CountingLocals /\ CountingKeeper /\ Lists
        /\ CountingHolding /\ Spared

-----------------------------------------------------------------------------
(* Facts about Path *)

LEMMA PathHas ==
  ASSUME NEW f \in [Node -> Nodes], NEW n \in Nodes, NEW stop
  PROVE  /\ Counting!Path(f, n, stop) \subseteq Node
         /\ n # NoNode => n \in Counting!Path(f, n, stop)
         /\ \A k \in Counting!Path(f, n, stop) \ {stop} :
               f[k] # NoNode => f[k] \in Counting!Path(f, n, stop)
<1>1. ASSUME n # NoNode PROVE n \in Counting!Path(f, n, stop)
  BY <1>1 DEF Counting!Path, Nodes
<1>2. ASSUME NEW k \in Counting!Path(f, n, stop), k # stop, f[k] # NoNode
      PROVE  f[k] \in Counting!Path(f, n, stop)
  <2>1. f[k] \in Node /\ k \in Node
    BY <1>2 DEF Counting!Path, Nodes
  <2> SUFFICES ASSUME NEW S \in SUBSET Node, {n} \ {NoNode} \subseteq S,
                      \A e \in S \ {stop} : {f[e]} \ {NoNode} \subseteq S
               PROVE  f[k] \in S
    BY <2>1 DEF Counting!Path
  <2>2. k \in S
    BY DEF Counting!Path
  <2> QED BY <2>2, <1>2
<1> QED BY <1>1, <1>2 DEF Counting!Path

LEMMA PathLeast ==
  ASSUME NEW f, NEW n, NEW stop, NEW S \in SUBSET Node, n # NoNode => n \in S,
         \A k \in S : k # stop /\ f[k] # NoNode => f[k] \in S
  PROVE  Counting!Path(f, n, stop) \subseteq S
BY DEF Counting!Path

LEMMA PathOfNone == ASSUME NEW f, NEW stop PROVE Counting!Path(f, NoNode, stop) = {}
BY DEF Counting!Path

LEMMA PathStep ==
  ASSUME NEW f \in [Node -> Nodes], NEW n \in Node, NEW stop, n # stop
  PROVE  Counting!Path(f, n, stop) = {n} \cup Counting!Path(f, f[n], stop)
<1>1. n \in Nodes /\ n # NoNode /\ f[n] \in Nodes
  BY NullsDistinct DEF Nodes
<1> DEFINE S == {n} \cup Counting!Path(f, f[n], stop)
<1>2. Counting!Path(f, n, stop) \subseteq S
  <2>1. S \in SUBSET Node
    BY <1>1, PathHas
  <2>2. \A k \in S : k # stop /\ f[k] # NoNode => f[k] \in S
    BY <1>1, PathHas
  <2>3. n \in S
    OBVIOUS
  <2> HIDE DEF S
  <2> QED BY <2>1, <2>2, <2>3, PathLeast
<1>3. n \in Counting!Path(f, n, stop)
  BY <1>1, PathHas
<1>4. Counting!Path(f, f[n], stop) \subseteq Counting!Path(f, n, stop)
  <2>1. /\ Counting!Path(f, n, stop) \in SUBSET Node
        /\ \A k \in Counting!Path(f, n, stop) : 
               k # stop /\ f[k] # NoNode => f[k] \in Counting!Path(f, n, stop)
    BY <1>1, PathHas
  <2> QED BY <2>1, <1>3, PathLeast
<1> QED BY <1>2, <1>3, <1>4

LEMMA PathToItself ==
  ASSUME NEW f \in [Node -> Nodes], NEW n \in Node PROVE Counting!Path(f, n, n) = {n}
<1>1. Counting!Path(f, n, n) \subseteq {n}
  BY DEF Counting!Path
<1> QED BY <1>1, PathHas, NullsDistinct DEF Nodes

\* A path stays the same when its nodes do.
LEMMA PathKept ==
  ASSUME NEW f \in [Node -> Nodes], NEW g \in [Node -> Nodes], NEW n \in Nodes, NEW stop,
         \A k \in Counting!Path(f, n, stop) : k # stop => g[k] = f[k]
  PROVE  Counting!Path(g, n, stop) = Counting!Path(f, n, stop)
<1> DEFINE P == Counting!Path(f, n, stop)
           Q == Counting!Path(g, n, stop)
<1>1. P \in SUBSET Node /\ Q \in SUBSET Node /\ (n # NoNode => n \in P /\ n \in Q)
  BY PathHas
<1>2. Q \subseteq P
  <2>1. \A k \in P : k # stop /\ g[k] # NoNode => g[k] \in P
    BY PathHas
  <2> QED BY <2>1, <1>1, PathLeast
<1>3. P \subseteq Q
  <2>1. \A k \in P \cap Q : k # stop /\ f[k] # NoNode => f[k] \in P \cap Q
    BY PathHas
  <2>2. P \cap Q \in SUBSET Node /\ (n # NoNode => n \in P \cap Q)
    BY <1>1
  <2> DEFINE S == P \cap Q
  <2>3. S \in SUBSET Node /\ (n # NoNode => n \in S) /\ \A k \in S : k # stop /\ f[k] # NoNode => f[k] \in S
    BY <2>1, <2>2
  <2> HIDE DEF S
  <2>4. P \subseteq S
    BY <2>3, PathLeast
  <2> QED BY <2>4 DEF S
<1> QED BY <1>2, <1>3

\* A path that goes through e is one to e and one from its successor on.
LEMMA PathThrough ==
  ASSUME NEW f \in [Node -> Nodes], NEW n \in Nodes, NEW e,
         e \in Counting!Path(f, n, e)
  PROVE  Counting!Path(f, n, NoNode) = Counting!Path(f, n, e) \cup Counting!Path(f, f[e], NoNode)
<1> DEFINE P == Counting!Path(f, n, NoNode)
           Q == Counting!Path(f, n, e)
           R == Counting!Path(f, f[e], NoNode)
<1>1. /\ P \in SUBSET Node /\ Q \in SUBSET Node /\ R \in SUBSET Node 
      /\ e \in Node /\ f[e] \in Nodes
      /\ n # NoNode => n \in P /\ n \in Q
  BY PathHas
<1>2. \A k \in P : f[k] # NoNode => f[k] \in P
  BY <1>1, PathHas, NullsDistinct
<1> HIDE DEF P
<1>3. Q \subseteq P
  BY <1>1, <1>2, PathLeast
<1>4. R \subseteq P
  <2>1. f[e] # NoNode => f[e] \in P
    BY <1>2, <1>3
  <2> QED BY <2>1, <1>1, <1>2, PathLeast
<1> USE DEF P
<1>5. P \subseteq Q \cup R
  <2>1. \A k \in Q \cup R : f[k] # NoNode => f[k] \in Q \cup R
    <3>1. \A k \in Q : k # e /\ f[k] # NoNode => f[k] \in Q
      BY PathHas
    <3>2. \A k \in R : f[k] # NoNode => f[k] \in R
      BY <1>1, PathHas, NullsDistinct
    <3>3. f[e] # NoNode => f[e] \in R
      BY <1>1, PathHas
    <3> QED BY <3>1, <3>2, <3>3
  <2> DEFINE S == Q \cup R
  <2>2. S \in SUBSET Node /\ (n # NoNode => n \in S) /\ \A k \in S : f[k] # NoNode => f[k] \in S
    BY <2>1, <1>1
  <2> HIDE DEF S
  <2>3. P \subseteq S
    BY <2>2, PathLeast
  <2> QED BY <2>3 DEF S
<1> QED BY <1>3, <1>4, <1>5

\* A path ends where there is no successor.
LEMMA PathEnds ==
  ASSUME NEW f \in [Node -> Nodes], NEW n \in Nodes,
         NEW e \in Counting!Path(f, n, NoNode), f[e] = NoNode
  PROVE  Counting!Path(f, n, e) = Counting!Path(f, n, NoNode)
<1> DEFINE P == Counting!Path(f, n, NoNode)
           Q == Counting!Path(f, n, e)
<1>1. P \in SUBSET Node /\ Q \in SUBSET Node /\ (n # NoNode => n \in P /\ n \in Q)
  BY PathHas
<1>2. Q \subseteq P
  <2>1. \A k \in P : k # e /\ f[k] # NoNode => f[k] \in P
    BY <1>1, PathHas, NullsDistinct
  <2> QED BY <2>1, <1>1, PathLeast
<1>3. P \subseteq Q
  <2>1. \A k \in Q : k # NoNode /\ f[k] # NoNode => f[k] \in Q
    BY <1>1, PathHas, NullsDistinct
  <2> QED BY <2>1, <1>1, PathLeast
<1> QED BY <1>2, <1>3

-----------------------------------------------------------------------------
(* Facts about the count *)

LEMMA CountedFinite == IsFiniteSet(Counting!Counted) /\ Cardinality(Counting!Counted) \in Nat
<1>1. Counting!Counted \in SUBSET Thread
  BY DEF Counting!Counted
<1>2. IsFiniteSet(Counting!Counted)
  BY <1>1, ThreadsFinite, FS_Subset
<1> QED BY <1>2, FS_CardinalityType

\* A thread that enters pop, and one that leaves it.
LEMMA CountJoins ==
  ASSUME NEW t \in Thread, t \notin Counting!Counted, Counting!Counted' = Counting!Counted \cup {t}
  PROVE  Cardinality(Counting!Counted') = Cardinality(Counting!Counted) + 1
BY CountedFinite, FS_AddElement

LEMMA CountLeaves ==
  ASSUME NEW t \in Thread, t \in Counting!Counted, Counting!Counted' = Counting!Counted \ {t}
  PROVE  Cardinality(Counting!Counted') = Cardinality(Counting!Counted) - 1
BY CountedFinite, FS_RemoveElement

\* Who counts one is alone.
LEMMA AloneInPop ==
  ASSUME Cardinality(Counting!Counted) = 1, NEW t \in Counting!Counted
  PROVE  Counting!Counted = {t}
<1>1. IsFiniteSet(Counting!Counted \ {t}) /\ Cardinality(Counting!Counted \ {t}) = 1 - 1
  BY CountedFinite, FS_RemoveElement
<1> QED BY <1>1, FS_EmptySet

-----------------------------------------------------------------------------
(* Counting: the invariant holds at the start, and every step keeps it. *)

\* What the components' own names stand for.
LEMMA SameStack == Counting!StackTypeOK <=> StackTypeOK
BY DEF Counting!StackTypeOK, StackTypeOK, Counting!Nodes, Nodes

LEMMA SameCardinality == ASSUME NEW S PROVE Counting!Cardinality(S) = Cardinality(S)
BY DEF Counting!Cardinality, Cardinality

LEMMA SameLinked == Counting!Linked = Linked
BY DEF Counting!Linked, Linked

LEMMA InitCInv == Counting!Init => CInv
<1> SUFFICES ASSUME Counting!Init PROVE CInv
  OBVIOUS
<1> USE NullsDistinct DEF Counting!Init, StackInit, Counting!StackInit
<1>1. Linked = {} /\ stack \in Seq(Node) /\ DOMAIN stack = {}
  BY EmptySeq DEF Linked
<1>2. \A t \in Thread : Counting!Claimed(t) = {} /\ Counting!Taken(t) = {}
  BY DEF Counting!Claimed, Counting!Taken
<1>3. Counting!Pending = {} /\ Counting!Counted = {}
  BY PathOfNone DEF Counting!Pending, Counting!Counted
<1>4. Counting!TypeOK
  <2>1. threads_in_pop = Cardinality(Counting!Counted)
    BY <1>3, FS_EmptySet
  <2>2. StackTypeOK
    BY <1>1 DEF StackTypeOK, Nodes
  <2> QED BY <2>1, <2>2, SameStack, SameCardinality DEF Counting!TypeOK, Counting!Nodes, Counting!PCs
<1>5. Counting!NoUseAfterFree /\ Counting!NoLeak /\ CountingKeeper
  BY <1>1, <1>2, <1>3 DEF Counting!NoUseAfterFree, Counting!NoLeak, CountingKeeper, CountingHand,
     Counting!Linked
<1>6. ListIsStack /\ MineOK /\ CountingLocals /\ Lists /\ CountingHolding /\ Spared
  BY <1>1, <1>2, <1>3
     DEF ListIsStack, MineOK, CountingLocals, CountingLocal, Lists, Listed, CountingHolding, Spared, Reading
<1> QED BY <1>4, <1>5, <1>6 DEF CInv

\* The invariants of a thread's nodes, in the form the proofs use.
LEMMA ChainFacts ==
  ASSUME CInv
  PROVE  /\ next \in [Node -> Nodes] /\ to_be_deleted \in Nodes /\ live \subseteq Node
         /\ stack \in Seq(Node) /\ Linked \subseteq live /\ Counting!Pending \subseteq live
         /\ \A t \in Thread : /\ first[t] \in Nodes /\ old[t] \in Nodes /\ last[t] \in Nodes
                              /\ CountingHand(t) \subseteq live
                              /\ pc[t] \in {"delete_nodes", "walk"} => first[t] \in Counting!Taken(t)
                              /\ pc[t] \in {"link", "splice"} =>
                                    /\ last[t] # NoNode => last[t] \in CountingHand(t)
                                    /\ first[t] # NoNode => first[t] \in CountingHand(t)
<1> USE SameStack, SameLinked DEF CInv
<1>1. /\ next \in [Node -> Nodes] /\ to_be_deleted \in Nodes /\ live \subseteq Node
      /\ stack \in Seq(Node) /\ Linked \subseteq live /\ Counting!Pending \subseteq live
      /\ \A t \in Thread : first[t] \in Nodes /\ old[t] \in Nodes /\ last[t] \in Nodes
  BY DEF Counting!TypeOK, StackTypeOK, Counting!NoUseAfterFree, Counting!Nodes, Nodes
<1>2. \A t \in Thread : CountingHand(t) \subseteq live
  BY DEF CountingHand, Counting!NoUseAfterFree, MineOK
<1>3. \A t \in Thread : pc[t] \in {"delete_nodes", "walk"} => first[t] \in Counting!Taken(t)
  BY <1>1, PathHas DEF CountingLocals, CountingLocal, Counting!Taken
<1>4. ASSUME NEW t \in Thread, pc[t] \in {"link", "splice"}
      PROVE  /\ last[t] # NoNode => last[t] \in CountingHand(t)
             /\ first[t] # NoNode => first[t] \in CountingHand(t)
  <2>1. CASE first[t] = old[t]
    BY <1>4, <2>1 DEF CountingLocals, CountingLocal, CountingHand, Counting!Claimed
  <2>2. CASE first[t] # old[t]
    BY <1>1, <1>4, <2>2, PathHas DEF CountingLocals, CountingLocal, CountingHand, Counting!Taken
  <2> QED BY <2>1, <2>2
<1> QED BY <1>1, <1>2, <1>3, <1>4

\* Whoever walks or chains a list is at one of its nodes.
LEMMA LastIsKept ==
  ASSUME CountingLocals', NEW t \in Thread, pc'[t] \in {"walk", "splice"}
  PROVE  last'[t] \in Counting!Claimed(t)' \cup Counting!Taken(t)'
<1>1. CASE pc'[t] = "walk"
  BY <1>1 DEF CountingLocals, CountingLocal, Counting!Taken, Counting!Stop
<1>2. CASE pc'[t] = "splice"
  BY <1>2 DEF CountingLocals, CountingLocal, Counting!Claimed
<1> QED BY <1>1, <1>2

\* A step that moves no node, takes none into a hand and lets none go.
LEMMA CountingNothingMoves ==
  ASSUME CInv, NEW t \in Thread,
         UNCHANGED <<head, next, data, live, mine, stack, to_be_deleted>>,
         \A u \in Thread \ {t} : /\ pc'[u] = pc[u] /\ old'[u] = old[u] /\ first'[u] = first[u]
                                 /\ last'[u] = last[u],
         Counting!Claimed(t)' = Counting!Claimed(t), Counting!Taken(t)' = Counting!Taken(t),
         Counting!Taken(t) # {} => /\ first'[t] = first[t]
                                   /\ Counting!Stop(t)' = Counting!Stop(t),
         pc'[t] = "push" <=> pc[t] = "push",
         pc'[t] # "swap",
         Counting!TypeOK', CountingLocals', Spared'
  PROVE  CInv'
<1> USE SameStack, SameLinked DEF CInv
<1>1. ListIsStack' /\ Linked' = Linked /\ Counting!Linked' = Counting!Linked
  BY ListKept, ChainFacts DEF Counting!Linked
<1>2. \A u \in Thread : /\ Counting!Claimed(u)' = Counting!Claimed(u)
                        /\ Counting!Taken(u)' = Counting!Taken(u)
  BY DEF Counting!Claimed, Counting!Taken, Counting!Stop
<1>3. Counting!Pending' = Counting!Pending
  BY DEF Counting!Pending
<1>4. \A u \in Thread : CountingHand(u)' = CountingHand(u)
  BY <1>2 DEF CountingHand
<1>5. Counting!NoUseAfterFree'
  <2>1. \A u \in Thread : pc'[u] \in {"walk", "splice"} => last'[u] \in live'
    <3> SUFFICES ASSUME NEW u \in Thread, pc'[u] \in {"walk", "splice"} PROVE last'[u] \in live
      OBVIOUS
    <3>1. last'[u] \in Counting!Claimed(u)' \cup Counting!Taken(u)'
      BY LastIsKept
    <3> QED BY <3>1, <1>2, ChainFacts DEF CountingHand
  <2>2. \A u \in Thread : pc'[u] = "read" => old'[u] \in live' \cup {NoNode}
    BY DEF Spared, NotDoomed, Reading
  <2> QED BY <1>1, <1>2, <1>3, <2>1, <2>2 DEF Counting!NoUseAfterFree
<1>6. Counting!NoLeak'
  BY <1>1, <1>2, <1>3 DEF Counting!NoLeak
<1>7. MineOK'
  BY DEF MineOK
<1>8. CountingKeeper'
  BY <1>1, <1>2, <1>3, <1>4 DEF CountingKeeper
<1>9. Lists'
  <2>1. Listed(Counting!Pending, to_be_deleted, NoNode)'
    BY <1>3 DEF Lists, Listed
  <2>2. ASSUME NEW u \in Thread PROVE Listed(Counting!Taken(u), first[u], Counting!Stop(u))'
    <3>1. CASE Counting!Taken(u) = {}
      BY <3>1, <1>2 DEF Listed
    <3>2. CASE Counting!Taken(u) # {}
      <4>1. first'[u] = first[u] /\ Counting!Stop(u)' = Counting!Stop(u)
        BY <3>2 DEF Counting!Stop
      <4> QED BY <4>1, <1>2 DEF Lists, Listed
    <3> QED BY <3>1, <3>2
  <2> QED BY <2>1, <2>2 DEF Lists
<1>10. CountingHolding'
  BY <1>1 DEF CountingHolding
<1> QED BY <1>1, <1>5, <1>6, <1>7, <1>8, <1>9, <1>10

\* A step of t that moves no node spares what the others read, unless t now dooms it.
LEMMA SparedKept ==
  ASSUME CInv, NEW t \in Thread,
         UNCHANGED <<next, live, mine, stack>>,
         \A u \in Thread \ {t} : /\ pc'[u] = pc[u] /\ old'[u] = old[u] /\ nxt'[u] = nxt[u]
                                 /\ first'[u] = first[u] /\ last'[u] = last[u],
         \A u \in Thread \ {t} : Reading(u) /\ old[u] # NoNode => old[u] \notin Doomed(t)',
         Reading(t)' /\ old'[t] # NoNode => NotDoomed(t)'
  PROVE  Spared'
<1>1. \A u \in Thread \ {t} : Doomed(u)' = Doomed(u)
  BY DEF Doomed, Counting!Claimed, Counting!Taken, Counting!Stop
<1>2. Linked' = Linked
  BY DEF Linked
<1>3. ASSUME NEW u \in Thread \ {t}, Reading(u)', old'[u] # NoNode PROVE NotDoomed(u)'
  BY <1>1, <1>2, <1>3 DEF CInv, Spared, NotDoomed, Reading
<1> QED BY <1>3 DEF Spared

\* The loop of pop, up to its exchange.
LEMMA CountingReadsKeep ==
  ASSUME CInv, Counting!Running, NEW t \in Thread,
         \/ Counting!LoadHead(t) \/ Counting!FindEmpty(t)
         \/ ((Counting!ReadNext(t) \/ Counting!TakeFails(t, "read")) /\ UNCHANGED Counting!reclaiming)
  PROVE  CInv'
<1> USE SameStack, SameLinked, SameCardinality DEF CInv, Counting!TypeOK, StackTypeOK, Counting!Goto
<1> USE DEF Counting!LoadHead, Counting!FindEmpty, Counting!ReadNext, Counting!TakeFails,
      Counting!reclaiming, Counting!nodes, Counting!popping
<1>1. /\ UNCHANGED <<head, next, data, live, mine, stack, to_be_deleted, threads_in_pop, first, last>>
      /\ \A u \in Thread \ {t} : pc'[u] = pc[u] /\ old'[u] = old[u] /\ nxt'[u] = nxt[u]
      /\ pc[t] \in {"load", "read", "exchange"} /\ pc'[t] \in {"read", "exchange", "check"}
      /\ pc'[t] = "check" => old'[t] = NoNode
      /\ pc'[t] = "exchange" => /\ pc[t] = "read" /\ old[t] # NoNode /\ old' = old
                                /\ nxt'[t] = next[old[t]]
      /\ pc'[t] = "read" => old'[t] = head
  OBVIOUS
<1>2. /\ Counting!Claimed(t)' = Counting!Claimed(t) /\ Counting!Taken(t)' = Counting!Taken(t)
      /\ Counting!Taken(t) = {} /\ Doomed(t)' = {}
  BY <1>1 DEF Counting!Claimed, Counting!Taken, Doomed
<1>3. Counting!Counted' = Counting!Counted
  BY <1>1 DEF Counting!Counted
<1>4. Counting!TypeOK'
  <2>1. StackTypeOK' /\ Counting!StackTypeOK'
    <3>1. StackTypeOK'
      BY <1>1 DEF Nodes
    <3> QED BY <3>1 DEF Counting!StackTypeOK, Counting!Nodes, Nodes
  <2>2. pc' \in [Thread -> Counting!PCs]
    BY DEF Counting!PCs
  <2>3. Counting!Running' /\ \A u \in Thread : pc'[u] = "swap" => data'[old'[u]] \in Value
    BY <1>1 DEF Counting!Running
  <2> QED BY <2>1, <2>2, <2>3, <1>1, <1>3
<1>5. CountingLocals'
  <2>1. \A u \in Thread \ {t} : Counting!Taken(u)' = Counting!Taken(u)
    BY <1>1 DEF Counting!Taken, Counting!Stop
  <2> QED BY <2>1, <1>1 DEF CountingLocals, CountingLocal
<1>6. NotDoomed(t)' \/ ~Reading(t)' \/ old'[t] = NoNode
  <2>1. \A u \in Thread \ {t} : Doomed(u)' = Doomed(u) /\ Doomed(u) \subseteq CountingHand(u)
    BY <1>1 DEF Doomed, Counting!Claimed, Counting!Taken, Counting!Stop, CountingHand
  <2>2. CASE pc'[t] = "read" /\ old'[t] # NoNode
    <3>1. head \in Linked /\ head # NoNode
      BY <2>2, <1>1, TopOfStack
    <3>2. head \in live /\ \A u \in Thread : head \notin CountingHand(u)
      BY <3>1, ChainFacts DEF CountingKeeper
    <3>3. \A u \in Thread : mine[u] # head /\ head \notin Doomed(u)'
      BY <3>1, <3>2, <2>1, <1>2 DEF CountingHand
    <3> QED BY <2>2, <3>2, <3>3, <1>1 DEF NotDoomed
  <2>3. CASE pc'[t] = "exchange"
    <3>1. NotDoomed(t)
      BY <2>3, <1>1 DEF Spared, Reading
    <3> QED BY <2>3, <3>1, <2>1, <1>1, <1>2 DEF NotDoomed, Linked
  <2> QED BY <2>2, <2>3, <1>1 DEF Reading
<1>7. Spared'
  BY <1>1, <1>2, <1>6, SparedKept
<1> QED BY <1>1, <1>2, <1>4, <1>5, <1>7, CountingNothingMoves

\* Entering and leaving pop, and the decisions of try_reclaim.
LEMMA CountingCallKeeps ==
  ASSUME CInv, Counting!Running, NEW t \in Thread, Counting!CallPop(t) \/ Counting!Depart(t)
  PROVE  CInv'
<1> USE SameStack, SameLinked, SameCardinality DEF CInv, Counting!TypeOK, StackTypeOK, Counting!Goto
<1> USE DEF Counting!CallPop, Counting!Depart, Counting!nodes, Counting!popping
<1>1. /\ UNCHANGED <<head, next, data, live, mine, nxt, stack, to_be_deleted>>
      /\ \A u \in Thread \ {t} : /\ pc'[u] = pc[u] /\ old'[u] = old[u] /\ first'[u] = first[u]
                                 /\ last'[u] = last[u]
      /\ pc[t] \in {"idle", "depart"} /\ pc'[t] \in {"load", "idle"}
  OBVIOUS
<1>2. /\ Counting!Claimed(t)' = Counting!Claimed(t) /\ Counting!Taken(t)' = Counting!Taken(t)
      /\ Counting!Taken(t) = {} /\ Doomed(t)' = {}
  BY <1>1 DEF Counting!Claimed, Counting!Taken, Doomed
<1>3. threads_in_pop' = Cardinality(Counting!Counted')
  <2>1. CASE Counting!CallPop(t)
    <3>1. t \notin Counting!Counted /\ Counting!Counted' = Counting!Counted \cup {t}
      BY <2>1, <1>1 DEF Counting!Counted
    <3> QED BY <2>1, <3>1, CountJoins
  <2>2. CASE Counting!Depart(t)
    <3>1. t \in Counting!Counted /\ Counting!Counted' = Counting!Counted \ {t}
      BY <2>2, <1>1 DEF Counting!Counted
    <3> QED BY <2>2, <3>1, CountLeaves
  <2> QED BY <2>1, <2>2
<1>4. Counting!TypeOK'
  <2>1. Counting!StackTypeOK'
    BY <1>1 DEF Counting!StackTypeOK, Counting!Nodes, Nodes
  <2>2. pc' \in [Thread -> Counting!PCs]
    BY DEF Counting!PCs
  <2>3. /\ \A u \in Thread : pc'[u] = "swap" => data'[old'[u]] \in Value
        /\ first' \in [Thread -> Counting!Nodes] /\ last' \in [Thread -> Counting!Nodes]
    BY <1>1 DEF Counting!Nodes
  <2> QED BY <2>1, <2>2, <2>3, <1>1, <1>3
<1>5. CountingLocals'
  <2>1. \A u \in Thread \ {t} : Counting!Taken(u)' = Counting!Taken(u)
    BY <1>1 DEF Counting!Taken, Counting!Stop
  <2> QED BY <2>1, <1>1 DEF CountingLocals, CountingLocal
<1>6. Spared'
  BY <1>1, <1>2, SparedKept DEF Reading
<1> QED BY <1>1, <1>2, <1>4, <1>5, <1>6, CountingNothingMoves

\* "if (threads_in_pop == 1)": no other thread is reading what this one has popped.
LEMMA CheckKeeps ==
  ASSUME CInv, Counting!Running, NEW t \in Thread, Counting!Check(t)
  PROVE  CInv'
<1> USE SameStack, SameLinked, SameCardinality DEF CInv, Counting!TypeOK, StackTypeOK, Counting!Goto
<1> USE DEF Counting!Check, Counting!nodes, Counting!popping
<1>1. /\ UNCHANGED <<head, next, data, live, mine, old, nxt, stack, to_be_deleted, threads_in_pop>>
      /\ \A u \in Thread \ {t} : /\ pc'[u] = pc[u] /\ first'[u] = first[u] /\ last'[u] = last[u]
      /\ pc[t] = "check" /\ pc'[t] \in {"claim", "link"}
      /\ pc'[t] = "claim" => threads_in_pop = 1
      /\ pc'[t] = "link" => first'[t] = old[t] /\ last'[t] = old[t]
  OBVIOUS
<1>2. /\ Counting!Claimed(t)' = Counting!Claimed(t) /\ Counting!Taken(t)' = Counting!Taken(t)
      /\ Counting!Taken(t) = {}
  BY <1>1 DEF Counting!Claimed, Counting!Taken
<1>3. Counting!Counted' = Counting!Counted /\ t \in Counting!Counted
  BY <1>1 DEF Counting!Counted
<1>4. Counting!TypeOK'
  <2>1. Counting!StackTypeOK'
    BY <1>1 DEF Counting!StackTypeOK, Counting!Nodes, Nodes
  <2>2. pc' \in [Thread -> Counting!PCs]
    BY DEF Counting!PCs
  <2>3. /\ \A u \in Thread : pc'[u] = "swap" => data'[old'[u]] \in Value
        /\ first' \in [Thread -> Counting!Nodes] /\ last' \in [Thread -> Counting!Nodes]
    BY <1>1 DEF Counting!Nodes, Nodes
  <2> QED BY <2>1, <2>2, <2>3, <1>1, <1>3
<1>5. CountingLocals'
  <2>1. \A u \in Thread \ {t} : Counting!Taken(u)' = Counting!Taken(u)
    BY <1>1 DEF Counting!Taken, Counting!Stop
  <2> QED BY <2>1, <1>1 DEF CountingLocals, CountingLocal
<1>6. Spared'
  <2>1. pc'[t] = "link" => Doomed(t)' = {}
    BY <1>1 DEF Doomed
  <2>2. \A u \in Thread : Reading(u) => u \in Counting!Counted
    BY DEF Reading, Counting!Counted
  <2>3. pc'[t] = "claim" => \A u \in Thread \ {t} : ~Reading(u)
    BY <2>2, <1>1, <1>3, AloneInPop
  <2>4. ~Reading(t)'
    BY <1>1 DEF Reading
  <2> QED BY <2>1, <2>3, <2>4, <1>1, SparedKept
<1> QED BY <1>1, <1>2, <1>4, <1>5, <1>6, CountingNothingMoves

\* "if (!--threads_in_pop)": the list that was claimed is nobody else's to read.
LEMMA LeaveKeeps ==
  ASSUME CInv, Counting!Running, NEW t \in Thread, Counting!Leave(t)
  PROVE  CInv'
<1> USE SameStack, SameLinked, SameCardinality DEF CInv, Counting!TypeOK, StackTypeOK, Counting!Goto
<1> USE DEF Counting!Leave, Counting!StillAlone, Counting!nodes, Counting!popping
<1>1. /\ UNCHANGED <<head, next, data, live, mine, old, nxt, stack, to_be_deleted, first>>
      /\ \A u \in Thread \ {t} : pc'[u] = pc[u] /\ last'[u] = last[u]
      /\ pc[t] = "leave" /\ pc'[t] \in {"delete", "delete_nodes", "walk"}
      /\ pc'[t] = "delete" <=> first[t] = NoNode
      /\ pc'[t] = "delete_nodes" => threads_in_pop = 1
      /\ last'[t] = first[t] /\ threads_in_pop' = threads_in_pop - 1
  OBVIOUS
<1>2. /\ Counting!Claimed(t)' = Counting!Claimed(t) /\ Counting!Taken(t)' = Counting!Taken(t)
      /\ Counting!Stop(t)' = Counting!Stop(t)
  <2>1. Counting!Path(next, NoNode, NoNode) = {}
    BY PathOfNone
  <2>2. Counting!Claimed(t)' = Counting!Claimed(t)
    BY <1>1 DEF Counting!Claimed
  <2>3. Counting!Taken(t) = Counting!Path(next, first[t], NoNode)
    BY <1>1 DEF Counting!Taken, Counting!Stop
  <2>4. Counting!Taken(t)' = Counting!Path(next, first[t], NoNode)
    BY <1>1, <2>1 DEF Counting!Taken, Counting!Stop
  <2> QED BY <2>2, <2>3, <2>4, <1>1 DEF Counting!Stop
<1>3. threads_in_pop' = Cardinality(Counting!Counted') /\ t \in Counting!Counted
  <2>1. t \in Counting!Counted /\ Counting!Counted' = Counting!Counted \ {t}
    BY <1>1 DEF Counting!Counted
  <2> QED BY <2>1, <1>1, CountLeaves
<1>4. Counting!TypeOK'
  <2>1. Counting!StackTypeOK'
    BY <1>1 DEF Counting!StackTypeOK, Counting!Nodes, Nodes
  <2>2. pc' \in [Thread -> Counting!PCs]
    BY DEF Counting!PCs
  <2>3. /\ \A u \in Thread : pc'[u] = "swap" => data'[old'[u]] \in Value
        /\ last' \in [Thread -> Counting!Nodes]
    BY <1>1 DEF Counting!Nodes
  <2> QED BY <2>1, <2>2, <2>3, <1>1, <1>3
<1>5. CountingLocals'
  <2>1. \A u \in Thread \ {t} : Counting!Taken(u)' = Counting!Taken(u)
    BY <1>1 DEF Counting!Taken, Counting!Stop
  <2>2. first[t] # NoNode => first[t] \in Counting!Path(next, first[t], NoNode)
    BY ChainFacts, PathHas
  <2> QED BY <2>1, <2>2, <1>1 DEF CountingLocals, CountingLocal
<1>6. Spared'
  <2>1. pc'[t] # "delete_nodes" => Doomed(t)' = Doomed(t)
    BY <1>1, <1>2 DEF Doomed
  <2>2. \A u \in Thread : Reading(u) => u \in Counting!Counted
    BY DEF Reading, Counting!Counted
  <2>3. pc'[t] = "delete_nodes" => \A u \in Thread \ {t} : ~Reading(u)
    BY <2>2, <1>1, <1>3, AloneInPop
  <2>4. ~Reading(t)'
    BY <1>1 DEF Reading
  <2>5. \A u \in Thread \ {t} : Reading(u) /\ old[u] # NoNode => old[u] \notin Doomed(t)
    BY DEF Spared, NotDoomed
  <2> QED BY <2>1, <2>3, <2>4, <2>5, <1>1, SparedKept
<1> QED BY <1>1, <1>2, <1>4, <1>5, <1>6, CountingNothingMoves

\* The walk to the end of a list, and the null pointer a pop of the empty stack chains.
LEMMA WalkKeeps ==
  ASSUME CInv, Counting!Running, NEW t \in Thread, Counting!Walk(t) \/ Counting!LinkNull(t)
  PROVE  CInv'
<1> USE SameStack, SameLinked, SameCardinality DEF CInv, Counting!TypeOK, StackTypeOK, Counting!Goto
<1> USE DEF Counting!Walk, Counting!LinkNull, Counting!nodes, Counting!popping, Counting!reclaiming
<1>1. /\ UNCHANGED <<head, next, data, live, mine, old, nxt, stack, to_be_deleted,
                     threads_in_pop, first>>
      /\ \A u \in Thread \ {t} : pc'[u] = pc[u] /\ last'[u] = last[u]
      /\ pc[t] \in {"walk", "link"} /\ pc'[t] \in {"walk", "link", "crashed"}
      /\ pc'[t] = "crashed" <=> pc[t] = "link"
      /\ pc[t] = "link" => last[t] = NoNode
      /\ pc'[t] = "link" => last' = last /\ next[last[t]] = NoNode
      /\ pc'[t] = "walk" => last'[t] = next[last[t]] /\ next[last[t]] # NoNode
  OBVIOUS
<1>2. CASE pc[t] = "link"
  <2>1. first[t] = old[t] /\ old[t] = NoNode
    BY <1>1, <1>2, NullsDistinct, ChainFacts, PathHas DEF CountingLocals, CountingLocal, Counting!Taken
  <2>2. /\ Counting!Claimed(t)' = Counting!Claimed(t) /\ Counting!Taken(t)' = Counting!Taken(t)
        /\ Counting!Taken(t) = {} /\ Doomed(t)' = {} /\ ~Reading(t)'
    BY <1>1, <1>2, <2>1 DEF Counting!Claimed, Counting!Taken, Doomed, Reading
  <2>3. Counting!TypeOK'
    <3>1. Counting!StackTypeOK'
      BY <1>1 DEF Counting!StackTypeOK, Counting!Nodes, Nodes
    <3>2. pc' \in [Thread -> Counting!PCs]
      BY DEF Counting!PCs
    <3>3. ~Counting!Running' /\ last' \in [Thread -> Counting!Nodes]
          /\ \A u \in Thread : pc'[u] = "swap" => data'[old'[u]] \in Value
      BY <1>1, <1>2 DEF Counting!Running
    <3> QED BY <3>1, <3>2, <3>3, <1>1
  <2>4. CountingLocals'
    <3>1. \A u \in Thread \ {t} : Counting!Taken(u)' = Counting!Taken(u)
      BY <1>1 DEF Counting!Taken, Counting!Stop
    <3> QED BY <3>1, <1>1, <1>2 DEF CountingLocals, CountingLocal
  <2>5. Spared'
    BY <2>2, <1>1, SparedKept
  <2> QED BY <2>2, <2>3, <2>4, <2>5, <1>1, <1>2, CountingNothingMoves
<1>3. CASE pc[t] = "walk"
  <2>1. /\ Counting!Taken(t) = Counting!Path(next, first[t], NoNode)
        /\ first[t] \in Counting!Taken(t) /\ last[t] \in Counting!Taken(t)
    BY <1>3, ChainFacts DEF Counting!Taken, Counting!Stop, CountingLocals, CountingLocal
  <2>2. first[t] # old[t]
    <3>1. old[t] # NoNode => old[t] \in Counting!Claimed(t)
      BY <1>3 DEF Counting!Claimed
    <3>2. NoNode \notin Counting!Taken(t)
      BY <2>1, ChainFacts, PathHas, NullsDistinct
    <3> QED BY <3>1, <3>2, <2>1 DEF CountingKeeper
  <2>3. /\ Counting!Claimed(t)' = Counting!Claimed(t) /\ Counting!Taken(t)' = Counting!Taken(t)
        /\ Counting!Stop(t)' = Counting!Stop(t) /\ Doomed(t)' = Doomed(t) /\ ~Reading(t)'
    BY <1>1, <1>3, <2>2 DEF Counting!Claimed, Counting!Taken, Counting!Stop, Doomed, Reading
  <2>4. last'[t] \in Counting!Taken(t)
    <3>1. next[last[t]] # NoNode => next[last[t]] \in Counting!Taken(t)
      BY <2>1, ChainFacts, PathHas, NullsDistinct
    <3> QED BY <3>1, <2>1, <1>1, <1>3
  <2>5. Counting!Counted' = Counting!Counted /\ Counting!Running'
    BY <1>1, <1>3, <2>2 DEF Counting!Counted, Counting!Running
  <2>6. Counting!TypeOK'
    <3>1. Counting!StackTypeOK'
      BY <1>1 DEF Counting!StackTypeOK, Counting!Nodes, Nodes
    <3>2. pc' \in [Thread -> Counting!PCs]
      BY DEF Counting!PCs
    <3>3. last' \in [Thread -> Counting!Nodes]
      BY <2>1, ChainFacts, PathHas DEF Counting!Nodes, Nodes
    <3>4. \A u \in Thread : pc'[u] = "swap" => data'[old'[u]] \in Value
      BY <1>1
    <3> QED BY <3>1, <3>2, <3>3, <3>4, <2>5, <1>1
  <2>7. CountingLocals'
    <3>1. \A u \in Thread \ {t} : Counting!Taken(u)' = Counting!Taken(u)
      BY <1>1 DEF Counting!Taken, Counting!Stop
    <3>2. first[t] # NoNode
      BY <1>3 DEF CountingLocals, CountingLocal
    <3> QED BY <3>1, <3>2, <2>1, <2>2, <2>3, <2>4, <1>1, <1>3 DEF CountingLocals, CountingLocal
  <2>8. Spared'
    BY <2>3, <1>1, SparedKept DEF Spared, NotDoomed
  <2> QED BY <2>3, <2>6, <2>7, <2>8, <1>1, <1>3, CountingNothingMoves
<1> QED BY <1>1, <1>2, <1>3

-----------------------------------------------------------------------------
(* Counting: the steps that move nodes between the stack, the list from        *)
(* to_be_deleted and the thread's own hands.                                    *)

\* What is in reach of a step of t.
InReach(t) == Linked \cup Counting!Pending \cup CountingHand(t)

\* The other threads keep what they have when the step changes none of their nodes.
LEMMA OthersKeep ==
  ASSUME CInv, NEW t \in Thread, NEW X \in SUBSET Node, next' \in [Node -> Nodes],
         \A u \in Thread \ {t} : /\ pc'[u] = pc[u] /\ old'[u] = old[u] /\ first'[u] = first[u]
                                 /\ last'[u] = last[u] /\ mine'[u] = mine[u]
                                 /\ CountingHand(u) \cap X = {},
         \A n \in Node \ X : next'[n] = next[n]
  PROVE  \A u \in Thread \ {t} :
            /\ Counting!Claimed(u)' = Counting!Claimed(u)
            /\ Counting!Taken(u)' = Counting!Taken(u)
            /\ CountingHand(u)' = CountingHand(u) /\ Doomed(u)' = Doomed(u)
            /\ Counting!Stop(u)' = Counting!Stop(u)
            /\ \A n \in Counting!Taken(u) : n \in Node /\ next'[n] = next[n]
<1> TAKE u \in Thread \ {t}
<1>1. next \in [Node -> Nodes] /\ first[u] \in Nodes
  BY ChainFacts
<1>2. Counting!Claimed(u)' = Counting!Claimed(u) /\ Counting!Stop(u)' = Counting!Stop(u)
  BY DEF Counting!Claimed, Counting!Stop
<1>3. \A n \in Counting!Taken(u) : n \in Node /\ next'[n] = next[n]
  <2>1. Counting!Taken(u) \subseteq Node
    BY <1>1, PathHas DEF Counting!Taken
  <2> QED BY <2>1 DEF CountingHand
<1>4. Counting!Taken(u)' = Counting!Taken(u)
  <2>1. CASE Counting!Taken(u) = Counting!Path(next, first[u], Counting!Stop(u))
    <3>1. Counting!Path(next', first[u], Counting!Stop(u)) = Counting!Path(next, first[u], Counting!Stop(u))
      BY <2>1, <1>1, <1>3, PathKept
    <3> QED BY <3>1, <1>2, <2>1 DEF Counting!Taken
  <2>2. CASE Counting!Taken(u) # Counting!Path(next, first[u], Counting!Stop(u))
    BY <2>2 DEF Counting!Taken
  <2> QED BY <2>1, <2>2
<1>5. CountingHand(u)' = CountingHand(u) /\ Doomed(u)' = Doomed(u)
  BY <1>2, <1>4 DEF CountingHand, Doomed
<1> QED BY <1>2, <1>3, <1>4, <1>5

LEMMA PendingKept ==
  ASSUME CInv, next' \in [Node -> Nodes], to_be_deleted' = to_be_deleted,
         \A n \in Counting!Pending : next'[n] = next[n]
  PROVE  /\ Counting!Pending' = Counting!Pending
         /\ Listed(Counting!Pending, to_be_deleted, NoNode)'
<1>1. next \in [Node -> Nodes] /\ to_be_deleted \in Nodes
  BY ChainFacts
<1>2. Counting!Pending' = Counting!Pending
  <2>1. Counting!Path(next', to_be_deleted, NoNode) = Counting!Path(next, to_be_deleted, NoNode)
    BY <1>1, PathKept DEF Counting!Pending
  <2> QED BY <2>1 DEF Counting!Pending
<1>3. Listed(Counting!Pending, to_be_deleted, NoNode)
  BY DEF CInv, Lists
<1> QED BY <1>2, <1>3 DEF Listed

\* A step of t that changes the nodes of X and shares out what is in its reach anew.
LEMMA CountingMoves ==
  ASSUME CInv, NEW t \in Thread, NEW X \in SUBSET Node,
         \A u \in Thread \ {t} : /\ pc'[u] = pc[u] /\ old'[u] = old[u] /\ nxt'[u] = nxt[u]
                                 /\ first'[u] = first[u] /\ last'[u] = last[u]
                                 /\ mine'[u] = mine[u] /\ CountingHand(u) \cap X = {},
         \A n \in Node \ X : next'[n] = next[n] /\ data'[n] = data[n],
         Counting!TypeOK', ListIsStack', CountingLocal(t)',
         mine'[t] # NoNode <=> pc'[t] = "push",
         mine'[t] # NoNode => /\ data'[mine'[t]] \in Value
                              /\ mine'[t] = mine[t] \/ mine'[t] \notin live,
         Linked' \cap Counting!Pending' = {},
         CountingHand(t)' \cap (Linked' \cup Counting!Pending') = {},
         Counting!Claimed(t)' \cap Counting!Taken(t)' = {},
         InReach(t)' \subseteq InReach(t) \cup (Node \ live),
         live' = (live \ InReach(t)) \cup InReach(t)',
         Listed(Counting!Pending, to_be_deleted, NoNode)',
         Listed(Counting!Taken(t), first[t], Counting!Stop(t))',
         \A n \in Linked' : data'[n] \in Value,
         ~Reading(t)',
         \A u \in Thread \ {t} : Reading(u) /\ old[u] # NoNode =>
            /\ old[u] \in live' /\ old[u] \notin Doomed(t)'
            /\ old[u] \in Linked' => old[u] \in Linked /\ next'[old[u]] = next[old[u]]
  PROVE  CInv'
<1> USE SameStack, SameLinked DEF CInv
<1>0. Counting!Linked' = Linked' /\ next' \in [Node -> Nodes]
  BY DEF Counting!Linked, Linked, Counting!TypeOK, Counting!StackTypeOK, Counting!Nodes, Nodes
<1>1. \A u \in Thread \ {t} :
         /\ Counting!Claimed(u)' = Counting!Claimed(u)
         /\ Counting!Taken(u)' = Counting!Taken(u)
         /\ CountingHand(u)' = CountingHand(u) /\ Doomed(u)' = Doomed(u)
         /\ Counting!Stop(u)' = Counting!Stop(u)
         /\ \A n \in Counting!Taken(u) : n \in Node /\ next'[n] = next[n]
  BY <1>0, OthersKeep
<1>2. \A u \in Thread \ {t} : /\ CountingHand(u) \subseteq live
                              /\ CountingHand(u) \cap InReach(t) = {}
                              /\ CountingHand(u) \subseteq live'
                              /\ CountingHand(u) \cap InReach(t)' = {}
  <2> TAKE u \in Thread \ {t}
  <2>1. CountingHand(u) \subseteq live /\ CountingHand(u) \cap InReach(t) = {}
    BY ChainFacts DEF CountingKeeper, InReach
  <2> QED BY <2>1
<1>3. MineOK'
  <2>1. mine'[t] # NoNode => mine'[t] \in live'
    BY DEF InReach, CountingHand
  <2>2. ASSUME NEW u \in Thread \ {t}, mine[u] # NoNode
        PROVE  mine[u] \in live' /\ data'[mine[u]] \in Value
    <3>1. mine[u] \in CountingHand(u) /\ mine[u] \in Node
      BY <2>2, ChainFacts DEF CountingHand, MineOK
    <3> QED BY <3>1, <2>2, <1>2 DEF MineOK
  <2> QED BY <2>1, <2>2 DEF MineOK
<1>4. CountingLocals'
  <2> SUFFICES ASSUME NEW u \in Thread \ {t} PROVE CountingLocal(u)'
    BY DEF CountingLocals
  <2>1. CountingLocal(u) /\ next \in [Node -> Nodes] /\ first[u] \in Nodes
    BY ChainFacts DEF CountingLocals
  <2>2. pc[u] = "walk" => /\ Counting!Path(next, first[u], NoNode) = Counting!Taken(u)
                          /\ Counting!Path(next, first[u], NoNode)' = Counting!Taken(u)'
    BY DEF Counting!Taken, Counting!Stop
  <2> QED BY <2>1, <2>2, <1>1 DEF CountingLocal
<1>5. CountingKeeper'
  <2>1. \A u \in Thread \ {t} : /\ CountingHand(u)' \cap (Linked' \cup Counting!Pending') = {}
                                /\ CountingHand(u)' \cap CountingHand(t)' = {}
    BY <1>1, <1>2 DEF InReach
  <2>2. \A u, w \in Thread \ {t} : u # w => CountingHand(u)' \cap CountingHand(w)' = {}
    BY <1>1 DEF CountingKeeper
  <2> QED BY <2>1, <2>2, <1>1 DEF CountingKeeper
<1>6. Lists'
  <2>1. ASSUME NEW u \in Thread \ {t} PROVE Listed(Counting!Taken(u), first[u], Counting!Stop(u))'
    <3>1. Listed(Counting!Taken(u), first[u], Counting!Stop(u))
      BY DEF Lists
    <3> QED BY <3>1, <1>1 DEF Listed
  <2> QED BY <2>1 DEF Lists
<1>7. CountingHolding'
  <2>1. ASSUME NEW u \in Thread \ {t}, pc[u] = "swap" PROVE data'[old[u]] \in Value
    <3>1. old[u] \in CountingHand(u) /\ old[u] \in Node
      BY <2>1, ChainFacts DEF CountingHand, Counting!Claimed, CountingLocals, CountingLocal, Nodes
    <3> QED BY <3>1, <2>1 DEF CountingHolding
  <2> QED BY <2>1 DEF CountingHolding, Counting!TypeOK
<1>8. Counting!NoUseAfterFree'
  <2>1. \A u \in Thread : CountingHand(u)' \subseteq live'
    BY <1>1, <1>2 DEF InReach
  <2>2. ASSUME NEW u \in Thread, pc'[u] \in {"walk", "splice"} PROVE last'[u] \in live'
    BY <2>1, <2>2, <1>4, LastIsKept DEF CountingHand
  <2>3. ASSUME NEW u \in Thread, pc'[u] = "read" PROVE old'[u] \in live' \cup {NoNode}
    BY <2>3 DEF Reading
  <2> QED BY <2>1, <2>2, <2>3, <1>0 DEF Counting!NoUseAfterFree, InReach, CountingHand
<1>9. Counting!NoLeak'
  <2>1. ASSUME NEW n \in live'
        PROVE  \/ n \in Linked' \cup Counting!Pending'
               \/ \E u \in Thread : n \in Counting!Claimed(u)' \cup Counting!Taken(u)' \cup {mine'[u]}
    <3>1. CASE n \in InReach(t)'
      BY <3>1 DEF InReach, CountingHand
    <3>2. CASE n \in live \ InReach(t)
      <4>1. n # NoNode
        BY <3>2, ChainFacts, NullsDistinct
      <4>2. PICK u \in Thread : n \in Counting!Claimed(u) \cup Counting!Taken(u) \cup {mine[u]}
        BY <3>2 DEF Counting!NoLeak, InReach
      <4>3. u # t
        BY <3>2, <4>1, <4>2 DEF InReach, CountingHand
      <4> QED BY <4>2, <4>3, <1>1
    <3> QED BY <3>1, <3>2
  <2> QED BY <2>1, <1>0 DEF Counting!NoLeak
<1>10. Spared'
  <2> SUFFICES ASSUME NEW u \in Thread \ {t}, Reading(u), old[u] # NoNode PROVE NotDoomed(u)'
    BY DEF Spared, Reading
  <2>1. NotDoomed(u)
    BY DEF Spared
  <2>2. \A w \in Thread \ {t} : mine'[w] # old'[u] /\ old'[u] \notin Doomed(w)'
    BY <2>1, <1>1 DEF NotDoomed
  <2>3. mine'[t] # old'[u]
    BY <2>1 DEF NotDoomed
  <2> QED BY <2>1, <2>2, <2>3 DEF NotDoomed
<1> QED BY <1>3, <1>4, <1>5, <1>6, <1>7, <1>8, <1>9, <1>10

LEMMA CountingPushKeeps ==
  ASSUME CInv, Counting!Running, NEW t \in Thread, Counting!Push(t), UNCHANGED Counting!reclaiming
  PROVE  CInv'
<1> USE SameStack, SameLinked, SameCardinality
        DEF CInv, Counting!TypeOK, StackTypeOK, Counting!Goto, Counting!nodes, Counting!popping,
            Counting!reclaiming
<1>0. /\ Counting!Claimed(t) = {} /\ Counting!Taken(t) = {} /\ pc[t] \in {"idle", "push"}
      /\ CountingHand(t) = {mine[t]} \ {NoNode}
  BY DEF Counting!Push, Counting!CallPush, Counting!LinkNode, Counting!LinkNodeFails,
     Counting!Claimed, Counting!Taken, CountingHand
<1>1. CASE \E v \in Value : Counting!CallPush(t, v)
  <2> PICK v \in Value, n \in Node \ live :
         /\ live' = live \cup {n}
         /\ data' = [data EXCEPT ![n] = v]
         /\ next' = [next EXCEPT ![n] = head]
         /\ mine' = [mine EXCEPT ![t] = n]
    BY <1>1 DEF Counting!CallPush, Counting!Stored
  <2>1. /\ pc[t] = "idle" /\ pc' = [pc EXCEPT ![t] = "push"]
        /\ UNCHANGED <<head, old, nxt, stack, to_be_deleted, threads_in_pop, first, last>>
    BY <1>1 DEF Counting!CallPush
  <2>2. /\ \A k \in Node \ {n} : next'[k] = next[k] /\ data'[k] = data[k]
        /\ \A u \in Thread \ {t} : pc'[u] = pc[u] /\ mine'[u] = mine[u]
        /\ mine'[t] = n /\ pc'[t] = "push" /\ data'[n] = v /\ mine[t] = NoNode
    BY <2>1 DEF MineOK
  <2>3. ListIsStack' /\ Linked' = Linked
    BY <2>1, <2>2, ListKept, ChainFacts
  <2>4. StackTypeOK' /\ next' \in [Node -> Nodes]
    BY <2>1 DEF Nodes
  <2>5. Counting!Pending' = Counting!Pending /\ Listed(Counting!Pending, to_be_deleted, NoNode)'
    BY <2>1, <2>2, <2>4, ChainFacts, PendingKept
  <2>6. /\ Counting!Claimed(t)' = {} /\ Counting!Taken(t)' = {} /\ CountingHand(t)' = {n}
        /\ Doomed(t)' = {} /\ ~Reading(t)'
    BY <2>2, NullsDistinct DEF Counting!Claimed, Counting!Taken, CountingHand, Doomed, Reading
  <2>7. Counting!TypeOK'
    <3>1. Counting!Counted' = Counting!Counted /\ Counting!Running'
      BY <2>1 DEF Counting!Counted, Counting!Running
    <3>2. pc' \in [Thread -> Counting!PCs]
      BY <2>1 DEF Counting!PCs
    <3>3. \A u \in Thread : pc'[u] = "swap" => data'[old'[u]] \in Value
      BY <2>1, <2>2 DEF Counting!NoUseAfterFree, Counting!Claimed, CountingLocals, CountingLocal
    <3> QED BY <3>1, <3>2, <3>3, <2>1, <2>4 DEF Counting!StackTypeOK, Counting!Nodes, Nodes
  <2>8. CountingLocal(t)' /\ Listed(Counting!Taken(t), first[t], Counting!Stop(t))'
    BY <2>2, <2>6 DEF CountingLocal, Listed
  <2>9. \A n2 \in Linked' : data'[n2] \in Value
    BY <2>2, <2>3, ChainFacts DEF CountingHolding
  <2>10. \A u \in Thread \ {t} : CountingHand(u) \cap {n} = {}
    BY ChainFacts
  <2>11. \A u \in Thread \ {t} : Reading(u) /\ old[u] # NoNode =>
            /\ old[u] \in live' /\ old[u] \notin Doomed(t)'
            /\ old[u] \in Linked' => old[u] \in Linked /\ next'[old[u]] = next[old[u]]
    BY <2>2, <2>3, <2>6, ChainFacts DEF Spared, NotDoomed
  <2>12. /\ Linked' \cap Counting!Pending' = {}
         /\ CountingHand(t)' \cap (Linked' \cup Counting!Pending') = {}
         /\ InReach(t)' = InReach(t) \cup {n} /\ live' = (live \ InReach(t)) \cup InReach(t)'
    BY <1>0, <2>2, <2>3, <2>5, <2>6, ChainFacts DEF InReach, CountingKeeper
  <2> DEFINE X == {n}
  <2>13. /\ X \in SUBSET Node
         /\ \A k \in Node \ X : next'[k] = next[k] /\ data'[k] = data[k]
         /\ \A u \in Thread \ {t} : CountingHand(u) \cap X = {}
         /\ \A u \in Thread \ {t} : /\ pc'[u] = pc[u] /\ old'[u] = old[u] /\ nxt'[u] = nxt[u]
                                     /\ first'[u] = first[u] /\ last'[u] = last[u] /\ mine'[u] = mine[u]
    BY <2>1, <2>2, <2>10
  <2>14. /\ mine'[t] # NoNode <=> pc'[t] = "push"
         /\ mine'[t] # NoNode => data'[mine'[t]] \in Value /\ (mine'[t] = mine[t] \/ mine'[t] \notin live)
         /\ InReach(t)' \subseteq InReach(t) \cup (Node \ live)
         /\ Counting!Claimed(t)' \cap Counting!Taken(t)' = {}
    BY <2>2, <2>6, <2>12, NullsDistinct
  <2> HIDE DEF X, CInv, Counting!TypeOK, StackTypeOK
  <2> QED BY <2>3, <2>6, <2>7, <2>8, <2>9, <2>11, <2>12, <2>13, <2>14, <2>5, CountingMoves, ZenonT(60)
<1>2. CASE Counting!LinkNodeFails(t)
  <2> DEFINE n == mine[t]
  <2>1. /\ pc[t] = "push" /\ next' = [next EXCEPT ![n] = head]
        /\ UNCHANGED <<head, data, live, pc, mine, old, nxt, stack, to_be_deleted, threads_in_pop, first, last>>
    BY <1>2 DEF Counting!LinkNodeFails
  <2>2. /\ n \in Node /\ n \in CountingHand(t) /\ n \in live /\ data[n] \in Value /\ n # NoNode
        /\ \A k \in Node \ {n} : next'[k] = next[k]
    BY <2>1, <1>0, NullsDistinct, ChainFacts DEF MineOK
  <2>3. /\ n \notin Linked /\ n \notin Counting!Pending
        /\ \A u \in Thread \ {t} : CountingHand(u) \cap {n} = {}
    BY <2>2 DEF CountingKeeper
  <2>4. ListIsStack' /\ Linked' = Linked
    BY <2>1, <2>2, <2>3, ListKept, ChainFacts
  <2>5. StackTypeOK' /\ next' \in [Node -> Nodes]
    BY <2>1 DEF Nodes
  <2>6. Counting!Pending' = Counting!Pending /\ Listed(Counting!Pending, to_be_deleted, NoNode)'
    BY <2>1, <2>2, <2>3, <2>5, ChainFacts, PendingKept
  <2>7. /\ Counting!Claimed(t)' = {} /\ Counting!Taken(t)' = {} /\ CountingHand(t)' = CountingHand(t)
        /\ Doomed(t)' = {} /\ ~Reading(t)'
    BY <2>1, <1>0 DEF Counting!Claimed, Counting!Taken, CountingHand, Doomed, Reading
  <2>8. Counting!TypeOK'
    <3>1. Counting!Counted' = Counting!Counted /\ Counting!Running'
      BY <2>1 DEF Counting!Counted, Counting!Running
    <3> QED BY <3>1, <2>1, <2>5 DEF Counting!StackTypeOK, Counting!Nodes, Nodes
  <2>9. CountingLocal(t)' /\ Listed(Counting!Taken(t), first[t], Counting!Stop(t))'
    BY <2>1, <2>7 DEF CountingLocal, Listed
  <2>10. \A u \in Thread \ {t} : Reading(u) /\ old[u] # NoNode =>
            /\ old[u] \in live' /\ old[u] \notin Doomed(t)'
            /\ old[u] \in Linked' => old[u] \in Linked /\ next'[old[u]] = next[old[u]]
    BY <2>1, <2>2, <2>3, <2>4, <2>7, ChainFacts DEF Spared, NotDoomed
  <2>11. /\ Linked' \cap Counting!Pending' = {}
         /\ CountingHand(t)' \cap (Linked' \cup Counting!Pending') = {}
         /\ InReach(t)' = InReach(t) /\ live' = (live \ InReach(t)) \cup InReach(t)'
    BY <2>1, <2>4, <2>6, <2>7, ChainFacts DEF InReach, CountingKeeper
  <2>12. \A k \in Linked' : data'[k] \in Value
    BY <2>1, <2>4 DEF CountingHolding
  <2> DEFINE X == {n}
  <2>13. /\ X \in SUBSET Node
         /\ \A k \in Node \ X : next'[k] = next[k] /\ data'[k] = data[k]
         /\ \A u \in Thread \ {t} : CountingHand(u) \cap X = {}
         /\ \A u \in Thread \ {t} : /\ pc'[u] = pc[u] /\ old'[u] = old[u] /\ nxt'[u] = nxt[u]
                                     /\ first'[u] = first[u] /\ last'[u] = last[u] /\ mine'[u] = mine[u]
    BY <2>1, <2>2, <2>3
  <2>14. /\ mine'[t] # NoNode <=> pc'[t] = "push"
         /\ mine'[t] # NoNode => data'[mine'[t]] \in Value /\ (mine'[t] = mine[t] \/ mine'[t] \notin live)
         /\ InReach(t)' \subseteq InReach(t) \cup (Node \ live)
         /\ Counting!Claimed(t)' \cap Counting!Taken(t)' = {}
    BY <2>1, <2>2, <2>7, <2>11
  <2> HIDE DEF X, n, CInv, Counting!TypeOK, StackTypeOK
  <2> QED BY <2>4, <2>6, <2>7, <2>8, <2>9, <2>10, <2>11, <2>12, <2>13, <2>14, CountingMoves, ZenonT(60)
<1>3. CASE Counting!LinkNode(t)
  <2> DEFINE n == mine[t]
  <2>1. /\ pc[t] = "push" /\ pc' = [pc EXCEPT ![t] = "idle"]
        /\ mine' = [mine EXCEPT ![t] = NoNode]
        /\ head = next[n] /\ head' = n /\ stack' = Append(stack, n)
        /\ UNCHANGED <<next, data, live, old, nxt, to_be_deleted, threads_in_pop, first, last>>
    BY <1>3 DEF Counting!LinkNode, Counting!NextIsHead
  <2>2. /\ n \in Node /\ n \in CountingHand(t) /\ n \in live /\ data[n] \in Value /\ n # NoNode
        /\ n \notin Linked /\ n \notin Counting!Pending
    BY <2>1, <1>0, NullsDistinct, ChainFacts DEF MineOK, CountingKeeper
  <2>3. ListIsStack' /\ Linked' = Linked \cup {n} /\ stack' \in Seq(Node)
    BY <2>1, <2>2, ListGrows, ChainFacts
  <2>4. /\ \A u \in Thread \ {t} : pc'[u] = pc[u] /\ mine'[u] = mine[u]
        /\ pc'[t] = "idle" /\ mine'[t] = NoNode
    BY <2>1
  <2>5. Counting!Pending' = Counting!Pending /\ Listed(Counting!Pending, to_be_deleted, NoNode)'
    BY <2>1, ChainFacts, PendingKept
  <2>6. /\ Counting!Claimed(t)' = {} /\ Counting!Taken(t)' = {} /\ CountingHand(t)' = {}
        /\ Doomed(t)' = {} /\ ~Reading(t)'
    BY <2>4 DEF Counting!Claimed, Counting!Taken, CountingHand, Doomed, Reading
  <2>7. Counting!TypeOK'
    <3>1. Counting!Counted' = Counting!Counted /\ Counting!Running'
      BY <2>1 DEF Counting!Counted, Counting!Running
    <3>2. pc' \in [Thread -> Counting!PCs]
      BY <2>1 DEF Counting!PCs
    <3>3. \A u \in Thread : pc'[u] = "swap" => data'[old'[u]] \in Value
      BY <2>1
    <3>4. StackTypeOK'
      BY <2>1, <2>2, <2>3 DEF Nodes
    <3> QED BY <3>1, <3>2, <3>3, <3>4, <2>1 DEF Counting!StackTypeOK, Counting!Nodes, Nodes
  <2>8. CountingLocal(t)' /\ Listed(Counting!Taken(t), first[t], Counting!Stop(t))'
    BY <2>4, <2>6 DEF CountingLocal, Listed
  <2>9. \A u \in Thread \ {t} : Reading(u) /\ old[u] # NoNode =>
            /\ old[u] \in live' /\ old[u] \notin Doomed(t)'
            /\ old[u] \in Linked' => old[u] \in Linked /\ next'[old[u]] = next[old[u]]
    BY <2>1, <2>3, <2>6, ChainFacts DEF Spared, NotDoomed
  <2>10. /\ Linked' \cap Counting!Pending' = {}
         /\ CountingHand(t)' \cap (Linked' \cup Counting!Pending') = {}
         /\ InReach(t)' = InReach(t) /\ live' = (live \ InReach(t)) \cup InReach(t)'
    BY <1>0, <2>1, <2>2, <2>3, <2>5, <2>6, ChainFacts DEF InReach, CountingKeeper
  <2>11. \A k \in Linked' : data'[k] \in Value
    BY <2>1, <2>2, <2>3 DEF CountingHolding
  <2> DEFINE X == {}
  <2>12. /\ X \in SUBSET Node
         /\ \A k \in Node \ X : next'[k] = next[k] /\ data'[k] = data[k]
         /\ \A u \in Thread \ {t} : CountingHand(u) \cap X = {}
         /\ \A u \in Thread \ {t} : /\ pc'[u] = pc[u] /\ old'[u] = old[u] /\ nxt'[u] = nxt[u]
                                     /\ first'[u] = first[u] /\ last'[u] = last[u] /\ mine'[u] = mine[u]
    BY <2>1, <2>4
  <2>13. /\ mine'[t] # NoNode <=> pc'[t] = "push"
         /\ mine'[t] # NoNode => data'[mine'[t]] \in Value /\ (mine'[t] = mine[t] \/ mine'[t] \notin live)
         /\ InReach(t)' \subseteq InReach(t) \cup (Node \ live)
         /\ Counting!Claimed(t)' \cap Counting!Taken(t)' = {}
    BY <2>4, <2>6, <2>10
  <2> HIDE DEF X, n, CInv, Counting!TypeOK, StackTypeOK
  <2> QED BY <2>3, <2>5, <2>6, <2>7, <2>8, <2>9, <2>10, <2>11, <2>12, <2>13, CountingMoves, ZenonT(60)
<1> QED BY <1>1, <1>2, <1>3 DEF Counting!Push

LEMMA CountingTakeKeeps ==
  ASSUME CInv, Counting!Running, NEW t \in Thread,
         Counting!Take(t, "swap"), UNCHANGED Counting!reclaiming
  PROVE  CInv'
<1> USE SameStack, SameLinked, SameCardinality
        DEF CInv, Counting!TypeOK, StackTypeOK, Counting!Goto, Counting!nodes, Counting!popping,
            Counting!reclaiming
<1>1. /\ pc[t] = "exchange" /\ pc' = [pc EXCEPT ![t] = "swap"] /\ head = old[t]
      /\ head' = nxt[t] /\ nxt' = [nxt EXCEPT ![t] = NoNode]
      /\ stack' = SubSeq(stack, 1, Len(stack) - 1)
      /\ UNCHANGED <<next, data, live, mine, old, to_be_deleted, threads_in_pop, first, last>>
  BY DEF Counting!Take, Counting!HeadUnchanged
<1>2. head # NoNode /\ head \in Linked /\ data[head] \in Value
  BY <1>1, TopOfStack DEF CountingLocals, CountingLocal, CountingHolding
<1>3. nxt[t] = next[head]
  BY <1>1, <1>2 DEF Spared, NotDoomed, Reading
<1>4. ListIsStack' /\ Linked' = Linked \ {head} /\ stack' \in Seq(Node)
  BY <1>1, <1>2, <1>3, ListShrinks
<1>5. /\ \A u \in Thread \ {t} : pc'[u] = pc[u] /\ nxt'[u] = nxt[u]
      /\ pc'[t] = "swap" /\ mine[t] = NoNode
  BY <1>1 DEF MineOK
<1>6. Counting!Pending' = Counting!Pending /\ Listed(Counting!Pending, to_be_deleted, NoNode)'
  BY <1>1, ChainFacts, PendingKept
<1>7. /\ Counting!Claimed(t) = {} /\ Counting!Taken(t) = {} /\ CountingHand(t) = {}
      /\ Counting!Claimed(t)' = {head} /\ Counting!Taken(t)' = {} /\ CountingHand(t)' = {head}
      /\ Doomed(t)' = {} /\ ~Reading(t)'
  BY <1>1, <1>2, <1>5 DEF Counting!Claimed, Counting!Taken, CountingHand, Doomed, Reading
<1>8. Counting!TypeOK'
  <2>1. Counting!Counted' = Counting!Counted /\ Counting!Running'
    BY <1>1 DEF Counting!Counted, Counting!Running
  <2>2. pc' \in [Thread -> Counting!PCs]
    BY <1>1 DEF Counting!PCs
  <2>3. \A u \in Thread : pc'[u] = "swap" => data'[old'[u]] \in Value
    BY <1>1, <1>2
  <2>4. StackTypeOK'
    BY <1>1, <1>4 DEF Nodes
  <2> QED BY <2>1, <2>2, <2>3, <2>4, <1>1 DEF Counting!StackTypeOK, Counting!Nodes, Nodes
<1>9. CountingLocal(t)' /\ Listed(Counting!Taken(t), first[t], Counting!Stop(t))'
  BY <1>1, <1>2, <1>5, <1>7 DEF CountingLocal, Listed
<1>10. \A u \in Thread \ {t} : Reading(u) /\ old[u] # NoNode =>
            /\ old[u] \in live' /\ old[u] \notin Doomed(t)'
            /\ old[u] \in Linked' => old[u] \in Linked /\ next'[old[u]] = next[old[u]]
  BY <1>1, <1>4, <1>7 DEF Spared, NotDoomed
<1>11. /\ Linked' \cap Counting!Pending' = {}
       /\ CountingHand(t)' \cap (Linked' \cup Counting!Pending') = {}
       /\ InReach(t)' = InReach(t) /\ live' = (live \ InReach(t)) \cup InReach(t)'
  BY <1>1, <1>2, <1>4, <1>6, <1>7, ChainFacts DEF InReach, CountingKeeper
<1>12. \A k \in Linked' : data'[k] \in Value
  BY <1>1, <1>4 DEF CountingHolding
<1> DEFINE X == {}
<1>13. /\ X \in SUBSET Node
       /\ \A k \in Node \ X : next'[k] = next[k] /\ data'[k] = data[k]
       /\ \A u \in Thread \ {t} : CountingHand(u) \cap X = {}
       /\ \A u \in Thread \ {t} : /\ pc'[u] = pc[u] /\ old'[u] = old[u] /\ nxt'[u] = nxt[u]
                                   /\ first'[u] = first[u] /\ last'[u] = last[u] /\ mine'[u] = mine[u]
  BY <1>1, <1>5
<1>14. /\ mine'[t] # NoNode <=> pc'[t] = "push"
       /\ mine'[t] # NoNode => data'[mine'[t]] \in Value /\ (mine'[t] = mine[t] \/ mine'[t] \notin live)
       /\ InReach(t)' \subseteq InReach(t) \cup (Node \ live)
       /\ Counting!Claimed(t)' \cap Counting!Taken(t)' = {}
  BY <1>1, <1>5, <1>7, <1>11
<1> HIDE DEF X, CInv, Counting!TypeOK, StackTypeOK
<1> QED BY <1>4, <1>6, <1>7, <1>8, <1>9, <1>10, <1>11, <1>12, <1>13, <1>14, CountingMoves, ZenonT(60)

\* "res.swap (oldHead->data)".
LEMMA CountingSwapKeeps ==
  ASSUME CInv, Counting!Running, NEW t \in Thread, Counting!Swap(t)
  PROVE  CInv'
<1> USE SameStack, SameLinked, SameCardinality
        DEF CInv, Counting!TypeOK, StackTypeOK, Counting!Goto, Counting!nodes, Counting!popping,
            Counting!reclaiming
<1> DEFINE n == old[t]
<1>1. /\ pc[t] = "swap" /\ pc' = [pc EXCEPT ![t] = "check"] /\ data' = [data EXCEPT ![n] = NoValue]
      /\ UNCHANGED <<head, next, live, mine, old, nxt, stack, to_be_deleted, threads_in_pop, first, last>>
  BY DEF Counting!Swap
<1>2. /\ n # NoNode /\ n \in Node /\ Counting!Claimed(t) = {n} /\ n \in CountingHand(t)
      /\ n \notin Linked
  BY <1>1, ChainFacts DEF CountingLocals, CountingLocal, Nodes, Counting!Claimed, CountingHand, CountingKeeper
<1>3. /\ \A u \in Thread \ {t} : pc'[u] = pc[u] /\ CountingHand(u) \cap {n} = {}
      /\ pc'[t] = "check" /\ mine[t] = NoNode
      /\ \A k \in Node \ {n} : next'[k] = next[k] /\ data'[k] = data[k]
  BY <1>1, <1>2 DEF MineOK, CountingKeeper
<1>4. ListIsStack' /\ Linked' = Linked
  BY <1>1, ListKept
<1>5. Counting!Pending' = Counting!Pending /\ Listed(Counting!Pending, to_be_deleted, NoNode)'
  BY <1>1, ChainFacts, PendingKept
<1>6. /\ Counting!Taken(t) = {} /\ Counting!Claimed(t)' = {n} /\ Counting!Taken(t)' = {}
      /\ CountingHand(t)' = CountingHand(t) /\ Doomed(t)' = {} /\ ~Reading(t)'
  BY <1>1, <1>2, <1>3 DEF Counting!Claimed, Counting!Taken, CountingHand, Doomed, Reading
<1>7. Counting!TypeOK'
  <2>1. Counting!Counted' = Counting!Counted /\ Counting!Running'
    BY <1>1 DEF Counting!Counted, Counting!Running
  <2>2. pc' \in [Thread -> Counting!PCs]
    BY <1>1 DEF Counting!PCs
  <2>3. \A u \in Thread : pc'[u] = "swap" => u # t /\ old[u] \in CountingHand(u) /\ old[u] \in Node
    BY <1>1, ChainFacts DEF Counting!Claimed, CountingHand, CountingLocals, CountingLocal, Nodes
  <2>4. \A u \in Thread : pc'[u] = "swap" => data'[old'[u]] \in Value
    BY <2>3, <1>1, <1>3
  <2>5. StackTypeOK'
    BY <1>1, <1>2 DEF Nodes
  <2> QED BY <2>1, <2>2, <2>4, <2>5, <1>1 DEF Counting!StackTypeOK, Counting!Nodes, Nodes
<1>8. CountingLocal(t)' /\ Listed(Counting!Taken(t), first[t], Counting!Stop(t))'
  BY <1>3, <1>6 DEF CountingLocal, Listed
<1>9. \A u \in Thread \ {t} : Reading(u) /\ old[u] # NoNode =>
            /\ old[u] \in live' /\ old[u] \notin Doomed(t)'
            /\ old[u] \in Linked' => old[u] \in Linked /\ next'[old[u]] = next[old[u]]
  BY <1>1, <1>4, <1>6 DEF Spared, NotDoomed
<1>10. /\ Linked' \cap Counting!Pending' = {}
       /\ CountingHand(t)' \cap (Linked' \cup Counting!Pending') = {}
       /\ InReach(t)' = InReach(t) /\ live' = (live \ InReach(t)) \cup InReach(t)'
  BY <1>1, <1>4, <1>5, <1>6, ChainFacts DEF InReach, CountingKeeper
<1>11. \A k \in Linked' : data'[k] \in Value
  BY <1>2, <1>3, <1>4, ChainFacts DEF CountingHolding
<1> DEFINE X == {n}
<1>12. /\ X \in SUBSET Node
       /\ \A k \in Node \ X : next'[k] = next[k] /\ data'[k] = data[k]
       /\ \A u \in Thread \ {t} : CountingHand(u) \cap X = {}
       /\ \A u \in Thread \ {t} : /\ pc'[u] = pc[u] /\ old'[u] = old[u] /\ nxt'[u] = nxt[u]
                                   /\ first'[u] = first[u] /\ last'[u] = last[u] /\ mine'[u] = mine[u]
  BY <1>1, <1>2, <1>3
<1>13. /\ mine'[t] # NoNode <=> pc'[t] = "push"
       /\ mine'[t] # NoNode => data'[mine'[t]] \in Value /\ (mine'[t] = mine[t] \/ mine'[t] \notin live)
       /\ InReach(t)' \subseteq InReach(t) \cup (Node \ live)
       /\ Counting!Claimed(t)' \cap Counting!Taken(t)' = {}
  BY <1>1, <1>3, <1>6, <1>10
<1> HIDE DEF X, n, CInv, Counting!TypeOK, StackTypeOK
<1> QED BY <1>4, <1>5, <1>6, <1>7, <1>8, <1>9, <1>10, <1>11, <1>12, <1>13, CountingMoves, ZenonT(60)

\* "to_be_deleted.exchange (nullptr)".
LEMMA CountingClaimKeeps ==
  ASSUME CInv, Counting!Running, NEW t \in Thread, Counting!Claim(t)
  PROVE  CInv'
<1> USE SameStack, SameLinked, SameCardinality
        DEF CInv, Counting!TypeOK, StackTypeOK, Counting!Goto, Counting!nodes, Counting!popping
<1>1. /\ pc[t] = "claim" /\ pc' = [pc EXCEPT ![t] = "leave"]
      /\ first' = [first EXCEPT ![t] = to_be_deleted] /\ to_be_deleted' = NoNode
      /\ UNCHANGED <<head, next, data, live, mine, old, nxt, stack, threads_in_pop, last>>
  BY DEF Counting!Claim
<1>2. /\ \A u \in Thread \ {t} : pc'[u] = pc[u] /\ first'[u] = first[u]
      /\ pc'[t] = "leave" /\ mine[t] = NoNode /\ first'[t] = to_be_deleted
  BY <1>1 DEF MineOK
<1>3. ListIsStack' /\ Linked' = Linked
  BY <1>1, ListKept
<1>4. /\ Counting!Pending' = {} /\ Counting!Taken(t) = {} /\ Counting!Taken(t)' = Counting!Pending
      /\ Counting!Claimed(t)' = Counting!Claimed(t) /\ Doomed(t)' = Doomed(t) /\ ~Reading(t)'
      /\ Counting!Stop(t)' = NoNode
  <2>1. Counting!Pending' = {}
    BY <1>1, PathOfNone DEF Counting!Pending
  <2> QED BY <2>1, <1>1, <1>2
       DEF Counting!Taken, Counting!Stop, Counting!Claimed, Counting!Pending, Doomed, Reading
<1>5. /\ Listed(Counting!Pending, to_be_deleted, NoNode)'
      /\ Listed(Counting!Taken(t), first[t], Counting!Stop(t))'
  <2>1. Listed(Counting!Pending, to_be_deleted, NoNode)
    BY DEF Lists
  <2> QED BY <2>1, <1>1, <1>2, <1>4 DEF Listed
<1>6. CountingHand(t)' = CountingHand(t) \cup Counting!Pending
  BY <1>1, <1>4 DEF CountingHand
<1>7. Counting!TypeOK'
  <2>1. Counting!Counted' = Counting!Counted /\ Counting!Running'
    BY <1>1 DEF Counting!Counted, Counting!Running
  <2>2. pc' \in [Thread -> Counting!PCs]
    BY <1>1 DEF Counting!PCs
  <2>3. first' \in [Thread -> Counting!Nodes] /\ to_be_deleted' \in Counting!Nodes
    BY <1>1 DEF Counting!Nodes
  <2>4. \A u \in Thread : pc'[u] = "swap" => data'[old'[u]] \in Value
    BY <1>1
  <2> QED BY <2>1, <2>2, <2>3, <2>4, <1>1 DEF Counting!StackTypeOK, Counting!Nodes, Nodes
<1>8. CountingLocal(t)'
  BY <1>2 DEF CountingLocal
<1>9. \A u \in Thread \ {t} : Reading(u) /\ old[u] # NoNode =>
            /\ old[u] \in live' /\ old[u] \notin Doomed(t)'
            /\ old[u] \in Linked' => old[u] \in Linked /\ next'[old[u]] = next[old[u]]
  BY <1>1, <1>3, <1>4 DEF Spared, NotDoomed
<1>10. /\ Linked' \cap Counting!Pending' = {}
       /\ CountingHand(t)' \cap (Linked' \cup Counting!Pending') = {}
       /\ InReach(t)' = InReach(t) /\ live' = (live \ InReach(t)) \cup InReach(t)'
       /\ Counting!Claimed(t)' \cap Counting!Taken(t)' = {}
  <2>1. Counting!Claimed(t) \subseteq CountingHand(t)
    BY DEF CountingHand
  <2> QED BY <2>1, <1>1, <1>3, <1>4, <1>6, ChainFacts DEF InReach, CountingKeeper
<1>11. \A k \in Linked' : data'[k] \in Value
  BY <1>1, <1>3 DEF CountingHolding
<1> DEFINE X == {}
<1>12. /\ X \in SUBSET Node
       /\ \A k \in Node \ X : next'[k] = next[k] /\ data'[k] = data[k]
       /\ \A u \in Thread \ {t} : CountingHand(u) \cap X = {}
       /\ \A u \in Thread \ {t} : /\ pc'[u] = pc[u] /\ old'[u] = old[u] /\ nxt'[u] = nxt[u]
                                   /\ first'[u] = first[u] /\ last'[u] = last[u] /\ mine'[u] = mine[u]
  BY <1>1, <1>2
<1>13. /\ mine'[t] # NoNode <=> pc'[t] = "push"
       /\ mine'[t] # NoNode => data'[mine'[t]] \in Value /\ (mine'[t] = mine[t] \/ mine'[t] \notin live)
       /\ InReach(t)' \subseteq InReach(t) \cup (Node \ live)
  BY <1>1, <1>2, <1>10
<1> HIDE DEF X, CInv, Counting!TypeOK, StackTypeOK
<1> QED BY <1>3, <1>4, <1>5, <1>7, <1>8, <1>9, <1>10, <1>11, <1>12, <1>13, CountingMoves, ZenonT(60)

\* delete_nodes, one node at a time: the list goes on without its first node.
LEMMA ListWithoutFirst ==
  ASSUME CInv, NEW n \in Node, Listed(Counting!Path(next, n, NoNode), n, NoNode)
  PROVE  Counting!Path(next, next[n], NoNode) = Counting!Path(next, n, NoNode) \ {n}
<1> DEFINE P == Counting!Path(next, n, NoNode)
           R == Counting!Path(next, next[n], NoNode)
<1>1. next \in [Node -> Nodes] /\ next[n] \in Nodes /\ n \in Nodes /\ n # NoNode
  BY ChainFacts, NullsDistinct DEF Nodes
<1>2. P = {n} \cup R
  BY <1>1, ChainFacts, PathStep
<1>3. P \subseteq Node /\ n \in P /\ \A k \in P : next[k] # NoNode => next[k] \in P
  BY <1>1, PathHas, NullsDistinct
<1>4. \A k \in P : next[k] # n
  BY <1>3, NullsDistinct DEF Listed
<1> DEFINE S == P \ {n}
<1>5. /\ S \in SUBSET Node /\ (next[n] # NoNode => next[n] \in S)
      /\ \A k \in S : next[k] # NoNode => next[k] \in S
  BY <1>3, <1>4
<1> HIDE DEF S
<1>6. R \subseteq S
  BY <1>5, PathLeast
<1> QED BY <1>2, <1>6 DEF S

LEMMA CountingDeleteNodesKeeps ==
  ASSUME CInv, Counting!Running, NEW t \in Thread, Counting!DeleteNodes(t)
  PROVE  CInv'
<1> USE SameStack, SameLinked, SameCardinality
        DEF CInv, Counting!TypeOK, StackTypeOK, Counting!Goto, Counting!nodes, Counting!popping
<1> DEFINE n == first[t]
<1>1. /\ pc[t] = "delete_nodes" /\ first' = [first EXCEPT ![t] = next[n]]
      /\ live' = live \ {n}
      /\ next' = [k \in Node |-> IF k = n THEN NoNode ELSE next[k]]
      /\ data' = [k \in Node |-> IF k = n THEN NoValue ELSE data[k]]
      /\ IF next[n] = NoNode
         THEN last' = [last EXCEPT ![t] = NoNode] /\ pc' = [pc EXCEPT ![t] = "delete"]
         ELSE last' = last /\ pc' = pc
      /\ UNCHANGED <<head, mine, old, nxt, stack, to_be_deleted, threads_in_pop>>
  BY DEF Counting!DeleteNodes, Counting!Delete
<1>2. /\ n \in Node /\ n # NoNode /\ next[n] \in Nodes /\ n \in Counting!Taken(t)
      /\ Counting!Taken(t) = Counting!Path(next, n, NoNode)
      /\ n \in CountingHand(t) /\ n \in live
  BY <1>1, ChainFacts DEF CountingLocals, CountingLocal, Nodes, Counting!Taken, Counting!Stop, CountingHand
<1>3. /\ \A u \in Thread \ {t} : /\ pc'[u] = pc[u] /\ first'[u] = first[u] /\ last'[u] = last[u]
                                 /\ CountingHand(u) \cap {n} = {}
      /\ first'[t] = next[n] /\ mine[t] = NoNode
      /\ pc'[t] = IF next[n] = NoNode THEN "delete" ELSE "delete_nodes"
      /\ \A k \in Node \ {n} : next'[k] = next[k] /\ data'[k] = data[k]
      /\ n \notin Linked /\ n \notin Counting!Pending
  BY <1>1, <1>2 DEF MineOK, CountingKeeper
<1>4. ListIsStack' /\ Linked' = Linked
  <2>1. \A k \in Linked : next'[k] = next[k]
    BY <1>3, ChainFacts
  <2> QED BY <2>1, <1>1, ListKept
<1>5. StackTypeOK' /\ next' \in [Node -> Nodes]
  <2>1. next' \in [Node -> Nodes] /\ data' \in [Node -> Value \cup {NoValue}]
    BY <1>1 DEF Nodes
  <2> QED BY <2>1, <1>1 DEF Nodes
<1>6. Counting!Pending' = Counting!Pending /\ Listed(Counting!Pending, to_be_deleted, NoNode)'
  BY <1>1, <1>3, <1>5, ChainFacts, PendingKept
<1>7. Listed(Counting!Taken(t), n, NoNode)
  BY <1>1 DEF Lists, Counting!Stop
<1>8. Counting!Taken(t)' = Counting!Taken(t) \ {n}
  <2>1. Counting!Path(next, next[n], NoNode) = Counting!Taken(t) \ {n}
    BY <1>2, <1>7, ListWithoutFirst
  <2>2. \A k \in Counting!Taken(t) \ {n} : next'[k] = next[k]
    BY <1>2, <1>3, ChainFacts, PathHas
  <2>3. Counting!Path(next', next[n], NoNode) = Counting!Taken(t) \ {n}
    <3>1. next \in [Node -> Nodes] /\ next[n] \in Nodes
          /\ \A k \in Counting!Path(next, next[n], NoNode) : k # NoNode => next'[k] = next[k]
      BY <2>1, <2>2, <1>2, ChainFacts
    <3> HIDE DEF n, CInv
    <3>2. Counting!Path(next', next[n], NoNode) = Counting!Path(next, next[n], NoNode)
      BY <3>1, <1>5, PathKept
    <3> QED BY <3>2, <2>1
  <2>4. CASE next[n] = NoNode
    <3>1. Counting!Path(next', next[n], NoNode) = {}
      BY <2>4, PathOfNone
    <3> QED BY <3>1, <2>3, <2>4, <1>3 DEF Counting!Taken
  <2>5. CASE next[n] # NoNode
    BY <2>3, <2>5, <1>3 DEF Counting!Taken, Counting!Stop
  <2> QED BY <2>4, <2>5
<1>9. /\ Counting!Claimed(t)' = Counting!Claimed(t) /\ Doomed(t)' \subseteq Doomed(t)
      /\ n \in Doomed(t) /\ ~Reading(t)' /\ Counting!Stop(t)' = NoNode
      /\ CountingHand(t)' = CountingHand(t) \ {n}
  <2>1. /\ Counting!Claimed(t)' = Counting!Claimed(t) /\ ~Reading(t)' /\ Counting!Stop(t)' = NoNode
        /\ n \notin Counting!Claimed(t)
    BY <1>1, <1>2, <1>3 DEF Counting!Claimed, Reading, Counting!Stop, CountingKeeper
  <2> QED BY <2>1, <1>1, <1>2, <1>3, <1>8 DEF Doomed, CountingHand
<1>10. Listed(Counting!Taken(t), first[t], Counting!Stop(t))'
  <2>1. Counting!Taken(t) \subseteq Node
    BY <1>2, ChainFacts, PathHas
  <2>2. \A k \in Counting!Taken(t) \ {n} : k # NoNode /\ next'[k] = next[k] /\ next[k] # next[n]
    <3> TAKE k \in Counting!Taken(t) \ {n}
    <3>1. k # NoNode /\ next'[k] = next[k] /\ k \in Node
      BY <2>1, <1>3, NullsDistinct
    <3>2. next[n] # NoNode => next[k] # next[n]
      BY <3>1, <1>2, <1>7 DEF Listed
    <3>3. next[n] # NoNode
      BY <1>8, <1>3 DEF Counting!Taken
    <3> QED BY <3>1, <3>2, <3>3
  <2> QED BY <2>2, <1>3, <1>7, <1>8, <1>9 DEF Listed
<1>11. Counting!TypeOK'
  <2>1. Counting!Counted' = Counting!Counted /\ Counting!Running'
    BY <1>1, <1>3 DEF Counting!Counted, Counting!Running
  <2>2. pc' \in [Thread -> Counting!PCs]
    BY <1>1 DEF Counting!PCs
  <2>3. first' \in [Thread -> Counting!Nodes] /\ last' \in [Thread -> Counting!Nodes]
    BY <1>1, <1>2 DEF Counting!Nodes, Nodes
  <2>4. \A u \in Thread : pc'[u] = "swap" => u # t /\ old[u] \in CountingHand(u) /\ old[u] \in Node
    BY <1>1, <1>3, ChainFacts DEF Counting!Claimed, CountingHand, CountingLocals, CountingLocal, Nodes
  <2>5. \A u \in Thread : pc'[u] = "swap" => data'[old'[u]] \in Value
    BY <2>4, <1>1, <1>3
  <2> QED BY <2>1, <2>2, <2>3, <2>5, <1>1, <1>5 DEF Counting!StackTypeOK, Counting!Nodes, Nodes
<1>12. CountingLocal(t)'
  BY <1>3 DEF CountingLocal
<1>13. \A u \in Thread \ {t} : Reading(u) /\ old[u] # NoNode =>
            /\ old[u] \in live' /\ old[u] \notin Doomed(t)'
            /\ old[u] \in Linked' => old[u] \in Linked /\ next'[old[u]] = next[old[u]]
  <2> TAKE u \in Thread \ {t}
  <2> HAVE Reading(u) /\ old[u] # NoNode
  <2>1. old[u] \in live /\ old[u] \notin Doomed(t) /\ old[u] \in Node
    BY ChainFacts DEF Spared, NotDoomed
  <2> QED BY <2>1, <1>1, <1>3, <1>4, <1>9
<1>14. /\ Linked' \cap Counting!Pending' = {}
       /\ CountingHand(t)' \cap (Linked' \cup Counting!Pending') = {}
       /\ InReach(t)' = InReach(t) \ {n} /\ live' = (live \ InReach(t)) \cup InReach(t)'
       /\ Counting!Claimed(t)' \cap Counting!Taken(t)' = {}
  BY <1>1, <1>2, <1>3, <1>4, <1>6, <1>8, <1>9, ChainFacts DEF InReach, CountingKeeper
<1>15. \A k \in Linked' : data'[k] \in Value
  BY <1>3, <1>4, ChainFacts DEF CountingHolding
<1> DEFINE X == {n}
<1>16. /\ X \in SUBSET Node
       /\ \A k \in Node \ X : next'[k] = next[k] /\ data'[k] = data[k]
       /\ \A u \in Thread \ {t} : CountingHand(u) \cap X = {}
       /\ \A u \in Thread \ {t} : /\ pc'[u] = pc[u] /\ old'[u] = old[u] /\ nxt'[u] = nxt[u]
                                   /\ first'[u] = first[u] /\ last'[u] = last[u] /\ mine'[u] = mine[u]
  BY <1>1, <1>2, <1>3
<1>17. /\ mine'[t] # NoNode <=> pc'[t] = "push"
       /\ mine'[t] # NoNode => data'[mine'[t]] \in Value /\ (mine'[t] = mine[t] \/ mine'[t] \notin live)
       /\ InReach(t)' \subseteq InReach(t) \cup (Node \ live)
  BY <1>1, <1>3, <1>14
<1> HIDE DEF X, n, CInv, Counting!TypeOK, StackTypeOK
<1> QED BY <1>4, <1>6, <1>9, <1>10, <1>11, <1>12, <1>13, <1>14, <1>15, <1>16, <1>17, CountingMoves, ZenonT(60)

\* "delete old_head", or nothing when the pop had found no node.
LEMMA CountingDeleteOwnKeeps ==
  ASSUME CInv, Counting!Running, NEW t \in Thread, Counting!DeleteOwn(t)
  PROVE  CInv'
<1> USE SameStack, SameLinked, SameCardinality
        DEF CInv, Counting!TypeOK, StackTypeOK, Counting!Goto, Counting!nodes, Counting!popping
<1> DEFINE X == {old[t]} \ {NoNode}
<1>1. /\ pc[t] = "delete" /\ pc' = [pc EXCEPT ![t] = "idle"]
      /\ old' = [old EXCEPT ![t] = NoNode] /\ first' = [first EXCEPT ![t] = NoNode]
      /\ last' = [last EXCEPT ![t] = NoNode]
      /\ live' = live \ {old[t]}
      /\ next' = [k \in Node |-> IF k = old[t] THEN NoNode ELSE next[k]]
      /\ data' = [k \in Node |-> IF k = old[t] THEN NoValue ELSE data[k]]
      /\ UNCHANGED <<head, mine, nxt, stack, to_be_deleted, threads_in_pop>>
  BY DEF Counting!DeleteOwn, Counting!Delete
<1>2. /\ X \in SUBSET Node /\ CountingHand(t) = X /\ Counting!Claimed(t) = X /\ Doomed(t) = X
      /\ Counting!Taken(t) = {} /\ mine[t] = NoNode /\ live' = live \ X
  <2>1. mine[t] = NoNode
    BY <1>1 DEF MineOK
  <2>2. X \in SUBSET Node /\ NoNode \notin live
    BY ChainFacts, NullsDistinct DEF Nodes
  <2> QED BY <2>1, <2>2, <1>1 DEF Counting!Claimed, Counting!Taken, CountingHand, Doomed
<1>3. /\ \A u \in Thread \ {t} : /\ pc'[u] = pc[u] /\ first'[u] = first[u] /\ last'[u] = last[u]
                                 /\ old'[u] = old[u] /\ CountingHand(u) \cap X = {}
      /\ pc'[t] = "idle"
      /\ \A k \in Node \ X : next'[k] = next[k] /\ data'[k] = data[k]
      /\ Linked \cap X = {} /\ Counting!Pending \cap X = {}
  <2>1. \A k \in Node \ X : k # old[t]
    BY NullsDistinct
  <2> QED BY <2>1, <1>1, <1>2 DEF CountingKeeper
<1>4. ListIsStack' /\ Linked' = Linked
  <2>1. \A k \in Linked : next'[k] = next[k]
    BY <1>3, ChainFacts
  <2> QED BY <2>1, <1>1, ListKept
<1>5. StackTypeOK' /\ next' \in [Node -> Nodes]
  <2>1. next' \in [Node -> Nodes] /\ data' \in [Node -> Value \cup {NoValue}]
    BY <1>1 DEF Nodes
  <2> QED BY <2>1, <1>1 DEF Nodes
<1>6. Counting!Pending' = Counting!Pending /\ Listed(Counting!Pending, to_be_deleted, NoNode)'
  <2>1. \A k \in Counting!Pending : next'[k] = next[k]
    BY <1>3, ChainFacts
  <2> QED BY <2>1, <1>1, <1>5, PendingKept
<1>7. /\ Counting!Claimed(t)' = {} /\ Counting!Taken(t)' = {} /\ CountingHand(t)' = {}
      /\ Doomed(t)' = {} /\ ~Reading(t)'
  BY <1>1, <1>2, <1>3 DEF Counting!Claimed, Counting!Taken, CountingHand, Doomed, Reading
<1>8. Counting!TypeOK'
  <2>1. Counting!Counted' = Counting!Counted /\ Counting!Running'
    BY <1>1, <1>3 DEF Counting!Counted, Counting!Running
  <2>2. pc' \in [Thread -> Counting!PCs]
    BY <1>1 DEF Counting!PCs
  <2>3. first' \in [Thread -> Counting!Nodes] /\ last' \in [Thread -> Counting!Nodes]
    BY <1>1 DEF Counting!Nodes
  <2>4. \A u \in Thread : pc'[u] = "swap" => u # t /\ old[u] \in CountingHand(u) /\ old[u] \in Node
    BY <1>1, <1>3, ChainFacts DEF Counting!Claimed, CountingHand, CountingLocals, CountingLocal, Nodes
  <2>5. \A u \in Thread : pc'[u] = "swap" => data'[old'[u]] \in Value
    BY <2>4, <1>1, <1>3
  <2> QED BY <2>1, <2>2, <2>3, <2>5, <1>1, <1>5 DEF Counting!StackTypeOK, Counting!Nodes, Nodes
<1>9. CountingLocal(t)' /\ Listed(Counting!Taken(t), first[t], Counting!Stop(t))'
  BY <1>3, <1>7 DEF CountingLocal, Listed
<1>10. \A u \in Thread \ {t} : Reading(u) /\ old[u] # NoNode =>
            /\ old[u] \in live' /\ old[u] \notin Doomed(t)'
            /\ old[u] \in Linked' => old[u] \in Linked /\ next'[old[u]] = next[old[u]]
  <2> TAKE u \in Thread \ {t}
  <2> HAVE Reading(u) /\ old[u] # NoNode
  <2>1. old[u] \in live /\ old[u] \notin X /\ old[u] \in Node
    BY <1>2, ChainFacts DEF Spared, NotDoomed
  <2> QED BY <2>1, <1>2, <1>3, <1>4, <1>7
<1>11. /\ Linked' \cap Counting!Pending' = {}
       /\ CountingHand(t)' \cap (Linked' \cup Counting!Pending') = {}
       /\ InReach(t)' = InReach(t) \ X /\ live' = (live \ InReach(t)) \cup InReach(t)'
       /\ Counting!Claimed(t)' \cap Counting!Taken(t)' = {}
  BY <1>2, <1>3, <1>4, <1>6, <1>7, ChainFacts DEF InReach, CountingKeeper
<1>12. \A k \in Linked' : data'[k] \in Value
  BY <1>3, <1>4, ChainFacts DEF CountingHolding
<1>13. \A u \in Thread \ {t} : /\ pc'[u] = pc[u] /\ old'[u] = old[u] /\ nxt'[u] = nxt[u]
                               /\ first'[u] = first[u] /\ last'[u] = last[u] /\ mine'[u] = mine[u]
                               /\ CountingHand(u) \cap X = {}
  BY <1>1, <1>3
<1>14. /\ mine'[t] # NoNode <=> pc'[t] = "push"
       /\ mine'[t] # NoNode => data'[mine'[t]] \in Value /\ (mine'[t] = mine[t] \/ mine'[t] \notin live)
       /\ InReach(t)' \subseteq InReach(t) \cup (Node \ live)
  BY <1>1, <1>2, <1>3, <1>11
<1> HIDE DEF X, CInv, Counting!TypeOK, StackTypeOK
<1> QED BY <1>2, <1>3, <1>4, <1>6, <1>7, <1>8, <1>9, <1>10, <1>11, <1>12, <1>13, <1>14, CountingMoves, ZenonT(60)

\* "last->next = to_be_deleted", and what a failed exchange does to it.
LEMMA CountingLinkKeeps ==
  ASSUME CInv, Counting!Running, NEW t \in Thread, Counting!Link(t) \/ Counting!SpliceFails(t)
  PROVE  CInv'
<1> USE SameStack, SameLinked, SameCardinality
        DEF CInv, Counting!TypeOK, StackTypeOK, Counting!Goto, Counting!nodes, Counting!popping,
            Counting!reclaiming
<1> DEFINE e == last[t]
<1>1. /\ pc[t] \in {"link", "splice"} /\ pc' = [pc EXCEPT ![t] = "splice"]
      /\ next' = [next EXCEPT ![e] = to_be_deleted]
      /\ pc[t] = "link" => e # NoNode
      /\ UNCHANGED <<head, data, live, mine, old, nxt, stack, to_be_deleted, threads_in_pop, first, last>>
  BY DEF Counting!Link, Counting!SpliceFails
<1>2. /\ CountingLocal(t) /\ first[t] \in Nodes /\ next \in [Node -> Nodes]
      /\ Listed(Counting!Taken(t), first[t], Counting!Stop(t))
      /\ to_be_deleted \in Nodes /\ mine[t] = NoNode
  BY <1>1, ChainFacts DEF CountingLocals, Lists, MineOK
<1>3. e # NoNode /\ e \in Node /\ e \in CountingHand(t)
  <2>1. e # NoNode
    <3>1. CASE first[t] = old[t]
      BY <3>1, <1>1, <1>2 DEF CountingLocal
    <3>2. CASE first[t] # old[t]
      BY <3>2, <1>1, <1>2, PathHas, NullsDistinct DEF CountingLocal, Counting!Taken
    <3> QED BY <3>1, <3>2
  <2> QED BY <2>1, <1>1, ChainFacts DEF Nodes
<1>4. /\ \A u \in Thread \ {t} : pc'[u] = pc[u] /\ CountingHand(u) \cap {e} = {}
      /\ pc'[t] = "splice"
      /\ \A k \in Node \ {e} : next'[k] = next[k]
      /\ e \notin Linked /\ e \notin Counting!Pending
  BY <1>1, <1>3 DEF CountingKeeper
<1>5. StackTypeOK' /\ next' \in [Node -> Nodes]
  <2>1. next' \in [Node -> Nodes]
    BY <1>1, <1>2
  <2> QED BY <2>1, <1>1 DEF Nodes
<1>6. ListIsStack' /\ Linked' = Linked
  <2>1. \A k \in Linked : next'[k] = next[k]
    BY <1>4, ChainFacts
  <2> QED BY <2>1, <1>1, ListKept
<1>7. Counting!Pending' = Counting!Pending /\ Listed(Counting!Pending, to_be_deleted, NoNode)'
  <2>1. \A k \in Counting!Pending : next'[k] = next[k]
    BY <1>4, ChainFacts
  <2> QED BY <2>1, <1>1, <1>5, PendingKept
<1>8. /\ Counting!Taken(t)' = Counting!Taken(t)
      /\ first[t] # old[t] => Counting!Taken(t) = Counting!Path(next, first[t], e)
  <2>1. CASE first[t] = old[t]
    BY <2>1, <1>1, <1>4 DEF Counting!Taken
  <2>2. CASE first[t] # old[t]
    <3>1. Counting!Taken(t) = Counting!Path(next, first[t], e)
      <4>1. CASE pc[t] = "splice"
        BY <4>1, <2>2 DEF Counting!Taken, Counting!Stop
      <4>2. CASE pc[t] = "link"
        <5>1. /\ Counting!Taken(t) = Counting!Path(next, first[t], NoNode)
              /\ e \in Counting!Path(next, first[t], NoNode) /\ next[e] = NoNode
          BY <4>2, <2>2, <1>2 DEF Counting!Taken, Counting!Stop, CountingLocal
        <5> HIDE DEF CInv, e
        <5> QED BY <5>1, <1>2, PathEnds
      <4> QED BY <4>1, <4>2, <1>1
    <3>2. \A k \in Counting!Path(next, first[t], e) : k # e => next'[k] = next[k]
      BY <1>2, <1>4, PathHas
    <3>3. Counting!Taken(t)' = Counting!Path(next', first[t], e)
      BY <2>2, <1>1, <1>4 DEF Counting!Taken, Counting!Stop
    <3>4. Counting!Path(next', first[t], e) = Counting!Path(next, first[t], e)
      <4> HIDE DEF CInv, e
      <4> QED BY <3>2, <1>2, <1>5, PathKept
    <3> QED BY <3>1, <3>3, <3>4
  <2> QED BY <2>1, <2>2
<1>9. /\ Counting!Claimed(t)' = Counting!Claimed(t) /\ CountingHand(t)' = CountingHand(t)
      /\ Doomed(t)' = Doomed(t) /\ ~Reading(t)' /\ Counting!Stop(t)' = e
  BY <1>1, <1>4, <1>8 DEF Counting!Claimed, CountingHand, Doomed, Reading, Counting!Stop
<1>10. Listed(Counting!Taken(t), first[t], Counting!Stop(t))'
  <2>1. CASE first[t] = old[t]
    BY <2>1, <1>1, <1>8 DEF Counting!Taken, Listed
  <2>2. CASE first[t] # old[t]
    <3>1. Counting!Taken(t) \subseteq Node
      BY <2>2, <1>2, <1>8, PathHas
    <3>2. \A k \in Counting!Taken(t) \ {e} : k \in Counting!Taken(t) \ {Counting!Stop(t)} /\ next'[k] = next[k]
      BY <3>1, <1>4, NullsDistinct DEF Counting!Stop
    <3> QED BY <3>2, <1>1, <1>2, <1>8, <1>9 DEF Listed
  <2> QED BY <2>1, <2>2
<1>11. CountingLocal(t)'
  <2>1. first[t] # NoNode
    <3>1. CASE first[t] = old[t]
      BY <3>1, <1>1, <1>2, <1>3 DEF CountingLocal
    <3>2. CASE first[t] # old[t]
      <4>1. e \in Counting!Taken(t) /\ \A stop : Counting!Path(next, NoNode, stop) = {}
        BY <3>2, <1>1, <1>2, PathOfNone DEF CountingLocal
      <4> QED BY <4>1, <1>8, <3>2
    <3> QED BY <3>1, <3>2
  <2> QED BY <2>1, <1>1, <1>2, <1>4, <1>8 DEF CountingLocal
<1>12. Counting!TypeOK'
  <2>1. Counting!Counted' = Counting!Counted /\ Counting!Running'
    BY <1>1 DEF Counting!Counted, Counting!Running
  <2>2. pc' \in [Thread -> Counting!PCs]
    BY <1>1 DEF Counting!PCs
  <2>3. \A u \in Thread : pc'[u] = "swap" => data'[old'[u]] \in Value
    BY <1>1
  <2> QED BY <2>1, <2>2, <2>3, <1>1, <1>5 DEF Counting!StackTypeOK, Counting!Nodes, Nodes
<1>13. \A u \in Thread \ {t} : Reading(u) /\ old[u] # NoNode =>
            /\ old[u] \in live' /\ old[u] \notin Doomed(t)'
            /\ old[u] \in Linked' => old[u] \in Linked /\ next'[old[u]] = next[old[u]]
  <2> TAKE u \in Thread \ {t}
  <2> HAVE Reading(u) /\ old[u] # NoNode
  <2>1. old[u] \in live /\ old[u] \notin Doomed(t) /\ old[u] \in Node
    BY ChainFacts DEF Spared, NotDoomed
  <2> QED BY <2>1, <1>1, <1>4, <1>6, <1>9
<1>14. /\ Linked' \cap Counting!Pending' = {}
       /\ CountingHand(t)' \cap (Linked' \cup Counting!Pending') = {}
       /\ InReach(t)' = InReach(t) /\ live' = (live \ InReach(t)) \cup InReach(t)'
       /\ Counting!Claimed(t)' \cap Counting!Taken(t)' = {}
  BY <1>1, <1>6, <1>7, <1>8, <1>9, ChainFacts DEF InReach, CountingKeeper
<1>15. \A k \in Linked' : data'[k] \in Value
  BY <1>1, <1>6 DEF CountingHolding
<1> DEFINE X == {e}
<1>16. /\ X \in SUBSET Node
       /\ \A k \in Node \ X : next'[k] = next[k] /\ data'[k] = data[k]
       /\ \A u \in Thread \ {t} : CountingHand(u) \cap X = {}
       /\ \A u \in Thread \ {t} : /\ pc'[u] = pc[u] /\ old'[u] = old[u] /\ nxt'[u] = nxt[u]
                                   /\ first'[u] = first[u] /\ last'[u] = last[u] /\ mine'[u] = mine[u]
  BY <1>1, <1>3, <1>4
<1>17. /\ mine'[t] # NoNode <=> pc'[t] = "push"
       /\ mine'[t] # NoNode => data'[mine'[t]] \in Value /\ (mine'[t] = mine[t] \/ mine'[t] \notin live)
       /\ InReach(t)' \subseteq InReach(t) \cup (Node \ live)
  BY <1>1, <1>2, <1>4, <1>14
<1> HIDE DEF X, e, CInv, Counting!TypeOK, StackTypeOK
<1> QED BY <1>6, <1>7, <1>9, <1>10, <1>11, <1>12, <1>13, <1>14, <1>15, <1>16, <1>17, CountingMoves, ZenonT(60)

\* The exchange on to_be_deleted succeeds: the nodes of first, up to last, are pending.
LEMMA CountingSpliceKeeps ==
  ASSUME CInv, Counting!Running, NEW t \in Thread, Counting!Splice(t)
  PROVE  CInv'
<1> USE SameStack, SameLinked, SameCardinality
        DEF CInv, Counting!TypeOK, StackTypeOK, Counting!Goto, Counting!nodes, Counting!popping
<1> DEFINE e == last[t]
           f == first[t]
           P == Counting!Path(next, f, e)
           Q == Counting!Pending
<1>1. /\ pc[t] = "splice" /\ to_be_deleted = next[e] /\ to_be_deleted' = f
      /\ pc' = [pc EXCEPT ![t] = IF f = old[t] THEN "depart" ELSE "delete"]
      /\ UNCHANGED <<head, next, data, live, mine, old, nxt, stack, threads_in_pop, first, last>>
  BY DEF Counting!Splice
<1>2. /\ f \in Node /\ f # NoNode /\ next \in [Node -> Nodes] /\ to_be_deleted \in Nodes
      /\ CountingLocal(t) /\ mine[t] = NoNode
  BY <1>1, ChainFacts DEF CountingLocals, CountingLocal, MineOK, Nodes
<1>3. /\ P \subseteq Node /\ f \in P /\ e \in P
      /\ \A k \in P \ {e} : next[k] # NoNode => next[k] \in P
      /\ Q \subseteq Node /\ (to_be_deleted # NoNode => to_be_deleted \in Q)
      /\ \A k \in Q : next[k] # NoNode => next[k] \in Q
  <2>1. f \in Nodes
    BY <1>2 DEF Nodes
  <2>2. e \in P
    <3>1. CASE f = old[t]
      BY <3>1, <1>1, <1>2, PathToItself DEF CountingLocal
    <3>2. CASE f # old[t]
      BY <3>2, <1>1, <1>2 DEF CountingLocal, Counting!Taken, Counting!Stop
    <3> QED BY <3>1, <3>2
  <2>3. /\ P \subseteq Node /\ f \in P
        /\ \A k \in P \ {e} : next[k] # NoNode => next[k] \in P
    BY <2>1, <1>2, PathHas
  <2>4. /\ Q \subseteq Node /\ (to_be_deleted # NoNode => to_be_deleted \in Q)
        /\ \A k \in Q : next[k] # NoNode => next[k] \in Q
    <3>1. Q = Counting!Path(next, to_be_deleted, NoNode)
      BY DEF Counting!Pending
    <3> HIDE DEF CInv, Q
    <3> QED BY <3>1, <1>2, PathHas, NullsDistinct
  <2> QED BY <2>2, <2>3, <2>4
<1>4. /\ f = old[t] => P = {f} /\ Counting!Claimed(t) = {f} /\ Counting!Taken(t) = {}
      /\ f # old[t] => Counting!Taken(t) = P
      /\ CountingHand(t) = Counting!Claimed(t) \cup P
  <2>1. CASE f = old[t]
    <3>1. e = f /\ Counting!Claimed(t) = {f} /\ Counting!Taken(t) = {}
      BY <2>1, <1>1, <1>2 DEF CountingLocal, Counting!Claimed, Counting!Taken
    <3> QED BY <3>1, <2>1, <1>2, PathToItself DEF CountingHand
  <2>2. CASE f # old[t]
    BY <2>2, <1>1, <1>2 DEF Counting!Taken, Counting!Stop, CountingHand
  <2> QED BY <2>1, <2>2
<1>5. P \cap Q = {} /\ P \cap Linked = {} /\ Q \cap Linked = {}
  BY <1>4 DEF CountingKeeper
<1>6. Counting!Pending' = P \cup Q
  <2>1. Counting!Pending' = Counting!Path(next, f, NoNode)
    BY <1>1 DEF Counting!Pending
  <2>2. f \in Nodes /\ e \in Counting!Path(next, f, e) /\ Q = Counting!Path(next, next[e], NoNode)
    BY <1>1, <1>2, <1>3 DEF Nodes, Counting!Pending
  <2> HIDE DEF CInv, e, f, Q
  <2> QED BY <2>1, <2>2, <1>2, PathThrough
<1>7. Listed(P \cup Q, f, NoNode)
  <2>1. Listed(P, f, e)
    <3>1. CASE f = old[t]
      BY <3>1, <1>3, <1>4 DEF Listed
    <3>2. CASE f # old[t]
      BY <3>2, <1>1, <1>4 DEF Lists, Counting!Stop
    <3> QED BY <3>1, <3>2
  <2>2. Listed(Q, next[e], NoNode)
    BY <1>1 DEF Lists
  <2>3. NoNode \notin P \cup Q
    BY <1>3, NullsDistinct
  <2>4. ASSUME NEW k \in P \cup Q PROVE next[k] # f
    <3>1. CASE k \in P \ {e}
      BY <3>1, <2>1 DEF Listed
    <3>2. CASE k \in Q \cup {e}
      <4>1. next[k] # NoNode => next[k] \in Q
        BY <3>2, <1>1, <1>3
      <4> QED BY <4>1, <1>2, <1>3, <1>5
    <3> QED BY <3>1, <3>2
  <2>5. ASSUME NEW k \in P \cup Q, NEW l \in P \cup Q, next[k] # NoNode, next[l] = next[k]
        PROVE  l = k
    <3>1. CASE k \in P \ {e} /\ l \in P \ {e}
      BY <3>1, <2>1, <2>5 DEF Listed
    <3>2. CASE k \in P \ {e} /\ l \in Q \cup {e}
      BY <3>2, <2>5, <1>1, <1>3, <1>5
    <3>3. CASE l \in P \ {e} /\ k \in Q \cup {e}
      BY <3>3, <2>5, <1>1, <1>3, <1>5
    <3>4. CASE k \in Q /\ l \in Q
      BY <3>4, <2>2, <2>3, <2>5 DEF Listed
    <3>5. CASE (k = e /\ l \in Q) \/ (l = e /\ k \in Q)
      BY <3>5, <2>2, <2>3, <2>5 DEF Listed
    <3> QED BY <3>1, <3>2, <3>3, <3>4, <3>5
  <2> HIDE DEF P, Q, f
  <2> QED BY <2>4, <2>5 DEF Listed
<1>8. /\ \A u \in Thread \ {t} : pc'[u] = pc[u]
      /\ pc'[t] = IF f = old[t] THEN "depart" ELSE "delete"
  BY <1>1
<1>9. /\ Counting!Taken(t)' = {} /\ ~Reading(t)' /\ Doomed(t)' = Doomed(t)
      /\ Counting!Claimed(t)' = Counting!Claimed(t) \ P
      /\ CountingHand(t)' = CountingHand(t) \ P
  <2>1. CASE f = old[t]
    BY <2>1, <1>1, <1>2, <1>4, <1>8
       DEF Counting!Taken, Reading, Doomed, Counting!Claimed, CountingHand
  <2>2. CASE f # old[t]
    <3>1. Counting!Taken(t)' = {} /\ ~Reading(t)' /\ Doomed(t)' = Doomed(t)
          /\ Counting!Claimed(t)' = Counting!Claimed(t)
      BY <2>2, <1>1, <1>2, <1>8 DEF Counting!Taken, Reading, Doomed, Counting!Claimed
    <3>2. Counting!Claimed(t) \cap P = {}
      BY <2>2, <1>4 DEF CountingKeeper
    <3> QED BY <3>1, <3>2, <1>1, <1>2, <1>4 DEF CountingHand
  <2> QED BY <2>1, <2>2
<1>10. ListIsStack' /\ Linked' = Linked
  BY <1>1, ListKept
<1>11. Counting!TypeOK'
  <2>1. Counting!Counted' = Counting!Counted /\ Counting!Running'
    BY <1>1 DEF Counting!Counted, Counting!Running
  <2>2. pc' \in [Thread -> Counting!PCs]
    BY <1>1 DEF Counting!PCs
  <2>3. \A u \in Thread : pc'[u] = "swap" => data'[old'[u]] \in Value
    BY <1>1
  <2> QED BY <2>1, <2>2, <2>3, <1>1 DEF Counting!StackTypeOK, Counting!Nodes, Nodes
<1>12. CountingLocal(t)' /\ Listed(Counting!Taken(t), first[t], Counting!Stop(t))'
  BY <1>8, <1>9 DEF CountingLocal, Listed
<1>13. \A u \in Thread \ {t} : Reading(u) /\ old[u] # NoNode =>
            /\ old[u] \in live' /\ old[u] \notin Doomed(t)'
            /\ old[u] \in Linked' => old[u] \in Linked /\ next'[old[u]] = next[old[u]]
  BY <1>1, <1>9, <1>10 DEF Spared, NotDoomed
<1>14. /\ Linked' \cap Counting!Pending' = {}
       /\ CountingHand(t)' \cap (Linked' \cup Counting!Pending') = {}
       /\ InReach(t)' = InReach(t) /\ live' = (live \ InReach(t)) \cup InReach(t)'
       /\ Counting!Claimed(t)' \cap Counting!Taken(t)' = {}
  <2>1. CountingHand(t) \cap (Linked \cup Q) = {} /\ Linked \subseteq live /\ Q \subseteq live
        /\ CountingHand(t) \subseteq live /\ P \subseteq CountingHand(t)
    BY <1>4, ChainFacts DEF CountingKeeper
  <2> HIDE DEF P, Q
  <2> QED BY <2>1, <1>1, <1>5, <1>6, <1>9, <1>10 DEF InReach, Q
<1>15. Listed(Counting!Pending, to_be_deleted, NoNode)'
  BY <1>1, <1>6, <1>7 DEF Listed
<1>16. \A k \in Linked' : data'[k] \in Value
  BY <1>1, <1>10 DEF CountingHolding
<1> DEFINE X == {}
<1>17. /\ X \in SUBSET Node
       /\ \A k \in Node \ X : next'[k] = next[k] /\ data'[k] = data[k]
       /\ \A u \in Thread \ {t} : CountingHand(u) \cap X = {}
       /\ \A u \in Thread \ {t} : /\ pc'[u] = pc[u] /\ old'[u] = old[u] /\ nxt'[u] = nxt[u]
                                   /\ first'[u] = first[u] /\ last'[u] = last[u] /\ mine'[u] = mine[u]
  BY <1>1, <1>8
<1>18. /\ mine'[t] # NoNode <=> pc'[t] = "push"
       /\ mine'[t] # NoNode => data'[mine'[t]] \in Value /\ (mine'[t] = mine[t] \/ mine'[t] \notin live)
       /\ InReach(t)' \subseteq InReach(t) \cup (Node \ live)
  BY <1>1, <1>2, <1>8, <1>14
<1> HIDE DEF X, e, f, P, Q, CInv, Counting!TypeOK, StackTypeOK
<1> QED BY <1>9, <1>10, <1>11, <1>12, <1>13, <1>14, <1>15, <1>16, <1>17, <1>18, CountingMoves, ZenonT(60)

\* Every step of the stack that counts the threads in pop keeps its invariant.
LEMMA NextKeepsCInv == CInv /\ [Counting!Next]_(Counting!vars) => CInv'
<1> SUFFICES ASSUME CInv, [Counting!Next]_(Counting!vars) PROVE CInv'
  OBVIOUS
<1>1. CASE UNCHANGED Counting!vars
  <2>1. UNCHANGED <<head, next, data, live, pc, mine, old, nxt, stack, to_be_deleted,
                    threads_in_pop, first, last>>
    BY <1>1 DEF Counting!vars, Counting!stackVars, Counting!nodes, Counting!popping,
       Counting!reclaiming
  <2>2. Linked' = Linked /\ Counting!Linked' = Counting!Linked /\ Counting!Pending' = Counting!Pending
        /\ Counting!Counted' = Counting!Counted /\ Counting!Running' = Counting!Running
    BY <2>1 DEF Linked, Counting!Linked, Counting!Pending, Counting!Counted, Counting!Running
  <2>3. \A u \in Thread : /\ Counting!Claimed(u)' = Counting!Claimed(u)
                          /\ Counting!Stop(u)' = Counting!Stop(u)
                          /\ Counting!Taken(u)' = Counting!Taken(u)
    BY <2>1 DEF Counting!Claimed, Counting!Stop, Counting!Taken
  <2>4. \A u \in Thread : CountingHand(u)' = CountingHand(u) /\ Doomed(u)' = Doomed(u)
    BY <2>1, <2>3 DEF CountingHand, Doomed
  <2>5. Counting!TypeOK'
    BY <2>1, <2>2 DEF CInv, Counting!TypeOK, Counting!StackTypeOK
  <2>6. Counting!NoUseAfterFree' /\ Counting!NoLeak'
    BY <2>1, <2>2, <2>3 DEF CInv, Counting!NoUseAfterFree, Counting!NoLeak
  <2>7. ListIsStack' /\ MineOK' /\ CountingHolding'
    BY <2>1, <2>2 DEF CInv, ListIsStack, MineOK, CountingHolding
  <2>8. CountingLocals'
    BY <2>1, <2>3 DEF CInv, CountingLocals, CountingLocal
  <2>9. CountingKeeper' /\ Lists'
    BY <2>1, <2>2, <2>3, <2>4 DEF CInv, CountingKeeper, Lists, Listed
  <2>10. Spared'
    BY <2>1, <2>2, <2>4 DEF CInv, Spared, NotDoomed, Reading
  <2> QED BY <2>5, <2>6, <2>7, <2>8, <2>9, <2>10 DEF CInv
<1>2. CASE Counting!Next
  <2>1. PICK t \in Thread : \/ (Counting!Push(t) /\ UNCHANGED Counting!reclaiming)
                            \/ Counting!CallPop(t) \/ Counting!Pop(t)
    BY <1>2 DEF Counting!Next
  <2>2. Counting!Running
    BY <1>2 DEF Counting!Next
  <2>3. CASE Counting!Push(t) /\ UNCHANGED Counting!reclaiming
    BY <2>2, <2>3, CountingPushKeeps
  <2>4. CASE Counting!CallPop(t) \/ Counting!Depart(t)
    BY <2>2, <2>4, CountingCallKeeps
  <2>5. CASE \/ Counting!LoadHead(t) \/ Counting!FindEmpty(t)
             \/ ((Counting!ReadNext(t) \/ Counting!TakeFails(t, "read")) /\ UNCHANGED Counting!reclaiming)
    BY <2>2, <2>5, CountingReadsKeep
  <2>6. CASE Counting!Take(t, "swap") /\ UNCHANGED Counting!reclaiming
    BY <2>2, <2>6, CountingTakeKeeps
  <2>7. CASE Counting!Swap(t)
    BY <2>2, <2>7, CountingSwapKeeps
  <2>8. CASE Counting!Check(t)
    BY <2>2, <2>8, CheckKeeps
  <2>9. CASE Counting!Claim(t)
    BY <2>2, <2>9, CountingClaimKeeps
  <2>10. CASE Counting!Leave(t)
    BY <2>2, <2>10, LeaveKeeps
  <2>11. CASE Counting!DeleteNodes(t)
    BY <2>2, <2>11, CountingDeleteNodesKeeps
  <2>12. CASE Counting!DeleteOwn(t)
    BY <2>2, <2>12, CountingDeleteOwnKeeps
  <2>13. CASE Counting!Walk(t) \/ Counting!LinkNull(t)
    BY <2>2, <2>13, WalkKeeps
  <2>14. CASE Counting!Link(t) \/ Counting!SpliceFails(t)
    BY <2>2, <2>14, CountingLinkKeeps
  <2>15. CASE Counting!Splice(t)
    BY <2>2, <2>15, CountingSpliceKeeps
  <2> QED BY <2>1, <2>3, <2>4, <2>5, <2>6, <2>7, <2>8, <2>9, <2>10, <2>11, <2>12, <2>13, <2>14, <2>15
          DEF Counting!Pop, Counting!Exchange
<1> QED BY <1>1, <1>2

-----------------------------------------------------------------------------
(* Counting: the stack is an atomic one. *)

LEMMA CountingPush ==
  ASSUME CInv, NEW t \in Thread, Counting!LinkNode(t)
  PROVE  /\ \E v \in Value : Items' = Append(Items, v)
         /\ \A u \in Thread : Counting!Result(u)' = Counting!Result(u)
<1> USE SameStack DEF CInv, Counting!TypeOK, StackTypeOK, Counting!nodes, Counting!popping
<1>1. /\ UNCHANGED <<data, old>> /\ stack' = Append(stack, mine[t])
      /\ pc[t] = "push" /\ pc' = [pc EXCEPT ![t] = "idle"]
  BY DEF Counting!LinkNode, Counting!Goto
<1>2. mine[t] \in Node /\ data[mine[t]] \in Value /\ mine[t] \in CountingHand(t)
  BY <1>1 DEF MineOK, Nodes, CountingHand
<1>3. Items' = Append(Items, data[mine[t]])
  BY <1>1, <1>2, ItemsGrow DEF CountingHolding
<1>4. \A u \in Thread : Counting!Result(u)' = Counting!Result(u)
  BY <1>1 DEF Counting!Result
<1> QED BY <1>2, <1>3, <1>4

LEMMA CountingPop ==
  ASSUME CInv, NEW t \in Thread, Counting!Take(t, "swap")
  PROVE  /\ Items # <<>> /\ Items' = SubSeq(Items, 1, Len(Items) - 1)
         /\ Counting!Result(t) = "undecided" /\ Counting!Result(t)' = Items[Len(Items)]
         /\ \A u \in Thread \ {t} : Counting!Result(u)' = Counting!Result(u)
<1> USE SameStack DEF CInv, Counting!TypeOK, StackTypeOK, Counting!nodes
<1>1. /\ UNCHANGED <<data, old>> /\ head = old[t]
      /\ pc[t] = "exchange" /\ pc' = [pc EXCEPT ![t] = "swap"]
      /\ stack' = SubSeq(stack, 1, Len(stack) - 1)
  BY DEF Counting!Take, Counting!HeadUnchanged, Counting!Goto
<1>2. old[t] # NoNode
  BY <1>1 DEF CountingLocals, CountingLocal
<1>3. /\ Items # <<>> /\ Items[Len(Items)] = data[head]
      /\ Items' = SubSeq(Items, 1, Len(Items) - 1)
  BY <1>1, <1>2, ItemsShrink DEF CountingHolding
<1> QED BY <1>1, <1>3 DEF Counting!Result

LEMMA CountingLoads ==
  ASSUME CInv, NEW t \in Thread, Counting!LoadHead(t) \/ Counting!TakeFails(t, "read")
  PROVE  /\ Items' = Items /\ \A u \in Thread \ {t} : Counting!Result(u)' = Counting!Result(u)
         /\ Counting!Result(t) = "undecided"
         /\ Counting!Result(t)' = "undecided" \/ (Counting!Result(t)' = "empty" /\ Items = <<>>)
<1> USE SameStack DEF CInv, Counting!TypeOK, StackTypeOK, Counting!nodes
<1>1. /\ UNCHANGED <<data, stack>> /\ old' = [old EXCEPT ![t] = head]
      /\ pc[t] \in {"load", "exchange"} /\ pc' = [pc EXCEPT ![t] = "read"]
  BY DEF Counting!LoadHead, Counting!TakeFails, Counting!Goto
<1>2. Items' = Items
  BY <1>1, ItemsKept
<1>3. head = NoNode => Items = <<>>
  BY TopOfStack, EmptySeq DEF Items
<1> QED BY <1>1, <1>2, <1>3 DEF Counting!Result

LEMMA CountingReturns ==
  ASSUME CInv, NEW t \in Thread, Counting!FindEmpty(t) \/ Counting!Swap(t)
  PROVE  /\ Items' = Items /\ \A u \in Thread \ {t} : Counting!Result(u)' = Counting!Result(u)
         /\ Counting!Result(t)' = "undecided"
<1> USE SameStack DEF CInv, Counting!TypeOK, StackTypeOK, Counting!nodes, Counting!popping
<1>1. /\ UNCHANGED <<stack, old>> /\ pc[t] \in {"read", "swap"} /\ pc' = [pc EXCEPT ![t] = "check"]
      /\ data' = data \/ (pc[t] = "swap" /\ data' = [data EXCEPT ![old[t]] = NoValue])
  BY DEF Counting!FindEmpty, Counting!Swap, Counting!Goto
<1>2. \A u \in Thread : pc[u] = "swap" => old[u] \in CountingHand(u) /\ old[u] \in Node
  BY ChainFacts DEF Counting!Claimed, CountingHand, CountingLocals, CountingLocal
<1>3. \A u \in Thread \ {t} : pc[u] = "swap" => data'[old[u]] = data[old[u]]
  BY <1>1, <1>2 DEF CountingKeeper
<1>4. \A n \in Linked : data'[n] = data[n]
  BY <1>1, <1>2, ChainFacts DEF CountingKeeper
<1> QED BY <1>1, <1>3, <1>4, ItemsKept DEF Counting!Result

LEMMA CountingInternal ==
  ASSUME CInv, NEW t \in Thread,
         \/ \E v \in Value : Counting!CallPush(t, v)
         \/ Counting!LinkNodeFails(t) \/ Counting!CallPop(t) \/ Counting!ReadNext(t)
         \/ Counting!Check(t) \/ Counting!Claim(t) \/ Counting!Leave(t) \/ Counting!DeleteNodes(t)
         \/ Counting!DeleteOwn(t) \/ Counting!Depart(t) \/ Counting!Walk(t) \/ Counting!Link(t)
         \/ Counting!LinkNull(t) \/ Counting!Splice(t) \/ Counting!SpliceFails(t)
  PROVE  Items' = Items /\ \A u \in Thread : Counting!Result(u)' = Counting!Result(u)
<1> USE SameStack DEF CInv, Counting!TypeOK, StackTypeOK, Counting!nodes, Counting!popping,
                      Counting!reclaiming
<1>1. /\ stack' = stack
      /\ \A u \in Thread \ {t} : pc'[u] = pc[u] /\ old'[u] = old[u]
      /\ Counting!Result(t) = "undecided" /\ Counting!Result(t)' = "undecided"
  <2>1. CASE (\E v \in Value : Counting!CallPush(t, v)) \/ Counting!LinkNodeFails(t)
    BY <2>1 DEF Counting!CallPush, Counting!LinkNodeFails, Counting!Goto, Counting!Result
  <2>2. CASE Counting!CallPop(t) \/ Counting!ReadNext(t) \/ Counting!Check(t) \/ Counting!Claim(t)
    BY <2>2 DEF Counting!CallPop, Counting!ReadNext, Counting!Check, Counting!Claim, Counting!Goto,
       Counting!Result
  <2>3. CASE Counting!Leave(t) \/ Counting!DeleteNodes(t) \/ Counting!DeleteOwn(t) \/ Counting!Depart(t)
    BY <2>3 DEF Counting!Leave, Counting!DeleteNodes, Counting!DeleteOwn, Counting!Depart,
       Counting!Goto, Counting!Result
  <2>4. CASE Counting!Walk(t) \/ Counting!Link(t) \/ Counting!LinkNull(t) \/ Counting!Splice(t)
    BY <2>4 DEF Counting!Walk, Counting!Link, Counting!LinkNull, Counting!Splice, Counting!Goto,
       Counting!Result
  <2>5. CASE Counting!SpliceFails(t)
    BY <2>5 DEF Counting!SpliceFails, Counting!Result
  <2> QED BY <2>1, <2>2, <2>3, <2>4, <2>5
<1>2. \A n \in live \ CountingHand(t) : data'[n] = data[n]
  <2>1. CASE \E v \in Value : Counting!CallPush(t, v)
    BY <2>1 DEF Counting!CallPush
  <2>2. CASE Counting!DeleteNodes(t)
    <3>1. first[t] \in CountingHand(t)
      BY <2>2, ChainFacts DEF Counting!DeleteNodes, CountingHand
    <3> QED BY <3>1, <2>2, ChainFacts DEF Counting!DeleteNodes, Counting!Delete
  <2>3. CASE Counting!DeleteOwn(t)
    <3>1. old[t] # NoNode => old[t] \in CountingHand(t)
      BY <2>3 DEF Counting!DeleteOwn, CountingHand, Counting!Claimed
    <3>2. NoNode \notin live
      BY ChainFacts, NullsDistinct
    <3> QED BY <3>1, <3>2, <2>3, ChainFacts DEF Counting!DeleteOwn, Counting!Delete
  <2>4. CASE \/ Counting!LinkNodeFails(t) \/ Counting!CallPop(t) \/ Counting!ReadNext(t)
             \/ Counting!Check(t) \/ Counting!Claim(t) \/ Counting!Leave(t) \/ Counting!Depart(t)
             \/ Counting!Walk(t) \/ Counting!Link(t) \/ Counting!LinkNull(t) \/ Counting!Splice(t)
             \/ Counting!SpliceFails(t)
    BY <2>4 DEF Counting!LinkNodeFails, Counting!CallPop, Counting!ReadNext, Counting!Check,
       Counting!Claim, Counting!Leave, Counting!Depart, Counting!Walk, Counting!Link,
       Counting!LinkNull, Counting!Splice, Counting!SpliceFails
  <2> QED BY <2>1, <2>2, <2>3, <2>4
<1>3. \A n \in Linked : data'[n] = data[n]
  BY <1>2, ChainFacts DEF CountingKeeper
<1>4. \A u \in Thread \ {t} : Counting!Result(u)' = Counting!Result(u)
  <2> TAKE u \in Thread \ {t}
  <2>1. pc[u] = "swap" => old[u] \in CountingHand(u) /\ old[u] \in live
    BY ChainFacts DEF Counting!Claimed, CountingHand, CountingLocals, CountingLocal
  <2>2. pc[u] = "swap" => data'[old[u]] = data[old[u]]
    BY <2>1, <1>2 DEF CountingKeeper
  <2> QED BY <2>2, <1>1 DEF Counting!Result
<1> QED BY <1>1, <1>3, <1>4, ItemsKept

-----------------------------------------------------------------------------
(* The stacks with a mutex. *)

\* Who is between lock and unlock holds the mutex; what a pop has moved out of the top
\* is still there; what a push is going to append is a value.
Guarded(t) ==
    /\ at[t] \in {"push", "pop", "empty", "top", "pushed", "popped", "found empty"} => m = t
    /\ at[t] = "lock" => call[t] \in {"push", "pop", "empty"}
    /\ at[t] = "push" \/ (at[t] = "lock" /\ call[t] = "push") => val[t] \in Value
    /\ at[t] = "top" => items # <<>> /\ val[t] = items[Len(items)]

MInv == /\ items \in Seq(Value)
        /\ at \in [Thread -> {"idle", "lock", "push", "pop", "empty", "top", "pushed", "popped",
                              "found empty"}]
        /\ DOMAIN call = Thread /\ DOMAIN val = Thread
        /\ \A t \in Thread : Guarded(t)

LEMMA InitMInv == Monitor!Init => MInv
BY EmptySeq DEF Monitor!Init, MInv, Guarded

\* What a step of t leaves alone, whatever it is.
LEMMA MonitorOthers ==
  ASSUME MInv, NEW t \in Thread,
         \/ \E v \in Value : Monitor!Call(t, "push", v)
         \/ \E c \in {"pop", "empty"} : Monitor!Call(t, c, NoValue)
         \/ Monitor!Lock(t) \/ Monitor!Push(t) \/ Monitor!FindEmpty(t)
         \/ Monitor!Top(t) \/ Monitor!Pop(t) \/ Monitor!Return(t)
  PROVE  /\ \A u \in Thread \ {t} : at'[u] = at[u] /\ call'[u] = call[u] /\ val'[u] = val[u]
         /\ DOMAIN call' = Thread /\ DOMAIN val' = Thread
         /\ at' \in [Thread -> {"idle", "lock", "push", "pop", "empty", "top", "pushed", "popped",
                                "found empty"}]
         /\ items' \in Seq(Value)
<1> USE DEF MInv, Monitor!Goto
<1>1. CASE \/ \E v \in Value : Monitor!Call(t, "push", v)
           \/ \E c \in {"pop", "empty"} : Monitor!Call(t, c, NoValue)
  BY <1>1 DEF Monitor!Call
<1>2. CASE Monitor!Lock(t)
  BY <1>2 DEF Monitor!Lock, Guarded
<1>3. CASE Monitor!Push(t)
  <2>1. val[t] \in Value
    BY <1>3 DEF Monitor!Push, Guarded
  <2> QED BY <2>1, <1>3, AppendProperties DEF Monitor!Push
<1>4. CASE Monitor!FindEmpty(t) \/ Monitor!Top(t)
  BY <1>4 DEF Monitor!FindEmpty, Monitor!Top
<1>5. CASE Monitor!Pop(t)
  <2>1. items # <<>> /\ items \in Seq(Value)
    BY <1>5 DEF Monitor!Pop, Guarded
  <2> HIDE DEF MInv
  <2>2. Len(items) \in Nat \ {0}
    BY <2>1, EmptySeq, LenProperties
  <2>3. \A j \in 1 .. Len(items) - 1 : items[j] \in Value
    <3>1. \A j \in 1 .. Len(items) : items[j] \in Value
      BY <2>1, ElementOfSeq
    <3> QED BY <3>1, <2>2
  <2>4. SubSeq(items, 1, Len(items) - 1) \in Seq(Value)
    BY <2>1, <2>2, <2>3, SubSeqProperties
  <2> QED BY <2>4, <1>5 DEF Monitor!Pop, MInv
<1>6. CASE Monitor!Return(t)
  BY <1>6 DEF Monitor!Return
<1> QED BY <1>1, <1>2, <1>3, <1>4, <1>5, <1>6

\* Every step of the stacks with a mutex keeps their invariant.
LEMMA NextKeepsMInv == MInv /\ [Monitor!Next]_(Monitor!vars) => MInv'
<1> SUFFICES ASSUME MInv, [Monitor!Next]_(Monitor!vars) PROVE MInv'
  OBVIOUS
<1>1. CASE UNCHANGED Monitor!vars
  BY <1>1 DEF Monitor!vars, MInv, Guarded
<1>2. CASE Monitor!Next
  <2>1. PICK t \in Thread : \/ \E v \in Value : Monitor!Call(t, "push", v)
                            \/ \E c \in {"pop", "empty"} : Monitor!Call(t, c, NoValue)
                            \/ Monitor!Lock(t) \/ Monitor!Push(t) \/ Monitor!FindEmpty(t)
                            \/ Monitor!Top(t) \/ Monitor!Pop(t) \/ Monitor!Return(t)
    BY <1>2 DEF Monitor!Next
  <2>2. /\ \A u \in Thread \ {t} : at'[u] = at[u] /\ call'[u] = call[u] /\ val'[u] = val[u]
        /\ DOMAIN call' = Thread /\ DOMAIN val' = Thread
        /\ at' \in [Thread -> {"idle", "lock", "push", "pop", "empty", "top", "pushed", "popped",
                                "found empty"}]
        /\ items' \in Seq(Value)
    BY <2>1, MonitorOthers
  <2>3. Guarded(t)'
    <3>1. Guarded(t) /\ DOMAIN call = Thread /\ DOMAIN val = Thread /\ DOMAIN at = Thread
      BY DEF MInv
    <3>2. CASE \/ \E v \in Value : Monitor!Call(t, "push", v)
               \/ \E c \in {"pop", "empty"} : Monitor!Call(t, c, NoValue)
      <4>1. /\ at'[t] = "lock" /\ call'[t] \in {"push", "pop", "empty"}
            /\ call'[t] = "push" => val'[t] \in Value
        BY <3>1, <3>2 DEF Monitor!Call, Monitor!Goto
      <4> QED BY <4>1 DEF Guarded
    <3>3. CASE Monitor!Lock(t)
      <4>1. /\ at'[t] = call[t] /\ call[t] \in {"push", "pop", "empty"} /\ m' = t
            /\ at'[t] = "push" => val'[t] \in Value
        BY <3>1, <3>3 DEF Guarded, Monitor!Lock, Monitor!Goto
      <4> QED BY <4>1 DEF Guarded
    <3>4. CASE Monitor!Push(t) \/ Monitor!FindEmpty(t) \/ Monitor!Pop(t)
      <4>1. at'[t] \in {"pushed", "found empty", "popped"} /\ m' = t
        BY <3>1, <3>4 DEF Guarded, Monitor!Push, Monitor!FindEmpty, Monitor!Pop, Monitor!Goto
      <4> QED BY <4>1 DEF Guarded
    <3>5. CASE Monitor!Top(t)
      BY <3>1, <3>5 DEF Guarded, Monitor!Top, Monitor!Goto
    <3>6. CASE Monitor!Return(t)
      BY <3>1, <3>6 DEF Guarded, Monitor!Return, Monitor!Goto
    <3> QED BY <2>1, <3>2, <3>3, <3>4, <3>5, <3>6
  <2>4. ASSUME NEW u \in Thread \ {t} PROVE Guarded(u)'
    <3>1. Guarded(u) /\ Guarded(t)
      BY DEF MInv
    <3>2. /\ m' # m => m = NoThread \/ m = t
          /\ items' # items => m = t
      BY <2>1, <3>1 DEF Guarded, Monitor!Call, Monitor!Lock, Monitor!Push, Monitor!FindEmpty,
         Monitor!Top, Monitor!Pop, Monitor!Return
    <3> QED BY <2>2, <3>1, <3>2, NobodyIsNoThread DEF Guarded
  <2> QED BY <2>2, <2>3, <2>4 DEF MInv
<1> QED BY <1>1, <1>2

\* A step of a stack with a mutex is one of an atomic stack, or is none of the callers' business.
LEMMA MonitorMaps ==
  ASSUME MInv, NEW t \in Thread,
         \/ \E v \in Value : Monitor!Call(t, "push", v)
         \/ \E c \in {"pop", "empty"} : Monitor!Call(t, c, NoValue)
         \/ Monitor!Lock(t) \/ Monitor!Push(t) \/ Monitor!FindEmpty(t)
         \/ Monitor!Top(t) \/ Monitor!Pop(t) \/ Monitor!Return(t)
  PROVE  /\ \A u \in Thread \ {t} : Monitor!Result(u)' = Monitor!Result(u)
         /\ \/ \E v \in Value : items' = Append(items, v) /\ Monitor!Result(t)' = Monitor!Result(t)
            \/ /\ items # <<>> /\ items' = SubSeq(items, 1, Len(items) - 1)
               /\ Monitor!Result(t) = "undecided" /\ Monitor!Result(t)' = items[Len(items)]
            \/ /\ items = <<>> /\ items' = items
               /\ Monitor!Result(t) = "undecided" /\ Monitor!Result(t)' = "empty"
            \/ items' = items /\ Monitor!Result(t)' \in {"undecided", Monitor!Result(t)}
<1>1. \A u \in Thread \ {t} : Monitor!Result(u)' = Monitor!Result(u)
  BY MonitorOthers DEF Monitor!Result
<1>2. Guarded(t)
  BY DEF MInv
<1>3. CASE \/ \E v \in Value : Monitor!Call(t, "push", v)
           \/ \E c \in {"pop", "empty"} : Monitor!Call(t, c, NoValue)
           \/ Monitor!Lock(t) \/ Monitor!Top(t) \/ Monitor!Return(t)
  BY <1>1, <1>2, <1>3 DEF MInv, Guarded, Monitor!Call, Monitor!Lock, Monitor!Top, Monitor!Return,
     Monitor!Goto, Monitor!Result
<1>4. CASE Monitor!Push(t)
  BY <1>1, <1>2, <1>4 DEF MInv, Guarded, Monitor!Push, Monitor!Goto, Monitor!Result
<1>5. CASE Monitor!FindEmpty(t)
  BY <1>1, <1>2, <1>5 DEF MInv, Guarded, Monitor!FindEmpty, Monitor!Goto, Monitor!Result
<1>6. CASE Monitor!Pop(t)
  BY <1>1, <1>2, <1>6 DEF MInv, Guarded, Monitor!Pop, Monitor!Goto, Monitor!Result
<1> QED BY <1>3, <1>4, <1>5, <1>6

-----------------------------------------------------------------------------
(* Theorems: the stack there is. *)

AnyInv == /\ kind \in {"hazards", "counting", "monitor"}
          /\ kind # "counting" => HInv
          /\ kind = "counting" => CInv
          /\ MInv

LEMMA InitAnyInv == AnyInit => AnyInv
<1> SUFFICES ASSUME AnyInit PROVE AnyInv
  OBVIOUS
<1> QED BY InitHInv, InitCInv, InitMInv DEF AnyInit, AnyInv

LEMMA NextKeepsAnyInv ==
  AnyInv /\ [HazardsNext \/ CountingNext \/ MonitorNext]_<<vars, reclaiming, guarded, kind>> => AnyInv'
<1> SUFFICES ASSUME AnyInv, 
                    [HazardsNext \/ CountingNext \/ MonitorNext]_<<vars, reclaiming, guarded, kind>>
             PROVE  AnyInv'
  OBVIOUS
<1> DEFINE CVars == Counting!vars
           MVars == Monitor!vars
<1>1. CASE HazardsNext
  <2>1. HInv'
    BY <1>1, NextKeepsHInv DEF HazardsNext, AnyInv
  <2>2. MInv'
    BY <1>1, NextKeepsMInv DEF HazardsNext, AnyInv, guarded, Monitor!vars
  <2> QED BY <1>1, <2>1, <2>2 DEF HazardsNext, AnyInv
<1>2. CASE CountingNext
  <2>1. CInv'
    BY <1>2, NextKeepsCInv DEF CountingNext, AnyInv
  <2>2. MInv'
    BY <1>2, NextKeepsMInv DEF CountingNext, AnyInv, guarded, Monitor!vars
  <2> QED BY <1>2, <2>1, <2>2 DEF CountingNext, AnyInv
<1>3. CASE MonitorNext
  <2>1. HInv'
    BY <1>3, NextKeepsHInv DEF MonitorNext, AnyInv
  <2>2. MInv'
    BY <1>3, NextKeepsMInv DEF MonitorNext, AnyInv
  <2> QED BY <1>3, <2>1, <2>2 DEF MonitorNext, AnyInv
<1>4. CASE UNCHANGED <<vars, reclaiming, guarded, kind>>
  <2>1. UNCHANGED vars /\ UNCHANGED Monitor!vars /\ kind' = kind
    BY <1>4 DEF guarded, Monitor!vars
  <2>2. UNCHANGED Counting!vars
    BY <1>4 DEF Counting!vars, Counting!stackVars, Counting!nodes, Counting!popping,
       Counting!reclaiming, vars, stackVars, nodes, popping, reclaiming
  <2>3. (HInv => HInv') /\ (CInv => CInv') /\ (MInv => MInv')
    BY <2>1, <2>2, NextKeepsHInv, NextKeepsCInv, NextKeepsMInv
  <2> QED BY <2>1, <2>3 DEF AnyInv
<1> QED BY <1>1, <1>2, <1>3, <1>4

\* The stacks of nodes and of items keep every variable in its range, as many threads
\* are counted in pop as are there, and a pop only hands over data its node has.
THEOREM StacksTypesOK == AnySpec => []TypesOK
<1>1. AnyInv => TypesOK
  BY DEF AnyInv, HInv, CInv, TypesOK
<1> QED BY <1>1, InitAnyInv, NextKeepsAnyInv, PTL DEF AnySpec

\* No thread reads, chains or deletes a node that is deleted: neither with hazard
\* pointers, however many threads, slots and outsiders, nor with a count of the pops.
THEOREM StacksAreSafe == AnySpec => []NoUseAfterDelete
<1>1. AnyInv => NoUseAfterDelete
  BY DEF AnyInv, HInv, CInv, NoUseAfterDelete
<1> QED BY <1>1, InitAnyInv, NextKeepsAnyInv, PTL DEF AnySpec

\* Neither loses a node: each is on the stack, in a call, or waits for a pop to delete it.
THEOREM StacksLoseNothing == AnySpec => []NoLostNodes
<1>1. AnyInv => NoLostNodes
  BY DEF AnyInv, HInv, CInv, NoLostNodes
<1> QED BY <1>1, InitAnyInv, NextKeepsAnyInv, PTL DEF AnySpec

-----------------------------------------------------------------------------
(* Theorem: the stack there is, is an atomic one. *)

\* What callers can tell of a stack: the items held, and what t's pop has found, before and
\* after a step of t.  It is a step of an atomic stack, or nothing.
OneStep(held, heldNext, found, foundNext) ==
    \/ (\E v \in Value : heldNext = Append(held, v)) /\ foundNext = found
    \/ /\ held # <<>> /\ heldNext = SubSeq(held, 1, Len(held) - 1)
       /\ found = "undecided" /\ foundNext = held[Len(held)]
    \/ /\ held = <<>> /\ heldNext = held
       /\ found = "undecided" /\ foundNext = "empty"
    \/ heldNext = held /\ foundNext \in {"undecided", found}

LEMMA HazardsMap ==
  ASSUME HInv, NEW t \in Thread,
         (Push(t) /\ UNCHANGED <<hazards, lists>>) \/ CallPop(t) \/ Pop(t) \/ Exit(t)
  PROVE  /\ \A u \in Thread \ {t} : Result(u)' = Result(u)
         /\ OneStep(Items, Items', Result(t), Result(t)')
<1>1. CASE LinkNode(t)
  BY <1>1, HazardsPush DEF OneStep
<1>2. CASE Take(t, "clear")
  BY <1>2, HazardsTake DEF OneStep
<1>3. CASE Recheck(t)
  BY <1>3, HazardsRecheck DEF OneStep
<1>4. CASE Swap(t) \/ Clear(t)
  BY <1>4, HazardsReturn DEF OneStep
<1>5. CASE \/ \E v \in Value : CallPush(t, v)
           \/ LinkNodeFails(t) \/ CallPop(t) \/ Exit(t) \/ Own(t) \/ OwnNext(t) \/ OwnNone(t)
           \/ LoadHead(t) \/ Publish(t) \/ ReadNext(t) \/ TakeFails(t, "publish")
           \/ Found(t) \/ NotHere(t) \/ Keep(t) \/ DeleteNode(t) \/ TakeList(t)
  BY <1>5, HazardsInternal DEF OneStep
<1> QED BY <1>1, <1>2, <1>3, <1>4, <1>5 DEF Push, Pop, Exchange

LEMMA CountingMap ==
  ASSUME CInv, NEW t \in Thread,
         (Counting!Push(t) /\ UNCHANGED Counting!reclaiming) \/ Counting!CallPop(t) \/ Counting!Pop(t)
  PROVE  /\ \A u \in Thread \ {t} : Counting!Result(u)' = Counting!Result(u)
         /\ OneStep(Items, Items', Counting!Result(t), Counting!Result(t)')
<1>1. CASE Counting!LinkNode(t)
  BY <1>1, CountingPush DEF OneStep
<1>2. CASE Counting!Take(t, "swap")
  BY <1>2, CountingPop DEF OneStep
<1>3. CASE Counting!LoadHead(t) \/ Counting!TakeFails(t, "read")
  BY <1>3, CountingLoads DEF OneStep
<1>4. CASE Counting!FindEmpty(t) \/ Counting!Swap(t)
  BY <1>4, CountingReturns DEF OneStep
<1>5. CASE \/ \E v \in Value : Counting!CallPush(t, v)
           \/ Counting!LinkNodeFails(t) \/ Counting!CallPop(t) \/ Counting!ReadNext(t)
           \/ Counting!Check(t) \/ Counting!Claim(t) \/ Counting!Leave(t) \/ Counting!DeleteNodes(t)
           \/ Counting!DeleteOwn(t) \/ Counting!Depart(t) \/ Counting!Walk(t) \/ Counting!Link(t)
           \/ Counting!LinkNull(t) \/ Counting!Splice(t) \/ Counting!SpliceFails(t)
  BY <1>5, CountingInternal DEF OneStep
<1> QED BY <1>1, <1>2, <1>3, <1>4, <1>5 DEF Counting!Push, Counting!Pop, Counting!Exchange

\* What callers can tell of the stack there is.
Held    == IF kind = "monitor" THEN items ELSE Items
Answers == [t \in Thread |-> AnyResult(t)]

LEMMA OneStepMaps ==
  ASSUME NEW t \in Thread, \A u \in Thread \ {t} : AnyResult(u)' = AnyResult(u),
         OneStep(Held, Held', AnyResult(t), AnyResult(t)')
  PROVE  [Stack!Next]_(Stack!vars)
<1>1. Answers' = [Answers EXCEPT ![t] = AnyResult(t)'] /\ Answers[t] = AnyResult(t)
  BY DEF Answers
<1>2. CASE (\E v \in Value : Held' = Append(Held, v)) /\ AnyResult(t)' = AnyResult(t)
  <2>1. Answers' = Answers
    BY <1>2 DEF Answers
  <2>2. \E v \in Value : Stack!Push(v)
    BY <1>2, <2>1 DEF Stack!Push, Held, Answers
  <2> QED BY <2>2 DEF Stack!Next
<1>3. CASE /\ Held # <<>> /\ Held' = SubSeq(Held, 1, Len(Held) - 1)
           /\ AnyResult(t) = "undecided" /\ AnyResult(t)' = Held[Len(Held)]
  <2>1. Stack!Pop(t)
    BY <1>1, <1>3 DEF Stack!Pop, Stack!Decide, Held, Answers
  <2> QED BY <2>1 DEF Stack!Next
<1>4. CASE /\ Held = <<>> /\ Held' = Held
           /\ AnyResult(t) = "undecided" /\ AnyResult(t)' = "empty"
  <2>1. Stack!FindEmpty(t)
    BY <1>1, <1>4 DEF Stack!FindEmpty, Stack!Decide, Held, Answers
  <2> QED BY <2>1 DEF Stack!Next
<1>5. CASE Held' = Held /\ AnyResult(t)' = "undecided"
  <2>1. Stack!Return(t)
    BY <1>1, <1>5 DEF Stack!Return, Held, Answers
  <2> QED BY <2>1 DEF Stack!Next
<1>6. CASE Held' = Held /\ AnyResult(t)' = AnyResult(t)
  <2>1. Answers' = Answers
    BY <1>6 DEF Answers
  <2> QED BY <1>6, <2>1 DEF Stack!vars, Held, Answers
<1> QED BY <1>2, <1>3, <1>4, <1>5, <1>6 DEF OneStep

LEMMA InitMaps == AnyInit => Stack!Init
<1> SUFFICES ASSUME AnyInit PROVE Stack!Init
  OBVIOUS
<1>1. Items = <<>> /\ items = <<>>
  BY EmptySeq DEF AnyInit, Init, StackInit, Monitor!Init, Items
<1>2. \A t \in Thread : AnyResult(t) = "undecided"
  BY DEF AnyInit, Init, StackInit, Monitor!Init, AnyResult, Result, Counting!Result, Monitor!Result
<1> QED BY <1>1, <1>2 DEF Stack!Init

\* Every pop, of every one of these stacks, returns what one atomic stack would: though
\* addresses are reused, and though a value may throw on its way out of one with a mutex.
THEOREM StacksAreLifo == AnySpec => AreLifo
<1>1. AnyInv /\ [HazardsNext \/ CountingNext \/ MonitorNext]_<<vars, reclaiming, guarded, kind>>
        => [Stack!Next]_(Stack!vars)
  <2> SUFFICES ASSUME AnyInv,
                      [HazardsNext \/ CountingNext \/ MonitorNext]_<<vars, reclaiming, guarded, kind>>
               PROVE  [Stack!Next]_(Stack!vars)
    OBVIOUS
  <2>1. CASE HazardsNext
    <3>1. PICK t \in Thread : (Push(t) /\ UNCHANGED <<hazards, lists>>) \/ CallPop(t) \/ Pop(t) \/ Exit(t)
      BY <2>1 DEF HazardsNext, Next
    <3>2. kind = "hazards" /\ kind' = "hazards" /\ HInv
      BY <2>1 DEF HazardsNext, AnyInv
    <3>3. /\ Held = Items /\ Held' = Items'
          /\ \A u \in Thread : AnyResult(u) = Result(u) /\ AnyResult(u)' = Result(u)'
      BY <3>2 DEF Held, AnyResult
    <3>4. /\ \A u \in Thread \ {t} : Result(u)' = Result(u)
          /\ OneStep(Items, Items', Result(t), Result(t)')
      BY <3>1, <3>2, HazardsMap
    <3> QED BY <3>3, <3>4, OneStepMaps
  <2>2. CASE CountingNext
    <3>1. PICK t \in Thread : \/ (Counting!Push(t) /\ UNCHANGED Counting!reclaiming)
                              \/ Counting!CallPop(t) \/ Counting!Pop(t)
      BY <2>2 DEF CountingNext, Counting!Next
    <3>2. kind = "counting" /\ kind' = "counting" /\ CInv
      BY <2>2 DEF CountingNext, AnyInv
    <3>3. /\ Held = Items /\ Held' = Items'
          /\ \A u \in Thread : /\ AnyResult(u) = Counting!Result(u)
                               /\ AnyResult(u)' = Counting!Result(u)'
      BY <3>2 DEF Held, AnyResult
    <3>4. /\ \A u \in Thread \ {t} : Counting!Result(u)' = Counting!Result(u)
          /\ OneStep(Items, Items', Counting!Result(t), Counting!Result(t)')
      BY <3>1, <3>2, CountingMap
    <3> QED BY <3>3, <3>4, OneStepMaps
  <2>3. CASE MonitorNext
    <3>1. PICK t \in Thread : \/ \E v \in Value : Monitor!Call(t, "push", v)
                              \/ \E c \in {"pop", "empty"} : Monitor!Call(t, c, NoValue)
                              \/ Monitor!Lock(t) \/ Monitor!Push(t) \/ Monitor!FindEmpty(t)
                              \/ Monitor!Top(t) \/ Monitor!Pop(t) \/ Monitor!Return(t)
      BY <2>3 DEF MonitorNext, Monitor!Next
    <3>2. kind = "monitor" /\ kind' = "monitor" /\ MInv
      BY <2>3 DEF MonitorNext, AnyInv
    <3>3. /\ Held = items /\ Held' = items'
          /\ \A u \in Thread : /\ AnyResult(u) = Monitor!Result(u)
                               /\ AnyResult(u)' = Monitor!Result(u)'
      BY <3>2 DEF Held, AnyResult
    <3>4. /\ \A u \in Thread \ {t} : Monitor!Result(u)' = Monitor!Result(u)
          /\ OneStep(items, items', Monitor!Result(t), Monitor!Result(t)')
      BY <3>1, <3>2, MonitorMaps DEF OneStep
    <3> QED BY <3>3, <3>4, OneStepMaps
  <2>4. CASE UNCHANGED <<vars, reclaiming, guarded, kind>>
    <3>1. /\ UNCHANGED <<stack, data, pc, old, items, at, val, kind>>
      BY <2>4 DEF vars, stackVars, nodes, popping, guarded
    <3>2. Held' = Held /\ \A u \in Thread : AnyResult(u)' = AnyResult(u)
      BY <3>1 DEF Held, Items, AnyResult, Result, Counting!Result, Monitor!Result
    <3>3. Answers' = Answers
      BY <3>2 DEF Answers
    <3> QED BY <3>2, <3>3 DEF Stack!vars, Held, Answers
  <2> QED BY <2>1, <2>2, <2>3, <2>4
<1> QED BY <1>1, InitAnyInv, NextKeepsAnyInv, InitMaps, PTL DEF AnySpec, AreLifo, Stack!Spec

=============================================================================
