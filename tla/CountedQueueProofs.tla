------------------------- MODULE CountedQueueProofs -------------------------
(***************************************************************************)
(* The two lock-free queues with split reference counts, in the uses they are  *)
(* correct in, for any number of threads, addresses and values, any bound on    *)
(* the counts, and whatever node() leaves in data; the helping queue up to the   *)
(* step in which it goes astray (HelpingQueue!Astray).                          *)
(*                                                                          *)
(* Each node of the list is led to by up to two counted pointers: head or a      *)
(* next, and tail.  Whoever takes one of them away keeps it until it has freed    *)
(* the external counter, so for each node there are two shares, one of either     *)
(* kind: the pointer itself, or the one thread that took it.  external_counters   *)
(* is the number of the shares there are, and internal_count with what the        *)
(* shares count is the number of the threads that use the node.                   *)
(***************************************************************************)
EXTENDS MCCountedQueues, FiniteSetTheorems, SequenceTheorems, TLAPS

\* The uses the queues are correct in: nobody pops, or one thread pushes.
CorrectUses == \A c \in Casts : /\ c.helps \in BOOLEAN
                                /\ c.poppers = {} \/ \E p \in Thread : c.pushers = {p}

-----------------------------------------------------------------------------
(* The strengthening *)

PushPCs  == {"announce tail", "claim", "link", "move", "help", "renew", "set",
             "free tail", "free again", "release tail"}
AtTail   == {"claim", "link", "move", "help", "renew", "set"}
FromHead == {"get", "free head"}
Apart    == {"idle", "announce head", "announce tail"}

AllPCs == {"idle"} \cup PushPCs \cup PopPCs
Typed  == TypeOK /\ neo \in [Thread -> CountedPtrs] /\ pc \in [Thread -> AllPCs]

\* What a thread has at its program counter.
LocalsOf(t) ==
    /\ pc[t] \in PushPCs => t \in cast.pushers
    /\ pc[t] \in PopPCs => t \in cast.poppers
    /\ pc[t] = "move" => ~cast.helps
    /\ pc[t] \in {"help", "renew", "set", "free again"} => cast.helps
    /\ ptr[t] = NoNode <=> pc[t] \in Apart
    /\ mine[t] # NoNode <=> \/ pc[t] \in {"announce tail", "claim", "link", "move", "help"}
                            \/ pc[t] \in {"set", "free tail", "free again"} /\ arg[t] # NoValue
                            \/ pc[t] = "release tail"
    /\ pc[t] \in {"announce tail", "claim", "help", "renew"} => arg[t] # NoValue
    /\ pc[t] = "link" => (arg[t] = NoValue <=> cast.helps)
    /\ pc[t] = "free tail" /\ ~cast.helps => arg[t] = NoValue
    /\ pc[t] = "release tail" => ~cast.helps /\ arg[t] # NoValue
    /\ pc[t] \in AtTail \cup FromHead \cup {"compare tail", "read", "take", "free tail"}
          => old[t].ptr = ptr[t]
    /\ pc[t] = "take" => nxt[t] = next[ptr[t]]
Locals == \A t \in Thread : LocalsOf(t)

\* head, and a next for each node tail has passed, lead to the nodes of the queue in turn.
Chain ==
    /\ head.ptr = (IF queue = <<>> THEN tail.ptr ELSE queue[1])
    /\ \A i \in 1 .. Len(queue) :
          next[queue[i]] = Counted(1, IF i = Len(queue) THEN tail.ptr ELSE queue[i + 1])
    /\ \A i, j \in 1 .. Len(queue) : queue[i] = queue[j] => i = j
    /\ \A i \in 1 .. Len(queue) : queue[i] # tail.ptr /\ data[queue[i]] \in Value

\* Where the nodes are that the threads use, and that a share has one taker.
Passed ==
    /\ \A t \in Thread :
          /\ pc[t] \in {"read", "take", "free tail"} => ptr[t] # tail.ptr
          /\ pc[t] \in FromHead => ptr[t] \notin Linked
          /\ pc[t] = "get" => data[ptr[t]] \in Value
    /\ \A t, u \in Thread : ptr[u] = ptr[t] =>
          /\ pc[t] \in FromHead /\ pc[u] \in FromHead => u = t
          /\ pc[t] = "free tail" /\ pc[u] = "free tail" => u = t

\* A node no tail has come to yet: a push has it, or it is linked behind the dummy node.
Made(n)  == n = next[tail.ptr].ptr \/ \E t \in Thread : mine[t] = n
Fresh(n) == /\ n \in live \ Linked
            /\ data[n] \notin Value /\ next[n] = Null
            /\ internal[n] = 0 /\ external[n] = 2
            /\ \A t \in Thread : ptr[t] # n

FreshNodes ==
    /\ \A n \in Node : Made(n) => Fresh(n)
    /\ \A t, u \in Thread : mine[t] # NoNode /\ mine[u] = mine[t] => u = t
    /\ next[tail.ptr] # Null => next[tail.ptr].ptr # NoNode /\ next[tail.ptr].external_count = 1
    /\ \A t \in Thread : mine[t] # NoNode /\ mine[t] = next[tail.ptr].ptr => pc[t] = "move"

\* A push is at the dummy node, or, where nobody pops, at one that stays in the list.
PushesOf(t) ==
    /\ pc[t] \in AtTail => ptr[t] = tail.ptr \/ cast.poppers = {}
    /\ cast.poppers = {} /\ ptr[t] # NoNode => ptr[t] \in Linked
    /\ pc[t] \in AtTail \ {"claim"} => data[ptr[t]] # NoValue
    /\ pc[t] \in {"link", "move"} => data[ptr[t]] \in Value
    /\ pc[t] = "move" => next[ptr[t]] = Counted(1, mine[t])
    /\ pc[t] \in {"renew", "set"} => neo[t] = next[ptr[t]] /\ neo[t] # Null
Pushes == /\ \A t \in Thread : PushesOf(t)
          /\ ~cast.helps => /\ Spinning!TailIsClaimed
                            /\ next[tail.ptr] # Null => \E t \in Thread : pc[t] = "move"

\* The shares in a node and what they count.
HeadTakers(n) == {t \in Thread : pc[t] \in FromHead /\ ptr[t] = n}
TailTakers(n) == {t \in Thread : pc[t] = "free tail" /\ ptr[t] = n}
PendingOf(S, o) == IF S = {} THEN 0 ELSE Announcements(o[CHOOSE t \in S : TRUE])
LinkCount(n)  == IF n = head.ptr THEN Announcements(head) ELSE 0

HeadShares(n) == IF n \in Linked \/ HeadTakers(n) # {} THEN 1 ELSE 0
TailShares(n) == IF n = tail.ptr \/ TailTakers(n) # {} THEN 1 ELSE 0
HeadCount(n)  == IF n \in Linked THEN LinkCount(n) ELSE PendingOf(HeadTakers(n), old)
TailCount(n)  == IF n = tail.ptr THEN Announcements(tail) ELSE PendingOf(TailTakers(n), old)

Balanced(n) ==
    /\ external[n] = HeadShares(n) + TailShares(n)
    /\ internal[n] + HeadCount(n) + TailCount(n) = Cardinality(Users(n))
    /\ internal[n] # 0 \/ external[n] # 0
Counts == \A n \in live : ~Made(n) => Balanced(n)

IInv == /\ Typed /\ Locals /\ Chain /\ NoUseAfterFree /\ Passed
        /\ FreshNodes /\ Pushes /\ Counts

-----------------------------------------------------------------------------
(* Facts about the helpers *)

LEMMA Nulls == NoNode \notin Node /\ NoValue \notin Value
  BY NullsDistinct

LEMMA UsersFinite ==
  ASSUME NEW n
  PROVE  IsFiniteSet(Users(n)) /\ Cardinality(Users(n)) \in Nat
<1>1. Users(n) \in SUBSET Thread
  BY DEF Users
<1>2. IsFiniteSet(Users(n))
  BY <1>1, ThreadsFinite, FS_Subset
<1> QED BY <1>2, FS_CardinalityType

\* A thread that announces n adds one user to n and to no other node.
LEMMA UsersJoin ==
  ASSUME Typed, NEW t \in Thread, NEW n \in Node, ptr[t] = NoNode,
         ptr' = [ptr EXCEPT ![t] = n]
  PROVE  Cardinality(Users(n)') = Cardinality(Users(n)) + 1
<1>1. Users(n)' = Users(n) \cup {t}
  BY DEF Users, Typed, TypeOK
<1>2. t \notin Users(n)
  BY Nulls DEF Users
<1> QED BY <1>1, <1>2, UsersFinite, FS_AddElement

\* A thread that is done with n takes one user from n and from no other node.
LEMMA UsersLeave ==
  ASSUME Typed, NEW t \in Thread, NEW n \in Node, ptr[t] = n,
         ptr' = [ptr EXCEPT ![t] = NoNode]
  PROVE  Cardinality(Users(n)') = Cardinality(Users(n)) - 1
<1>1. Users(n)' = Users(n) \ {t}
  BY Nulls DEF Users, Typed, TypeOK
<1>2. t \in Users(n)
  BY DEF Users
<1> QED BY <1>1, <1>2, UsersFinite, FS_RemoveElement

\* What the one taker counts, and that only the takers matter.
LEMMA PendingOne ==
  ASSUME NEW t, NEW o PROVE PendingOf({t}, o) = Announcements(o[t])
BY DEF PendingOf

LEMMA PendingSame ==
  ASSUME NEW S, NEW o, NEW p, \A t \in S : o[t] = p[t]
  PROVE  PendingOf(S, o) = PendingOf(S, p)
BY DEF PendingOf

LEMMA NullTyped == Null \in CountedPtrs /\ Null.ptr = NoNode /\ Null.external_count = 0
  BY BoundPositive DEF Null, Counted, CountedPtrs

\* A counted pointer is its two members.
LEMMA CountedFields ==
  ASSUME NEW c, NEW n
  PROVE  Counted(c, n).external_count = c /\ Counted(c, n).ptr = n
  BY DEF Counted

LEMMA CountedTyped ==
  ASSUME NEW c \in 0 .. MaxCount, NEW n \in Node \cup {NoNode}
  PROVE  Counted(c, n) \in CountedPtrs
  BY DEF Counted, CountedPtrs

\* The nodes of the list.
LEMMA LinkedFacts ==
  ASSUME Typed, Chain, NoUseAfterFree
  PROVE  /\ queue \in Seq(Node) /\ Len(queue) \in Nat /\ DOMAIN queue = 1 .. Len(queue)
         /\ \A i \in 1 .. Len(queue) : queue[i] \in Node
         /\ tail.ptr \in Node /\ head.ptr \in Linked /\ tail.ptr \in Linked
         /\ Linked \subseteq live /\ live \subseteq Node /\ NoNode \notin live
         /\ \A n : n \in Linked <=> n = tail.ptr \/ \E i \in 1 .. Len(queue) : queue[i] = n
<1>1. queue \in Seq(Node) /\ Len(queue) \in Nat /\ DOMAIN queue = 1 .. Len(queue)
  BY LenProperties DEF Typed, TypeOK
<1>2. \A i \in 1 .. Len(queue) : queue[i] \in Node
  BY <1>1, ElementOfSeq
<1>3. \A n : n \in Linked <=> n = tail.ptr \/ \E i \in 1 .. Len(queue) : queue[i] = n
  BY <1>1 DEF Linked
<1>4. Linked \subseteq live /\ live \subseteq Node /\ NoNode \notin live
  BY Nulls DEF NoUseAfterFree, Typed, TypeOK
<1>5. queue # <<>> => 1 \in 1 .. Len(queue)
  BY <1>1, EmptySeq
<1> QED BY <1>1, <1>2, <1>3, <1>4, <1>5 DEF Chain

\* The counts of a node no share of which changes.
LEMMA BalanceKept ==
  ASSUME NEW n, Balanced(n), internal'[n] = internal[n], external'[n] = external[n],
         n \in Linked' <=> n \in Linked,
         n \in Linked => LinkCount(n)' = LinkCount(n),
         tail'.ptr = n <=> tail.ptr = n, tail.ptr = n => tail' = tail,
         \A t \in Thread : ptr'[t] = n <=> ptr[t] = n,
         \A t \in Thread : ptr[t] = n =>
            /\ pc'[t] \in FromHead <=> pc[t] \in FromHead
            /\ pc'[t] = "free tail" <=> pc[t] = "free tail"
            /\ pc[t] \in FromHead \cup {"free tail"} => old'[t] = old[t]
  PROVE  Balanced(n)'
<1>1. HeadTakers(n)' = HeadTakers(n) /\ TailTakers(n)' = TailTakers(n) /\ Users(n)' = Users(n)
  BY DEF HeadTakers, TailTakers, Users
<1>2. /\ \A t \in HeadTakers(n) : old'[t] = old[t]
      /\ \A t \in TailTakers(n) : old'[t] = old[t]
  BY DEF HeadTakers, TailTakers
<1>3. /\ PendingOf(HeadTakers(n), old') = PendingOf(HeadTakers(n), old)
      /\ PendingOf(TailTakers(n), old') = PendingOf(TailTakers(n), old)
  BY <1>2, PendingSame
<1>4. HeadCount(n)' = HeadCount(n) /\ HeadShares(n)' = HeadShares(n)
  BY <1>1, <1>3 DEF HeadCount, HeadShares
<1>5. TailCount(n)' = TailCount(n) /\ TailShares(n)' = TailShares(n)
  BY <1>1, <1>3 DEF TailCount, TailShares
<1> QED BY <1>1, <1>4, <1>5 DEF Balanced

\* What the shares count is an integer.
LEMMA PendingInt ==
  ASSUME NEW S, NEW o, \A t \in S : o[t] \in CountedPtrs
  PROVE  PendingOf(S, o) \in Int
<1>1. \A c \in CountedPtrs : Announcements(c) \in Int
  BY BoundPositive DEF CountedPtrs, Announcements
<1> QED BY <1>1 DEF PendingOf

LEMMA HeadCountInt ==
  ASSUME Typed, NEW n PROVE HeadCount(n) \in Int
<1>1. \A t \in HeadTakers(n) : old[t] \in CountedPtrs
  BY DEF Typed, TypeOK, HeadTakers
<1>2. Announcements(head) \in Int
  BY BoundPositive DEF Typed, TypeOK, CountedPtrs, Announcements
<1> QED BY <1>1, <1>2, PendingInt DEF HeadCount, LinkCount

LEMMA TailCountInt ==
  ASSUME Typed, NEW n PROVE TailCount(n) \in Int
<1>1. \A t \in TailTakers(n) : old[t] \in CountedPtrs
  BY DEF Typed, TypeOK, TailTakers
<1>2. Announcements(tail) \in Int
  BY BoundPositive DEF Typed, TypeOK, CountedPtrs, Announcements
<1> QED BY <1>1, <1>2, PendingInt DEF TailCount

-----------------------------------------------------------------------------
LEMMA InitIInv ==
  ASSUME Init PROVE IInv
<1> USE Nulls, NullTyped
<1>1. PICK n \in Node : /\ head = Counted(1, n) /\ tail = Counted(1, n) /\ live = {n}
                        /\ external = [m \in Node |-> IF m = n THEN 2 ELSE 0]
  BY DEF Init, QueueInit
<1>2. /\ cast \in Casts /\ queue = <<>>
      /\ data = [m \in Node |-> NoValue] /\ next = [m \in Node |-> Null]
      /\ internal = [m \in Node |-> 0]
      /\ pc = [t \in Thread |-> "idle"] /\ old = [t \in Thread |-> Null]
      /\ ptr = [t \in Thread |-> NoNode] /\ nxt = [t \in Thread |-> Null]
      /\ arg = [t \in Thread |-> NoValue] /\ mine = [t \in Thread |-> NoNode]
      /\ neo = [t \in Thread |-> Null]
  BY DEF Init, QueueInit, Blank
<1>3. /\ head.ptr = n /\ tail.ptr = n /\ head.external_count = 1 /\ tail.external_count = 1
      /\ head \in CountedPtrs /\ tail \in CountedPtrs
  <2>1. 1 \in 0 .. MaxCount
    BY BoundPositive
  <2> QED BY <1>1, <2>1, CountedFields, CountedTyped
<1>4. Len(queue) = 0 /\ queue \in Seq(Node) /\ Linked = {n}
  <2>1. Len(queue) = 0 /\ queue \in Seq(Node) /\ DOMAIN queue = {}
    BY <1>2, EmptySeq
  <2> QED BY <1>3, <2>1 DEF Linked
<1>5. Typed
  <2>1. external \in [Node -> 0 .. 3]
    BY <1>1
  <2> QED BY <1>1, <1>2, <1>3, <1>4, <2>1 DEF Typed, TypeOK, AllPCs
<1>6. Locals
  BY <1>2 DEF Locals, LocalsOf, PushPCs, PopPCs, AtTail, FromHead, Apart
<1>7. Chain /\ NoUseAfterFree
  <2>1. 1 .. Len(queue) = {}
    BY <1>4
  <2> QED BY <1>1, <1>2, <1>3, <1>4, <2>1 DEF Chain, NoUseAfterFree
<1>8. Passed
  BY <1>2 DEF Passed, FromHead
<1>9. \A m \in Node : ~Made(m)
  BY <1>2, <1>3 DEF Made
<1>10. FreshNodes
  BY <1>2, <1>3, <1>9 DEF FreshNodes
<1>11. Pushes
  <2>1. ~cast.helps => Spinning!TailIsClaimed
    BY <1>2, <1>3 DEF Spinning!TailIsClaimed, Spinning!Claimers
  <2>2. next[tail.ptr] = Null
    BY <1>2, <1>3
  <2> QED BY <1>2, <2>1, <2>2 DEF Pushes, PushesOf, AtTail
<1>12. Counts
  <2>1. HeadTakers(n) = {} /\ TailTakers(n) = {} /\ Users(n) = {}
    BY <1>2 DEF HeadTakers, TailTakers, Users, FromHead
  <2>2. HeadShares(n) = 1 /\ TailShares(n) = 1 /\ HeadCount(n) = 0 /\ TailCount(n) = 0
    <3>1. n \in Linked /\ Announcements(head) = 0 /\ Announcements(tail) = 0
      BY <1>3, <1>4 DEF Announcements
    <3> QED BY <1>3, <3>1 DEF HeadShares, TailShares, HeadCount, TailCount, LinkCount
  <2>3. Cardinality(Users(n)) = 0
    BY <2>1, FS_EmptySet
  <2>4. live = {n} /\ internal[n] = 0 /\ external[n] = 2
    BY <1>1, <1>2
  <2> QED BY <2>2, <2>3, <2>4 DEF Counts, Balanced
<1> QED BY <1>5, <1>6, <1>7, <1>8, <1>10, <1>11, <1>12 DEF IInv

\* A step of thread t that touches nothing but what t alone reads, and neither takes nor
\* frees a share.
LEMMA QuietKeeps ==
  ASSUME IInv, NEW t \in Thread,
         UNCHANGED <<cast, head, tail, nodes, ptr, queue, push>>,
         \A u \in Thread \ {t} : /\ pc'[u] = pc[u] /\ old'[u] = old[u]
                                 /\ nxt'[u] = nxt[u] /\ neo'[u] = neo[u],
         Typed', LocalsOf(t)', PushesOf(t)',
         {pc[t], pc'[t]} \cap (FromHead \cup {"free tail", "link", "move"}) = {},
         pc'[t] \in {"read", "take"} => ptr[t] # tail.ptr
  PROVE  IInv'
<1> USE DEF IInv, nodes, counts, push
<1>1. Linked' = Linked /\ \A n : Made(n)' <=> Made(n)
  BY DEF Linked, Made
<1>2. Locals'
  <2> SUFFICES ASSUME NEW u \in Thread \ {t} PROVE LocalsOf(u)'
    BY DEF Locals
  <2>1. LocalsOf(u)
    BY DEF Locals
  <2> QED BY <2>1 DEF LocalsOf
<1>3. Chain' /\ NoUseAfterFree'
  BY <1>1 DEF Chain, NoUseAfterFree
<1>4. Passed'
  <2>1. \A u \in Thread : /\ pc'[u] \in FromHead <=> pc[u] \in FromHead
                          /\ \A l \in {"get", "free tail"} : pc'[u] = l <=> pc[u] = l
                          /\ pc'[u] \in {"read", "take"} => ptr[u] # tail.ptr
    BY DEF Passed, FromHead
  <2>2. UNCHANGED <<ptr, tail, data>>
    OBVIOUS
  <2>3. Passed
    OBVIOUS
  <2> QED BY ONLY <1>1, <2>1, <2>2, <2>3 DEF Passed
<1>5. FreshNodes'
  BY <1>1 DEF FreshNodes, Fresh
<1>6. Pushes'
  <2>1. ASSUME NEW u \in Thread PROVE PushesOf(u)'
    <3>1. CASE u = t
      BY <3>1
    <3>2. CASE u # t
      <4>1. PushesOf(u) /\ UNCHANGED <<cast, ptr, tail, next, data, mine>>
        BY DEF Pushes
      <4>2. pc'[u] = pc[u] /\ neo'[u] = neo[u]
        BY <3>2
      <4> QED BY ONLY <1>1, <4>1, <4>2 DEF PushesOf
    <3> QED BY <3>1, <3>2
  <2>2. Spinning!Claimers' = Spinning!Claimers
    BY DEF Spinning!Claimers
  <2> QED BY <2>1, <2>2 DEF Pushes, Spinning!TailIsClaimed
<1>7. Counts'
  <2> SUFFICES ASSUME NEW n \in live, ~Made(n) PROVE Balanced(n)'
    BY <1>1 DEF Counts
  <2>1. Balanced(n)
    BY DEF Counts
  <2>2. LinkCount(n)' = LinkCount(n)
    BY DEF LinkCount
  <2> QED BY <1>1, <2>1, <2>2, BalanceKept
<1> QED BY <1>2, <1>3, <1>4, <1>5, <1>6, <1>7

\* The steps of pop() that only look.
LEMMA PopLooks ==
  ASSUME IInv, NEW t \in Thread, t \in cast.poppers, UNCHANGED neo,
         CallPop(t) \/ AnnounceHeadFails(t) \/ CompareTail(t) \/ ReadNext(t) \/ TakeFails(t)
  PROVE  IInv'
<1> USE Nulls, NullTyped
<1>0. LocalsOf(t) /\ PushesOf(t) /\ Typed
  BY DEF IInv, Locals, Pushes
<1>1. /\ UNCHANGED <<cast, head, tail, nodes, ptr, queue, push>>
      /\ \A u \in Thread \ {t} : /\ pc'[u] = pc[u] /\ old'[u] = old[u]
                                 /\ nxt'[u] = nxt[u] /\ neo'[u] = neo[u]
  BY <1>0 DEF Typed, TypeOK, Goto, CallPop, AnnounceHeadFails, CompareTail, ReadNext, TakeFails
<1>2. Typed'
  <2>1. old' \in [Thread -> CountedPtrs] /\ nxt' \in [Thread -> CountedPtrs]
    <3>1. ptr[t] # NoNode => next[ptr[t]] \in CountedPtrs
      BY <1>0 DEF Typed, TypeOK
    <3>2. pc[t] = "read" => ptr[t] # NoNode
      BY <1>0 DEF LocalsOf, Apart
    <3>3. /\ old \in [Thread -> CountedPtrs] /\ nxt \in [Thread -> CountedPtrs]
          /\ head \in CountedPtrs
      BY <1>0 DEF Typed, TypeOK
    <3>4. \/ old' = old \/ old' = [old EXCEPT ![t] = head]
      BY DEF CallPop, AnnounceHeadFails, CompareTail, ReadNext, TakeFails
    <3>5. \/ nxt' = nxt \/ nxt' = [nxt EXCEPT ![t] = Null]
          \/ pc[t] = "read" /\ nxt' = [nxt EXCEPT ![t] = next[ptr[t]]]
      BY DEF CallPop, AnnounceHeadFails, CompareTail, ReadNext, TakeFails
    <3> QED BY <3>1, <3>2, <3>3, <3>4, <3>5
  <2>2. pc' \in [Thread -> AllPCs] /\ pc'[t] # "get"
    BY <1>0 DEF Typed, TypeOK, AllPCs, PopPCs, Goto, CallPop, AnnounceHeadFails, CompareTail, ReadNext,
       TakeFails
  <2> QED BY <1>0, <1>1, <2>1, <2>2 DEF Typed, TypeOK, nodes, counts, push
<1>3. LocalsOf(t)' /\ pc'[t] \in PopPCs
  <2> USE DEF LocalsOf, AtTail, FromHead, Apart, PopPCs, PushPCs
  <2>0. /\ pc \in [Thread -> AllPCs] /\ old \in [Thread -> CountedPtrs]
        /\ nxt \in [Thread -> CountedPtrs]
        /\ ptr'[t] = ptr[t] /\ mine'[t] = mine[t] /\ arg'[t] = arg[t] /\ cast' = cast
        /\ next' = next
    BY <1>0, <1>1 DEF Typed, TypeOK, nodes, push
  <2>1. CASE CallPop(t)
    <3>1. pc[t] = "idle" /\ pc'[t] = "announce head"
      BY <2>0, <2>1 DEF CallPop, Goto
    <3> QED BY <1>0, <2>0, <3>1
  <2>2. CASE AnnounceHeadFails(t)
    <3>1. pc[t] = "announce head" /\ pc'[t] = "announce head"
      BY <2>0, <2>2 DEF AnnounceHeadFails
    <3> QED BY <1>0, <2>0, <3>1
  <2>3. CASE CompareTail(t)
    <3>1. pc[t] = "compare tail" /\ pc'[t] \in {"release empty", "read"} /\ old'[t] = old[t]
      BY <2>0, <2>3 DEF CompareTail, Goto
    <3> QED BY <1>0, <2>0, <3>1
  <2>4. CASE ReadNext(t)
    <3>1. /\ pc[t] = "read" /\ pc'[t] = "take" /\ old'[t] = old[t]
          /\ nxt'[t] = next[ptr[t]]
      BY <2>0, <2>4 DEF ReadNext, Goto
    <3> QED BY <1>0, <2>0, <3>1
  <2>5. CASE TakeFails(t)
    <3>1. pc[t] = "take" /\ pc'[t] = "release head"
      BY <2>0, <2>5 DEF TakeFails, Goto
    <3> QED BY <1>0, <2>0, <3>1
  <2> QED BY <2>1, <2>2, <2>3, <2>4, <2>5
<1>4. PushesOf(t)'
  <2>1. pc'[t] \notin AtTail
    BY <1>3 DEF PopPCs, AtTail
  <2>2. Linked' = Linked
    BY <1>1 DEF Linked
  <2> QED BY <1>0, <1>1, <2>1, <2>2 DEF PushesOf, AtTail
<1>5. {pc[t], pc'[t]} \cap (FromHead \cup {"free tail", "link", "move"}) = {}
  BY <1>0 DEF Typed, TypeOK, FromHead, Goto, CallPop, AnnounceHeadFails, CompareTail, ReadNext, TakeFails
<1>6. pc'[t] \in {"read", "take"} => ptr[t] # tail.ptr
  BY <1>0 DEF IInv, Passed, Typed, TypeOK, Goto, EmptyQueue, CallPop, AnnounceHeadFails, CompareTail,
     ReadNext, TakeFails
<1> QED BY <1>1, <1>2, <1>3, <1>4, <1>5, <1>6, QuietKeeps

\* Those of either push().
LEMMA PushLooks ==
  ASSUME IInv, NEW t \in Thread, t \in cast.pushers,
         \/ AnnounceTailFails(t) /\ UNCHANGED neo
         \/ ~cast.helps /\ Spinning!ClaimFails(t) /\ UNCHANGED neo
         \/ cast.helps /\ (ClaimFails(t) \/ HelpFails(t) \/ SetTailRetry(t))
         \/ cast.helps /\ SetTailHelped(t)
  PROVE  IInv'
<1> USE Nulls, NullTyped
<1>0. LocalsOf(t) /\ PushesOf(t) /\ Typed
  BY DEF IInv, Locals, Pushes
<1> USE DEF AnnounceTailFails, Spinning!ClaimFails, ClaimFails, HelpFails, SetTailRetry, SetTailHelped
<1>1. /\ UNCHANGED <<cast, head, tail, nodes, ptr, queue, push>>
      /\ \A u \in Thread \ {t} : /\ pc'[u] = pc[u] /\ old'[u] = old[u]
                                 /\ nxt'[u] = nxt[u] /\ neo'[u] = neo[u]
  BY <1>0 DEF Typed, TypeOK, Goto, Spinning!Goto, nodes, counts, Spinning!nodes, Spinning!counts,
     push, Spinning!push
<1>a. /\ pc \in [Thread -> AllPCs] /\ old \in [Thread -> CountedPtrs] /\ UNCHANGED nxt
      /\ neo \in [Thread -> CountedPtrs] /\ tail \in CountedPtrs
      /\ ptr'[t] = ptr[t] /\ mine'[t] = mine[t] /\ arg'[t] = arg[t]
      /\ UNCHANGED <<cast, next, data, tail, mine, arg>>
  BY <1>0, <1>1 DEF Typed, TypeOK, nodes, push
<1>b. \/ /\ pc[t] = "announce tail" /\ pc'[t] = pc[t] /\ old' = [old EXCEPT ![t] = tail] /\ neo' = neo
         /\ pc' = pc
      \/ /\ ~cast.helps /\ pc[t] = "claim" /\ pc' = [pc EXCEPT ![t] = "release tail"] /\ old' = old
         /\ neo' = neo
      \/ /\ cast.helps /\ pc[t] = "claim" /\ data[ptr[t]] # NoValue
         /\ pc' = [pc EXCEPT ![t] = "help"] /\ old' = old /\ neo' = neo
      \/ /\ cast.helps /\ pc[t] = "help" /\ next[ptr[t]] # Null /\ pc' = [pc EXCEPT ![t] = "set"]
         /\ old' = old /\ neo' = [neo EXCEPT ![t] = next[ptr[t]]]
      \/ /\ cast.helps /\ pc[t] = "set" /\ pc' = pc /\ old' = [old EXCEPT ![t] = tail] /\ neo' = neo
         /\ tail.ptr = ptr[t]
      \/ /\ cast.helps /\ pc[t] = "set" /\ pc' = [pc EXCEPT ![t] = "free again"]
         /\ old' = [old EXCEPT ![t] = Counted(tail.external_count, ptr[t])]
         /\ neo' = [neo EXCEPT ![t] = Null]
  BY <1>a DEF Goto, Spinning!Goto, Unlinked
<1> USE DEF AllPCs, PushPCs, PopPCs
<1>2. Typed'
  <2>1. ptr[t] # NoNode => next[ptr[t]] \in CountedPtrs
    BY <1>0 DEF Typed, TypeOK
  <2>2. pc[t] = "help" => ptr[t] # NoNode
    BY <1>0 DEF LocalsOf, Apart
  <2>a. Counted(tail.external_count, ptr[t]) \in CountedPtrs
    BY <1>0 DEF Typed, TypeOK, CountedPtrs, Counted
  <2>3. old' \in [Thread -> CountedPtrs]
    BY <1>a, <1>b, <2>a
  <2>4. neo' \in [Thread -> CountedPtrs]
    BY <1>a, <1>b, <2>1, <2>2
  <2>5. pc' \in [Thread -> AllPCs] /\ pc'[t] # "get"
    BY <1>a, <1>b
  <2> HIDE DEF AllPCs
  <2> QED BY <1>0, <1>1, <1>a, <2>3, <2>4, <2>5 DEF Typed, TypeOK, nodes, counts, push
<1>3. LocalsOf(t)'
  BY <1>0, <1>a, <1>b DEF LocalsOf, AtTail, FromHead, Apart
<1>4. PushesOf(t)'
  <2>1. UNCHANGED <<queue, tail, cast, ptr, data, next, mine>>
    BY <1>1, <1>a
  <2>2. Linked' = Linked
    BY ONLY <2>1 DEF Linked
  <2>3. /\ pc'[t] \in AtTail => pc[t] \in AtTail
        /\ pc'[t] \in AtTail \ {"claim"} => data[ptr[t]] # NoValue
        /\ pc'[t] \notin {"link", "move", "renew"}
    BY ONLY <1>0, <1>a, <1>b DEF PushesOf, AtTail
  <2>4. pc'[t] = "set" => neo'[t] = next[ptr[t]] /\ neo'[t] # Null
    BY ONLY <1>0, <1>a, <1>b DEF PushesOf
  <2>5. PushesOf(t)
    BY <1>0
  <2> QED BY ONLY <2>1, <2>2, <2>3, <2>4, <2>5 DEF PushesOf
<1>5. {pc[t], pc'[t]} \cap (FromHead \cup {"free tail", "link", "move"}) = {}
  BY <1>a, <1>b DEF FromHead
<1>6. pc'[t] \in {"read", "take"} => ptr[t] # tail.ptr
  BY <1>a, <1>b
<1> QED BY <1>1, <1>2, <1>3, <1>4, <1>5, <1>6, QuietKeeps

-----------------------------------------------------------------------------
\* A step of thread t that writes the data of the node it uses, which is the dummy node
\* or one t has taken.
LEMMA DataKeeps ==
  ASSUME IInv, NEW t \in Thread, NEW d,
         UNCHANGED <<cast, head, tail, next, counts, old, ptr, nxt, mine, queue, neo>>,
         \A u \in Thread \ {t} : pc'[u] = pc[u] /\ arg'[u] = arg[u],
         data' = [data EXCEPT ![ptr[t]] = d], Typed', LocalsOf(t)',
         \/ /\ ptr[t] = tail.ptr
            /\ {pc[t], pc'[t]} \cap (FromHead \cup {"read", "take", "free tail", "move"}) = {}
         \/ pc[t] = "get" /\ pc'[t] = "free head"
  PROVE  Locals' /\ Chain' /\ NoUseAfterFree' /\ Passed' /\ FreshNodes' /\ Counts'
<1> USE DEF IInv, counts
<1>1. Linked' = Linked /\ \A n : Made(n)' <=> Made(n)
  BY DEF Linked, Made
<1>2. ptr[t] \in Node /\ ptr[t] \in live
  <2>1. CASE ptr[t] = tail.ptr
    BY <2>1, LinkedFacts DEF NoUseAfterFree
  <2>2. CASE pc[t] = "get"
    <3>1. ptr[t] # NoNode
      BY <2>2 DEF Locals, LocalsOf, Apart
    <3> QED BY <3>1 DEF Typed, TypeOK, NoUseAfterFree
  <2> QED BY <2>1, <2>2
<1>3. \A m \in Node \ {ptr[t]} : data'[m] = data[m]
  BY DEF Typed, TypeOK
<1>4. ptr[t] = tail.ptr \/ ptr[t] \notin Linked
  BY DEF Passed, FromHead
<1>5. Locals'
  <2> SUFFICES ASSUME NEW u \in Thread \ {t} PROVE LocalsOf(u)'
    BY DEF Locals
  <2>1. LocalsOf(u)
    BY DEF Locals
  <2> QED BY <2>1 DEF LocalsOf
<1>6. NoUseAfterFree'
  BY <1>1 DEF NoUseAfterFree
<1>7. Chain'
  <2>1. \A i \in 1 .. Len(queue) : queue[i] \in Node \ {ptr[t]}
    BY <1>4, LinkedFacts DEF Chain
  <2>2. \A i \in 1 .. Len(queue) : data'[queue[i]] = data[queue[i]]
    BY <1>3, <2>1
  <2>3. \A i \in 1 .. Len(queue) : data'[queue[i]] \in Value
    BY <2>2 DEF Chain
  <2>4. Chain /\ UNCHANGED <<head, tail, next, queue>>
    OBVIOUS
  <2> QED BY ONLY <2>3, <2>4 DEF Chain
<1>8. Passed'
  <2>1. \A u \in Thread \ {t} : pc[u] = "get" => ptr[u] # ptr[t]
    BY LinkedFacts DEF Passed, FromHead
  <2>2. \A u \in Thread \ {t} : pc'[u] = "get" => data'[ptr[u]] \in Value
    <3> SUFFICES ASSUME NEW u \in Thread \ {t}, pc'[u] = "get" PROVE data'[ptr[u]] \in Value
      OBVIOUS
    <3>1. ptr[u] # NoNode
      BY DEF Locals, LocalsOf, Apart
    <3> QED BY <1>3, <2>1, <3>1 DEF Passed, Typed, TypeOK
  <2>3. \A u \in Thread : pc'[u] \in FromHead <=> pc[u] \in FromHead
    BY DEF FromHead
  <2>4. \A u \in Thread : pc'[u] = "free tail" <=> pc[u] = "free tail"
    BY DEF FromHead
  <2>5. \A u \in Thread : pc'[u] \in {"read", "take"} => pc[u] \in {"read", "take"}
    OBVIOUS
  <2>6. pc'[t] # "get"
    BY DEF FromHead
  <2>7. \A u \in Thread : /\ pc'[u] \in {"read", "take", "free tail"} => ptr'[u] # tail'.ptr
                          /\ pc'[u] \in FromHead => ptr'[u] \notin Linked'
                          /\ pc'[u] = "get" => data'[ptr'[u]] \in Value
    BY <1>1, <2>2, <2>3, <2>4, <2>5, <2>6 DEF Passed
  <2>8. \A u, v \in Thread : ptr'[v] = ptr'[u] =>
           /\ pc'[u] \in FromHead /\ pc'[v] \in FromHead => v = u
           /\ pc'[u] = "free tail" /\ pc'[v] = "free tail" => v = u
    BY <2>3, <2>4 DEF Passed
  <2> QED BY <2>7, <2>8 DEF Passed
<1>9. FreshNodes'
  <2>1. \A n \in Node : Made(n) => n # ptr[t]
    BY DEF FreshNodes, Fresh
  <2>2. \A n \in Node : Made(n)' => Fresh(n)'
    <3> SUFFICES ASSUME NEW n \in Node, Made(n) PROVE Fresh(n)'
      BY <1>1
    <3>1. Fresh(n) /\ data'[n] = data[n]
      BY <1>3, <2>1 DEF FreshNodes
    <3>2. UNCHANGED <<live, next, internal, external, ptr>>
      OBVIOUS
    <3> QED BY ONLY <1>1, <3>1, <3>2 DEF Fresh
  <2>3. \A u \in Thread : pc[u] = "move" => pc'[u] = "move"
    OBVIOUS
  <2>4. FreshNodes /\ UNCHANGED <<mine, next, tail>>
    OBVIOUS
  <2> QED BY ONLY <2>2, <2>3, <2>4 DEF FreshNodes
<1>10. Counts'
  <2> SUFFICES ASSUME NEW n \in live, ~Made(n) PROVE Balanced(n)'
    BY <1>1 DEF Counts
  <2>1. Balanced(n)
    BY DEF Counts
  <2>2. LinkCount(n)' = LinkCount(n)
    BY DEF LinkCount
  <2>3. \A u \in Thread : /\ pc'[u] \in FromHead <=> pc[u] \in FromHead
                          /\ pc'[u] = "free tail" <=> pc[u] = "free tail"
    BY DEF FromHead
  <2> QED BY <1>1, <2>1, <2>2, <2>3, BalanceKept
<1> QED BY <1>5, <1>6, <1>7, <1>8, <1>9, <1>10

LEMMA GetKeeps ==
  ASSUME IInv, NEW t \in Thread, t \in cast.poppers, Get(t), UNCHANGED neo PROVE IInv'
<1> USE Nulls DEF IInv
<1>1. /\ UNCHANGED <<cast, head, tail, next, counts, old, ptr, nxt, arg, mine, queue, neo>>
      /\ data' = [data EXCEPT ![ptr[t]] = NoValue]
      /\ pc[t] = "get" /\ pc' = [pc EXCEPT ![t] = "free head"]
  BY DEF Get, Goto, push
<1>2. pc'[t] = "free head" /\ \A u \in Thread \ {t} : pc'[u] = pc[u] /\ arg'[u] = arg[u]
  BY <1>1 DEF Typed
<1>3. Typed'
  <2>1. data' \in [Node -> Value \cup {NoValue} \cup FreshData]
    BY <1>1 DEF Typed, TypeOK
  <2>2. \A u \in Thread : pc'[u] = "get" => data'[ptr'[u]] \in Value
    <3> SUFFICES ASSUME NEW u \in Thread, pc'[u] = "get" PROVE data'[ptr'[u]] \in Value
      OBVIOUS
    <3>1. u # t /\ pc[u] = "get"
      BY <1>1, <1>2
    <3>2. ptr[u] # ptr[t]
      BY <1>1, <3>1 DEF Passed, FromHead
    <3>3. data[ptr[u]] \in Value /\ ptr'[u] = ptr[u]
      BY <1>1, <3>1 DEF Passed
    <3>4. ptr[u] \in Node
      BY <3>1 DEF Typed, TypeOK, Locals, LocalsOf, Apart
    <3> QED BY <1>1, <3>2, <3>3, <3>4 DEF Typed, TypeOK
  <2>3. pc' \in [Thread -> AllPCs]
    BY <1>1 DEF Typed, AllPCs, PopPCs
  <2> QED BY <1>1, <2>1, <2>2, <2>3 DEF Typed, TypeOK, counts
<1>4. LocalsOf(t)'
  <2>1. LocalsOf(t)
    BY DEF Locals
  <2> QED BY <1>1, <1>2, <2>1 DEF LocalsOf, AtTail, FromHead, Apart, PushPCs, PopPCs
<1>5. Locals' /\ Chain' /\ NoUseAfterFree' /\ Passed' /\ FreshNodes' /\ Counts'
  BY <1>1, <1>2, <1>3, <1>4, DataKeeps
<1>6. Pushes'
  <2>1. tail.ptr # ptr[t] /\ tail.ptr \in Node
    BY <1>1, LinkedFacts DEF Passed, FromHead
  <2>a. data \in [Node -> Value \cup {NoValue} \cup FreshData]
    BY DEF Typed, TypeOK
  <2>b. data'[tail'.ptr] = data[tail.ptr]
    BY ONLY <1>1, <2>1, <2>a
  <2>c. Linked' = Linked
    BY ONLY <1>1 DEF Linked
  <2>2. Linked' = Linked /\ data'[tail'.ptr] = data[tail.ptr]
    BY <2>b, <2>c
  <2>3. \A u \in Thread : PushesOf(u)'
    <3> SUFFICES ASSUME NEW u \in Thread PROVE PushesOf(u)'
      OBVIOUS
    <3>1. PushesOf(u) /\ cast.poppers # {}
      BY DEF Pushes
    <3>2. pc'[u] \in AtTail => u # t /\ pc[u] = pc'[u] /\ ptr[u] = tail.ptr
      BY <1>2, <3>1 DEF PushesOf, AtTail
    <3>3. pc'[u] \in {"link", "move", "renew", "set"} => pc'[u] \in AtTail
      BY DEF AtTail
    <3> QED BY <1>1, <2>2, <3>1, <3>2, <3>3 DEF PushesOf
  <2>4. Spinning!Claimers' = Spinning!Claimers
    BY <1>1, <1>2 DEF Spinning!Claimers
  <2>5. ~cast.helps => Spinning!TailIsClaimed'
    BY <1>1, <2>2, <2>4 DEF Pushes, Spinning!TailIsClaimed
  <2>6. ~cast.helps /\ next[tail.ptr] # Null => \E u \in Thread : pc'[u] = "move"
    BY <1>1, <1>2 DEF Pushes
  <2> QED BY <1>1, <2>3, <2>5, <2>6 DEF Pushes
<1> QED BY <1>3, <1>5, <1>6

\* A push that finds no data in its node is at the dummy node.
LEMMA ClaimsTheDummy ==
  ASSUME IInv, NEW t \in Thread, pc[t] = "claim", data[ptr[t]] = NoValue
  PROVE  ptr[t] = tail.ptr
<1>1. ptr[t] = tail.ptr \/ ptr[t] \in Linked
  BY DEF IInv, Pushes, PushesOf, AtTail, Locals, LocalsOf, Apart
<1>2. ptr[t] = tail.ptr \/ \E i \in 1 .. Len(queue) : queue[i] = ptr[t]
  BY <1>1, LinkedFacts DEF IInv
<1> QED BY <1>2, Nulls DEF IInv, Chain

LEMMA ClaimKeeps ==
  ASSUME IInv, NEW t \in Thread, t \in cast.pushers,
         \/ ~cast.helps /\ Spinning!Claim(t) /\ UNCHANGED neo
         \/ cast.helps /\ Claim(t)
  PROVE  IInv'
<1> USE Nulls DEF IInv
<1>1. /\ UNCHANGED <<cast, head, tail, next, counts, old, ptr, nxt, mine, queue, neo>>
      /\ data[ptr[t]] = NoValue /\ data' = [data EXCEPT ![ptr[t]] = arg[t]]
      /\ pc[t] = "claim" /\ pc' = [pc EXCEPT ![t] = "link"]
      /\ arg' = IF cast.helps THEN [arg EXCEPT ![t] = NoValue] ELSE arg
  BY DEF Claim, Spinning!Claim, Spinning!Claimable, Goto, Spinning!Goto, push, Spinning!push, counts,
     Spinning!counts
<1>2. /\ pc'[t] = "link"
      /\ \A u \in Thread \ {t} : pc'[u] = pc[u] /\ arg'[u] = arg[u]
      /\ arg'[t] = NoValue <=> cast.helps
      /\ arg[t] \in Value /\ ptr[t] = tail.ptr /\ ptr[t] \in Node
  <2>1. arg[t] # NoValue
    BY <1>1 DEF Locals, LocalsOf
  <2>2. ptr[t] = tail.ptr /\ ptr[t] \in Node
    BY <1>1, ClaimsTheDummy, LinkedFacts
  <2> QED BY <1>1, <2>1, <2>2 DEF Typed, TypeOK
<1>3. data'[ptr[t]] \in Value
  BY <1>1, <1>2 DEF Typed, TypeOK
<1>4. Typed'
  <2>1. data' \in [Node -> Value \cup {NoValue} \cup FreshData]
    BY <1>1, <1>2 DEF Typed, TypeOK
  <2>2. \A u \in Thread : pc'[u] = "get" => data'[ptr'[u]] \in Value
    <3> SUFFICES ASSUME NEW u \in Thread, pc'[u] = "get" PROVE data'[ptr'[u]] \in Value
      OBVIOUS
    <3>1. pc[u] = "get"
      BY <1>2
    <3>2. ptr[u] # ptr[t]
      BY <1>2, <3>1, LinkedFacts DEF Passed, FromHead
    <3>3. data[ptr[u]] \in Value /\ ptr'[u] = ptr[u]
      BY <1>1, <3>1 DEF Passed
    <3>4. ptr[u] \in Node
      BY <3>1 DEF Typed, TypeOK, Locals, LocalsOf, Apart
    <3> QED BY <1>1, <3>2, <3>3, <3>4 DEF Typed, TypeOK
  <2>3. pc' \in [Thread -> AllPCs]
    BY <1>1 DEF Typed, AllPCs, PushPCs
  <2>4. arg' \in [Thread -> Value \cup {NoValue}]
    BY <1>1 DEF Typed, TypeOK
  <2> QED BY <1>1, <2>1, <2>2, <2>3, <2>4 DEF Typed, TypeOK, counts
<1>5. LocalsOf(t)'
  <2>1. LocalsOf(t)
    BY DEF Locals
  <2> QED BY <1>1, <1>2, <2>1 DEF LocalsOf, AtTail, FromHead, Apart, PushPCs, PopPCs
<1>6. Locals' /\ Chain' /\ NoUseAfterFree' /\ Passed' /\ FreshNodes' /\ Counts'
  <2>1. {pc[t], pc'[t]} \cap (FromHead \cup {"read", "take", "free tail", "move"}) = {}
    BY <1>1, <1>2 DEF FromHead
  <2> QED BY <1>1, <1>2, <1>4, <1>5, <2>1, DataKeeps
<1>7. Pushes'
  <2>1. Linked' = Linked /\ data'[tail'.ptr] \in Value
    BY <1>1, <1>2, <1>3 DEF Linked
  <2>2. \A u \in Thread : PushesOf(u)'
    <3> SUFFICES ASSUME NEW u \in Thread PROVE PushesOf(u)'
      OBVIOUS
    <3>1. PushesOf(u)
      BY DEF Pushes
    <3>2. CASE u = t
      BY <1>1, <1>2, <1>3, <2>1, <3>1, <3>2 DEF PushesOf, AtTail
    <3>3. CASE u # t
      <4>1. /\ data[ptr[u]] # NoValue => data'[ptr[u]] # NoValue
            /\ data[ptr[u]] \in Value => data'[ptr[u]] \in Value
        BY <1>1, <1>3 DEF Typed, TypeOK
      <4> QED BY <1>1, <1>2, <2>1, <3>1, <3>3, <4>1 DEF PushesOf, AtTail
    <3> QED BY <3>2, <3>3
  <2>3. ~cast.helps => Spinning!Claimers = {}
    BY <1>1, <1>2 DEF Pushes, Spinning!TailIsClaimed
  <2>4. ~cast.helps => Spinning!Claimers' = {t}
    BY <1>2, <2>3 DEF Spinning!Claimers
  <2> QED BY <1>1, <1>2, <2>1, <2>2, <2>4 DEF Pushes, Spinning!TailIsClaimed
<1> QED BY <1>4, <1>6, <1>7

-----------------------------------------------------------------------------
\* A push that finds its node without a next is at the dummy node.
LEMMA LinksTheDummy ==
  ASSUME IInv, NEW t \in Thread, pc[t] \in {"link", "help"},
         cast.helps => next[ptr[t]] = Null
  PROVE  /\ ptr[t] = tail.ptr /\ ptr[t] \in Node
         /\ next[tail.ptr] = Null
<1> USE DEF IInv
<1>1. CASE ~cast.helps
  <2>1. pc[t] = "link"
    BY <1>1 DEF Locals, LocalsOf
  <2>2. t \in Spinning!Claimers
    BY <2>1 DEF Spinning!Claimers
  <2>3. ptr[t] = tail.ptr /\ Spinning!Claimers = {t}
    BY <1>1, <2>2 DEF Pushes, Spinning!TailIsClaimed
  <2>4. \A u \in Thread : pc[u] # "move"
    BY <2>1, <2>3 DEF Spinning!Claimers
  <2> QED BY <1>1, <2>3, <2>4, LinkedFacts DEF Pushes
<1>2. CASE cast.helps
  <2>1. ptr[t] = tail.ptr \/ ptr[t] \in Linked
    BY DEF Pushes, PushesOf, AtTail, Locals, LocalsOf, Apart
  <2>2. \A i \in 1 .. Len(queue) : next[queue[i]] # Null
    <3>1. \A n : Counted(1, n) # Null
      BY NullTyped, CountedFields
    <3> QED BY <3>1 DEF Chain
  <2> QED BY <1>2, <2>1, <2>2, LinkedFacts
<1> QED BY <1>1, <1>2

LEMMA LinkKeeps ==
  ASSUME IInv, NEW t \in Thread, t \in cast.pushers,
         \/ ~cast.helps /\ Spinning!Link(t) /\ UNCHANGED neo
         \/ cast.helps /\ (Link(t) \/ Help(t))
  PROVE  IInv'
<1> USE Nulls, NullTyped DEF IInv
<1> DEFINE m == mine[t]
<1>1. /\ UNCHANGED <<cast, head, tail, data, counts, old, ptr, nxt, arg, queue>>
      /\ next' = [next EXCEPT ![ptr[t]] = Counted(1, m)]
      /\ pc[t] \in {"link", "help"}
      /\ pc[t] = "help" => cast.helps
      /\ pc' = [pc EXCEPT ![t] = IF pc[t] = "help" THEN "renew"
                                 ELSE IF cast.helps THEN "set" ELSE "move"]
      /\ mine' = IF cast.helps THEN [mine EXCEPT ![t] = NoNode] ELSE mine
      /\ neo' = IF cast.helps THEN [neo EXCEPT ![t] = Counted(1, m)] ELSE neo
      /\ cast.helps => next[ptr[t]] = Null
  BY DEF Link, Help, LinkOwn, Spinning!Link, Goto, Spinning!Goto, push, Spinning!push, counts,
     Spinning!counts, Unlinked, Spinning!Counted, Counted
<1>2. ptr[t] = tail.ptr /\ ptr[t] \in Node /\ next[tail.ptr] = Null
  BY <1>1, LinksTheDummy
<1>3. m # NoNode /\ m \in Node /\ Counted(1, m) # Null /\ Counted(1, m).ptr = m
      /\ Counted(1, m).external_count = 1 /\ Counted(1, m) \in CountedPtrs
  <2>1. m # NoNode /\ m \in Node
    BY <1>1 DEF Typed, TypeOK, Locals, LocalsOf
  <2>2. Counted(1, m).external_count = 1 /\ Counted(1, m).ptr = m
    BY CountedFields
  <2>3. 1 \in 0 .. MaxCount
    BY BoundPositive
  <2> QED BY <2>1, <2>2, <2>3, CountedTyped
<1>4. /\ \A n \in Node \ {tail.ptr} : next'[n] = next[n]
      /\ next'[tail.ptr] = Counted(1, m)
  BY <1>1, <1>2 DEF Typed, TypeOK
<1>5. /\ \A u \in Thread \ {t} : pc'[u] = pc[u] /\ mine'[u] = mine[u] /\ neo'[u] = neo[u]
      /\ pc'[t] = IF pc[t] = "help" THEN "renew" ELSE IF cast.helps THEN "set" ELSE "move"
      /\ mine'[t] = IF cast.helps THEN NoNode ELSE m
      /\ cast.helps => neo'[t] = Counted(1, m)
  BY <1>1 DEF Typed, TypeOK
<1>a. pc'[t] \in {"renew", "set", "move"}
  BY <1>5
<1>b. \A u \in Thread : /\ pc'[u] \in FromHead <=> pc[u] \in FromHead
                        /\ \A l \in {"get", "free tail", "read", "take"} : pc'[u] = l <=> pc[u] = l
  <2>1. ASSUME NEW u \in Thread \ {t}
        PROVE  /\ pc'[u] \in FromHead <=> pc[u] \in FromHead
               /\ \A l \in {"get", "free tail", "read", "take"} : pc'[u] = l <=> pc[u] = l
    BY <1>5
  <2>2. /\ pc'[t] \notin FromHead /\ pc[t] \notin FromHead
        /\ \A l \in {"get", "free tail", "read", "take"} : pc'[t] # l /\ pc[t] # l
    BY <1>1, <1>a DEF FromHead
  <2> QED BY <2>1, <2>2
<1>6. Linked' = Linked /\ \A n \in Node : Made(n)' <=> Made(n)
  <2>1. Linked' = Linked
    BY <1>1 DEF Linked
  <2>2. \A n \in Node : Made(n) <=> \E u \in Thread : mine[u] = n
    BY <1>2 DEF Made
  <2>3. \A n \in Node : Made(n)' <=> n = m \/ \E u \in Thread : mine'[u] = n
    BY <1>1, <1>3, <1>4 DEF Made
  <2> QED BY <1>5, <2>1, <2>2, <2>3
<1>7. Typed'
  <2>1. pc' \in [Thread -> AllPCs] /\ \A u \in Thread : pc'[u] = "get" => pc[u] = "get"
    BY <1>1, <1>5 DEF Typed, AllPCs, PushPCs
  <2>2. next' \in [Node -> CountedPtrs] /\ neo' \in [Thread -> CountedPtrs]
        /\ mine' \in [Thread -> Node \cup {NoNode}]
    BY <1>1, <1>3 DEF Typed, TypeOK
  <2> QED BY <1>1, <2>1, <2>2 DEF Typed, TypeOK, counts
<1>8. Locals'
  <2>1. LocalsOf(t)'
    <3>1. LocalsOf(t)
      BY DEF Locals
    <3>2. ptr'[t] = ptr[t] /\ old'[t] = old[t] /\ arg'[t] = arg[t] /\ cast' = cast
      BY <1>1
    <3>3. pc'[t] = "move" <=> ~cast.helps
      BY <1>1, <1>5
    <3>4. /\ pc[t] = "link" => pc'[t] = IF cast.helps THEN "set" ELSE "move"
          /\ pc[t] = "help" => pc'[t] = "renew"
      BY <1>5
    <3>5. pc[t] = "link" \/ pc[t] = "help"
      BY <1>1
    <3>6. /\ pc'[t] = "renew" => arg[t] # NoValue
          /\ pc'[t] = "set" => arg[t] = NoValue
      BY <3>1, <3>4, <3>5 DEF LocalsOf
    <3>7. /\ t \in cast.pushers
          /\ ptr[t] # NoNode /\ old[t].ptr = ptr[t]
      BY <3>1, <3>5 DEF LocalsOf, AtTail, Apart
    <3>8. mine'[t] # NoNode <=> pc'[t] = "move"
      BY <1>3, <1>5, <3>3
    <3> QED BY <1>a, <3>2, <3>3, <3>6, <3>7, <3>8 DEF LocalsOf, AtTail, FromHead, Apart, PushPCs, PopPCs
  <2>2. ASSUME NEW u \in Thread \ {t} PROVE LocalsOf(u)'
    <3>1. LocalsOf(u)
      BY DEF Locals
    <3>2. pc[u] = "take" => next'[ptr[u]] = next[ptr[u]]
      <4>1. pc[u] = "take" => ptr[u] # tail.ptr /\ ptr[u] \in Node
        BY <3>1 DEF Passed, LocalsOf, Apart, Typed, TypeOK
      <4> QED BY <1>4, <4>1
    <3>3. /\ pc'[u] = pc[u] /\ ptr'[u] = ptr[u] /\ old'[u] = old[u] /\ arg'[u] = arg[u]
          /\ nxt'[u] = nxt[u] /\ mine'[u] = mine[u] /\ cast' = cast
      BY <1>1, <1>5
    <3> QED BY <3>1, <3>2, <3>3 DEF LocalsOf
  <2> QED BY <2>1, <2>2 DEF Locals
<1>9. Chain' /\ NoUseAfterFree'
  <2>1. \A i \in 1 .. Len(queue) : next'[queue[i]] = next[queue[i]]
    BY <1>4, LinkedFacts DEF Chain
  <2> QED BY <1>1, <1>6, <2>1 DEF Chain, NoUseAfterFree, counts
<1>10. Passed'
  BY <1>1, <1>b, <1>6 DEF Passed
<1>11. FreshNodes'
  <2>1. \A n \in Node : Made(n)' => Fresh(n)'
    <3>1. tail.ptr \in Linked
      BY LinkedFacts
    <3> QED BY <1>1, <1>4, <1>6, <3>1 DEF FreshNodes, Fresh, counts
  <2>2. \A u, v \in Thread : mine'[u] # NoNode /\ mine'[v] = mine'[u] => v = u
    BY <1>5 DEF FreshNodes
  <2>3. \A u \in Thread : mine'[u] # NoNode /\ mine'[u] = m => pc'[u] = "move"
    <3>1. \A u \in Thread : mine[u] = m => u = t
      BY <1>3 DEF FreshNodes
    <3>2. pc[t] = "help" => cast.helps
      BY <1>1
    <3> QED BY <1>5, <3>1, <3>2
  <2> QED BY <1>1, <1>3, <1>4, <2>1, <2>2, <2>3 DEF FreshNodes
<1>12. Pushes'
  <2>1. PushesOf(t)'
    <3>1. PushesOf(t)
      BY DEF Pushes
    <3> QED BY <1>1, <1>2, <1>3, <1>4, <1>5, <1>6, <3>1 DEF PushesOf, AtTail
  <2>2. ASSUME NEW u \in Thread \ {t} PROVE PushesOf(u)'
    <3>1. PushesOf(u)
      BY DEF Pushes
    <3>2. pc[u] # "move"
      <4>1. CASE cast.helps
        BY <4>1 DEF Locals, LocalsOf
      <4>2. CASE ~cast.helps
        <5>1. t \in Spinning!Claimers
          BY <1>1, <4>2 DEF Spinning!Claimers
        <5>2. Spinning!Claimers = {t}
          BY <4>2, <5>1 DEF Pushes, Spinning!TailIsClaimed
        <5> QED BY <5>2 DEF Spinning!Claimers
      <4> QED BY <4>1, <4>2
    <3>3. pc[u] \in {"renew", "set"} => ptr[u] # tail.ptr /\ ptr[u] \in Node
      BY <1>2, <3>1 DEF PushesOf, Locals, LocalsOf, Apart, Typed, TypeOK
    <3> QED BY <1>1, <1>4, <1>5, <1>6, <3>1, <3>2, <3>3 DEF PushesOf, AtTail
  <2>3. ~cast.helps => Spinning!TailIsClaimed'
    <3> SUFFICES ASSUME ~cast.helps PROVE Spinning!TailIsClaimed'
      OBVIOUS
    <3>1. Spinning!Claimers' = Spinning!Claimers
      BY <1>1, <1>5 DEF Spinning!Claimers
    <3> QED BY <1>1, <3>1 DEF Pushes, Spinning!TailIsClaimed
  <2>4. ~cast.helps => pc'[t] = "move"
    BY <1>1, <1>5
  <2> QED BY <1>1, <2>1, <2>2, <2>3, <2>4 DEF Pushes
<1>13. Counts'
  <2> SUFFICES ASSUME NEW n \in live, ~Made(n) PROVE Balanced(n)'
    BY <1>1, <1>6, LinkedFacts DEF Counts, counts
  <2>1. Balanced(n)
    BY DEF Counts
  <2>2. LinkCount(n)' = LinkCount(n)
    BY <1>1 DEF LinkCount
  <2>3. \A u \in Thread : /\ pc'[u] \in FromHead <=> pc[u] \in FromHead
                          /\ pc'[u] = "free tail" <=> pc[u] = "free tail"
    BY <1>b
  <2> QED BY <1>1, <1>6, <2>1, <2>2, <2>3, BalanceKept DEF counts
<1> QED BY <1>7, <1>8, <1>9, <1>10, <1>11, <1>12, <1>13

-----------------------------------------------------------------------------
\* The steps that make a node: the start of a push, and the one of a helper that has
\* given its node away.
LEMMA MakeKeeps ==
  ASSUME IInv, NEW t \in Thread, t \in cast.pushers,
         \/ \E v \in Value : CallPush(t, v) /\ UNCHANGED neo
         \/ cast.helps /\ Renew(t)
  PROVE  IInv'
<1> USE Nulls, NullTyped DEF IInv
<1>1. PICK n \in Node : New(n) /\ mine' = [mine EXCEPT ![t] = n]
  BY DEF CallPush, Renew
<1>d. PICK d \in FreshData : data' = [data EXCEPT ![n] = d]
  BY <1>1 DEF New
<1>2. /\ n \notin live /\ live' = live \cup {n}
      /\ internal' = [internal EXCEPT ![n] = 0] /\ external' = [external EXCEPT ![n] = 2]
      /\ next' = [next EXCEPT ![n] = Null] /\ data' = [data EXCEPT ![n] = d] /\ d \notin Value
  BY <1>1, <1>d, FreshIsNoValue DEF New
<1>3. /\ UNCHANGED <<cast, head, tail, ptr, nxt, queue, neo>>
      /\ \/ /\ pc[t] = "idle" /\ pc' = [pc EXCEPT ![t] = "announce tail"]
            /\ (\E v \in Value : arg' = [arg EXCEPT ![t] = v]) /\ old' = [old EXCEPT ![t] = tail]
         \/ /\ pc[t] = "renew" /\ pc' = [pc EXCEPT ![t] = "set"] /\ UNCHANGED <<arg, old>>
            /\ cast.helps
  BY DEF CallPush, Renew, Goto
<1>4. /\ \A m \in Node \ {n} : /\ internal'[m] = internal[m] /\ external'[m] = external[m]
                               /\ next'[m] = next[m] /\ data'[m] = data[m]
      /\ internal'[n] = 0 /\ external'[n] = 2 /\ next'[n] = Null /\ data'[n] \notin Value
  BY <1>2 DEF Typed, TypeOK
<1>5. /\ \A u \in Thread \ {t} : /\ pc'[u] = pc[u] /\ mine'[u] = mine[u] /\ arg'[u] = arg[u]
                                 /\ old'[u] = old[u]
      /\ mine'[t] = n
      /\ \/ pc[t] = "idle" /\ pc'[t] = "announce tail" /\ arg'[t] \in Value
         \/ pc[t] = "renew" /\ pc'[t] = "set" /\ arg'[t] = arg[t] /\ old'[t] = old[t]
  BY <1>1, <1>3 DEF Typed, TypeOK
<1>6. mine[t] = NoNode
  BY <1>5 DEF Locals, LocalsOf
<1>7. /\ n \notin Linked /\ ~Made(n)
      /\ \A u \in Thread : ptr[u] # n /\ mine[u] # n
  <2>1. ~Made(n)
    BY <1>2 DEF FreshNodes, Fresh
  <2> QED BY <1>2, <2>1, LinkedFacts DEF NoUseAfterFree, Made
<1>8. /\ Linked' = Linked
      /\ \A m \in Node : Made(m)' <=> m = n \/ Made(m)
  <2>1. Linked' = Linked
    BY <1>3 DEF Linked
  <2>2. next'[tail'.ptr] = next[tail.ptr]
    BY <1>3, <1>4, <1>7, LinkedFacts
  <2>3. ASSUME NEW m \in Node PROVE Made(m)' <=> m = n \/ Made(m)
    <3>1. (\E u \in Thread : mine'[u] = m) <=> m = n \/ \E u \in Thread : mine[u] = m
      BY <1>5, <1>6
    <3> QED BY <2>2, <3>1 DEF Made
  <2> QED BY <2>1, <2>3
<1>9. /\ \A u \in Thread : /\ pc'[u] \in FromHead <=> pc[u] \in FromHead
                           /\ \A l \in {"get", "free tail", "read", "take", "move", "link"} :
                                 pc'[u] = l <=> pc[u] = l
  <2>1. ASSUME NEW u \in Thread \ {t}
        PROVE  /\ pc'[u] \in FromHead <=> pc[u] \in FromHead
               /\ \A l \in {"get", "free tail", "read", "take", "move", "link"} : pc'[u] = l <=> pc[u] = l
    BY <1>5
  <2>2. /\ pc'[t] \notin FromHead /\ pc[t] \notin FromHead
        /\ \A l \in {"get", "free tail", "read", "take", "move", "link"} : pc'[t] # l /\ pc[t] # l
    BY <1>5 DEF FromHead
  <2> QED BY <2>1, <2>2
<1>10. \A u \in Thread : ptr[u] # NoNode => ptr[u] \in Node \ {n}
  BY <1>7 DEF Typed, TypeOK
<1>a. \A u \in Thread : pc[u] \notin Apart => ptr[u] # NoNode
  BY DEF Locals, LocalsOf
<1>b. tail.ptr \in Node \ {n} /\ \A i \in 1 .. Len(queue) : queue[i] \in Node \ {n}
  BY <1>7, LinkedFacts
<1>11. Typed'
  <2>1. pc' \in [Thread -> AllPCs]
    BY <1>3 DEF Typed, AllPCs, PushPCs
  <2>2. /\ mine' \in [Thread -> Node \cup {NoNode}] /\ arg' \in [Thread -> Value \cup {NoValue}]
        /\ old' \in [Thread -> CountedPtrs]
    <3>1. /\ mine \in [Thread -> Node \cup {NoNode}] /\ arg \in [Thread -> Value \cup {NoValue}]
          /\ old \in [Thread -> CountedPtrs] /\ tail \in CountedPtrs
      BY DEF Typed, TypeOK
    <3>2. arg'[t] \in Value \cup {NoValue} /\ old'[t] \in CountedPtrs
      <4>1. arg[t] \in Value \cup {NoValue} /\ old[t] \in CountedPtrs
        BY <3>1
      <4> QED BY ONLY <1>1, <1>3, <3>1, <4>1
    <3> QED BY ONLY <1>1, <1>3, <3>1
  <2>3. /\ internal' \in [Node -> Int] /\ external' \in [Node -> 0 .. 3]
        /\ next' \in [Node -> CountedPtrs] /\ data' \in [Node -> Value \cup {NoValue} \cup FreshData]
        /\ live' \subseteq Node
    BY <1>2 DEF Typed, TypeOK
  <2>4. \A u \in Thread : pc'[u] = "get" => data'[ptr'[u]] \in Value
    <3> SUFFICES ASSUME NEW u \in Thread, pc'[u] = "get" PROVE data'[ptr'[u]] \in Value
      OBVIOUS
    <3>1. pc[u] = "get"
      BY <1>9
    <3>2. ptr[u] \in Node \ {n}
      BY <1>10, <1>a, <3>1 DEF Apart
    <3> QED BY <1>3, <1>4, <3>1, <3>2 DEF Typed, TypeOK
  <2> QED BY <1>3, <2>1, <2>2, <2>3, <2>4 DEF Typed, TypeOK
<1>12. Locals'
  <2>1. LocalsOf(t)'
    <3>a. LocalsOf(t)
      BY DEF Locals
    <3>b. old' \in [Thread -> CountedPtrs]
      BY <1>11 DEF Typed, TypeOK
    <3>c. arg'[t] # NoValue
      BY ONLY <1>5, <3>a, Nulls DEF LocalsOf
    <3>1. LocalsOf(t) /\ old' \in [Thread -> CountedPtrs] /\ arg'[t] # NoValue
      BY <3>a, <3>b, <3>c
    <3> QED BY <1>1, <1>3, <1>5, <3>1 DEF LocalsOf, AtTail, FromHead, Apart, PushPCs, PopPCs
  <2>2. ASSUME NEW u \in Thread \ {t} PROVE LocalsOf(u)'
    <3>1. LocalsOf(u)
      BY DEF Locals
    <3>2. pc[u] = "take" => next'[ptr[u]] = next[ptr[u]]
      BY <1>4, <1>10, <1>a DEF Apart
    <3>3. /\ pc'[u] = pc[u] /\ ptr'[u] = ptr[u] /\ old'[u] = old[u] /\ arg'[u] = arg[u]
          /\ nxt'[u] = nxt[u] /\ mine'[u] = mine[u] /\ cast' = cast
      BY <1>3, <1>5
    <3> QED BY <3>1, <3>2, <3>3 DEF LocalsOf
  <2> QED BY <2>1, <2>2 DEF Locals
<1>13. Chain' /\ NoUseAfterFree'
  <2>1. \A i \in 1 .. Len(queue) : next'[queue[i]] = next[queue[i]] /\ data'[queue[i]] = data[queue[i]]
    BY <1>4, <1>b
  <2>2. Chain'
    BY <1>3, <2>1 DEF Chain
  <2>3. NoUseAfterFree'
    BY <1>2, <1>3, <1>8 DEF NoUseAfterFree
  <2> QED BY <2>2, <2>3
<1>14. Passed'
  <2>1. \A u \in Thread : pc'[u] = "get" => data'[ptr'[u]] \in Value
    BY <1>11 DEF Typed, TypeOK
  <2> QED BY <1>3, <1>8, <1>9, <2>1 DEF Passed
<1>15. FreshNodes'
  <2>1. \A m \in Node : Made(m)' => Fresh(m)'
    <3>1. Fresh(n)'
      BY <1>2, <1>3, <1>4, <1>7, <1>8 DEF Fresh
    <3>2. ASSUME NEW m \in Node \ {n}, Made(m) PROVE Fresh(m)'
      <4>1. Fresh(m)
        BY <3>2 DEF FreshNodes
      <4> QED BY <1>2, <1>3, <1>4, <1>8, <4>1 DEF Fresh
    <3> QED BY <1>8, <3>1, <3>2
  <2>2. \A u, v \in Thread : mine'[u] # NoNode /\ mine'[v] = mine'[u] => v = u
    <3>1. \A u, v \in Thread : mine[u] # NoNode /\ mine[v] = mine[u] => v = u
      BY DEF FreshNodes
    <3>2. \A u \in Thread \ {t} : mine'[u] = mine[u] /\ mine'[u] # n
      BY <1>5, <1>7
    <3>3. mine'[t] = n
      BY <1>5
    <3> HIDE DEF IInv
    <3> QED BY <3>1, <3>2, <3>3
  <2>3. next'[tail'.ptr] = next[tail.ptr]
    BY <1>3, <1>4, <1>b
  <2>4. \A u \in Thread : mine'[u] # NoNode /\ mine'[u] = next[tail.ptr].ptr => pc'[u] = "move"
    <3>1. next[tail.ptr].ptr # n
      BY <1>7 DEF Made
    <3>2. \A u \in Thread : mine[u] # NoNode /\ mine[u] = next[tail.ptr].ptr => pc[u] = "move"
      BY DEF FreshNodes
    <3>3. mine'[t] = n /\ \A u \in Thread \ {t} : mine'[u] = mine[u] /\ pc'[u] = pc[u]
      BY <1>5
    <3> QED BY ONLY <3>1, <3>2, <3>3
  <2> QED BY <2>1, <2>2, <2>3, <2>4 DEF FreshNodes
<1>16. Pushes'
  <2>1. \A u \in Thread : ptr[u] # NoNode => data'[ptr[u]] = data[ptr[u]] /\ next'[ptr[u]] = next[ptr[u]]
    BY <1>4, <1>10
  <2>2. PushesOf(t)'
    <3>1. PushesOf(t)
      BY DEF Pushes
    <3> QED BY <1>3, <1>5, <1>8, <1>a, <2>1, <3>1 DEF PushesOf, AtTail, Apart
  <2>3. ASSUME NEW u \in Thread \ {t} PROVE PushesOf(u)'
    <3>1. PushesOf(u)
      BY DEF Pushes
    <3>2. pc[u] \in AtTail => ptr[u] # NoNode
      BY <1>a DEF AtTail, Apart
    <3>3. {"link", "move", "renew", "set"} \subseteq AtTail
      BY DEF AtTail
    <3>4. /\ pc'[u] = pc[u] /\ ptr'[u] = ptr[u] /\ neo'[u] = neo[u] /\ mine'[u] = mine[u]
          /\ cast' = cast /\ tail' = tail
      BY <1>3, <1>5
    <3> QED BY <1>8, <2>1, <3>1, <3>2, <3>3, <3>4 DEF PushesOf
  <2>4. Spinning!Claimers' = Spinning!Claimers
    BY <1>9 DEF Spinning!Claimers
  <2>5. data'[tail'.ptr] = data[tail.ptr] /\ next'[tail'.ptr] = next[tail.ptr]
    BY <1>3, <1>4, <1>b
  <2>6. ~cast.helps => Spinning!TailIsClaimed'
    BY <1>3, <2>4, <2>5 DEF Pushes, Spinning!TailIsClaimed
  <2>7. ~cast.helps /\ next[tail.ptr] # Null => \E u \in Thread : pc'[u] = "move"
    BY <1>9 DEF Pushes
  <2> QED BY <1>3, <2>2, <2>3, <2>5, <2>6, <2>7 DEF Pushes
<1>17. Counts'
  <2> SUFFICES ASSUME NEW m \in live', ~Made(m)' PROVE Balanced(m)'
    BY DEF Counts
  <2>1. m \in live /\ m \in Node \ {n} /\ ~Made(m)
    BY <1>2, <1>8, LinkedFacts
  <2>2. Balanced(m)
    BY <2>1 DEF Counts
  <2>3. LinkCount(m)' = LinkCount(m)
    BY <1>3 DEF LinkCount
  <2>4. internal'[m] = internal[m] /\ external'[m] = external[m]
    BY <1>4, <2>1
  <2>5. \A u \in Thread : ptr[u] = m /\ pc[u] \in FromHead \cup {"free tail"} => old'[u] = old[u]
    BY <1>5 DEF FromHead
  <2> QED BY <1>3, <1>8, <1>9, <2>2, <2>3, <2>4, <2>5, BalanceKept
<1> QED BY <1>11, <1>12, <1>13, <1>14, <1>15, <1>16, <1>17

\* The push that was helped deletes the node it brought.
LEMMA LinkHelpedKeeps ==
  ASSUME IInv, NEW t \in Thread, t \in cast.pushers, cast.helps, LinkHelped(t)
  PROVE  IInv'
<1> USE Nulls, NullTyped DEF IInv
<1> DEFINE n == mine[t]
<1>1. /\ UNCHANGED <<cast, head, tail, next, internal, old, ptr, nxt, arg, queue>>
      /\ pc[t] = "link" /\ pc' = [pc EXCEPT ![t] = "set"] /\ next[ptr[t]] # Null
      /\ neo' = [neo EXCEPT ![t] = next[ptr[t]]]
      /\ live' = live \ {n} /\ external' = [external EXCEPT ![n] = 0]
      /\ data' = [data EXCEPT ![n] = NoValue] /\ mine' = [mine EXCEPT ![t] = NoNode]
  BY DEF LinkHelped, Goto, Unlinked
<1>2. /\ \A u \in Thread \ {t} : pc'[u] = pc[u] /\ mine'[u] = mine[u] /\ neo'[u] = neo[u]
      /\ pc'[t] = "set" /\ mine'[t] = NoNode /\ neo'[t] = next[ptr[t]]
  BY <1>1 DEF Typed, TypeOK
<1>3. n \in Node /\ n # NoNode /\ ptr[t] \in Node
  BY <1>1 DEF Typed, TypeOK, Locals, LocalsOf, Apart
<1>4. \A m \in Node \ {n} : external'[m] = external[m] /\ data'[m] = data[m]
  BY <1>1 DEF Typed, TypeOK
<1>5. /\ Made(n) /\ Fresh(n)
      /\ n \notin Linked /\ \A u \in Thread : ptr[u] # n
      /\ \A u \in Thread \ {t} : mine[u] # n
      /\ n # next[tail.ptr].ptr
  <2>1. Made(n)
    BY DEF Made
  <2>2. Fresh(n)
    BY <1>3, <2>1 DEF FreshNodes
  <2>3. n # next[tail.ptr].ptr
    BY <1>1, <1>3 DEF FreshNodes
  <2>4. \A u \in Thread \ {t} : mine[u] # n
    BY <1>3 DEF FreshNodes
  <2> QED BY <2>1, <2>2, <2>3, <2>4 DEF Fresh
<1>6. /\ Linked' = Linked
      /\ \A m \in Node : Made(m)' <=> Made(m) /\ m # n
  <2>1. Linked' = Linked
    BY <1>1 DEF Linked
  <2>2. ASSUME NEW m \in Node PROVE Made(m)' <=> Made(m) /\ m # n
    <3>1. (\E u \in Thread : mine'[u] = m) <=> m # n /\ \E u \in Thread : mine[u] = m
      BY <1>2, <1>5
    <3> QED BY <1>1, <1>5, <3>1 DEF Made
  <2> QED BY <2>1, <2>2
<1>7. \A u \in Thread : /\ pc'[u] \in FromHead <=> pc[u] \in FromHead
                        /\ \A l \in {"get", "free tail", "read", "take", "move"} :
                              pc'[u] = l <=> pc[u] = l
  <2>1. ASSUME NEW u \in Thread \ {t}
        PROVE  /\ pc'[u] \in FromHead <=> pc[u] \in FromHead
               /\ \A l \in {"get", "free tail", "read", "take", "move"} : pc'[u] = l <=> pc[u] = l
    BY <1>2
  <2>2. /\ pc'[t] \notin FromHead /\ pc[t] \notin FromHead
        /\ \A l \in {"get", "free tail", "read", "take", "move"} : pc'[t] # l /\ pc[t] # l
    BY <1>1, <1>2 DEF FromHead
  <2> QED BY <2>1, <2>2
<1>8. \A u \in Thread : ptr[u] # NoNode => ptr[u] \in Node \ {n} /\ data'[ptr[u]] = data[ptr[u]]
  BY <1>4, <1>5 DEF Typed, TypeOK
<1>a. \A u \in Thread : pc[u] \notin Apart => ptr[u] # NoNode
  BY DEF Locals, LocalsOf
<1>b. tail.ptr \in Node \ {n} /\ \A i \in 1 .. Len(queue) : queue[i] \in Node \ {n}
  BY <1>5, LinkedFacts
<1>9. Typed'
  <2>1. pc' \in [Thread -> AllPCs]
    BY <1>1 DEF Typed, AllPCs, PushPCs
  <2>2. /\ mine' \in [Thread -> Node \cup {NoNode}] /\ neo' \in [Thread -> CountedPtrs]
        /\ external' \in [Node -> 0 .. 3] /\ data' \in [Node -> Value \cup {NoValue} \cup FreshData]
        /\ live' \subseteq Node
    <3>1. next[ptr[t]] \in CountedPtrs
      BY <1>3 DEF Typed, TypeOK
    <3>2. /\ mine \in [Thread -> Node \cup {NoNode}] /\ neo \in [Thread -> CountedPtrs]
          /\ external \in [Node -> 0 .. 3] /\ data \in [Node -> Value \cup {NoValue} \cup FreshData]
          /\ live \subseteq Node
      BY DEF Typed, TypeOK
    <3>3. live' \subseteq Node /\ mine' \in [Thread -> Node \cup {NoNode}]
      BY <1>1, <3>2
    <3>4. neo' \in [Thread -> CountedPtrs]
      BY <1>1, <3>1, <3>2
    <3>5. external' \in [Node -> 0 .. 3] /\ data' \in [Node -> Value \cup {NoValue} \cup FreshData]
      <4>1. external' \in [Node -> 0 .. 3]
        BY <1>1, <1>3, <3>2
      <4>2. data' \in [Node -> Value \cup {NoValue} \cup FreshData]
        BY <1>1, <3>2
      <4> QED BY <4>1, <4>2
    <3> QED BY <3>3, <3>4, <3>5
  <2>3. \A u \in Thread : pc'[u] = "get" => data'[ptr'[u]] \in Value
    <3> SUFFICES ASSUME NEW u \in Thread, pc'[u] = "get" PROVE data'[ptr'[u]] \in Value
      OBVIOUS
    <3>1. pc[u] = "get"
      BY <1>7
    <3>2. data[ptr[u]] \in Value /\ ptr[u] # NoNode
      BY <1>a, <3>1 DEF Passed, Apart
    <3> QED BY <1>1, <1>8, <3>2
  <2> QED BY <1>1, <2>1, <2>2, <2>3 DEF Typed, TypeOK
<1>10. Locals'
  <2>1. LocalsOf(t)'
    <3>1. LocalsOf(t)
      BY DEF Locals
    <3>2. ptr'[t] = ptr[t] /\ old'[t] = old[t] /\ arg'[t] = arg[t] /\ cast' = cast
      BY <1>1
    <3> QED BY <1>1, <1>2, <3>1, <3>2 DEF LocalsOf, AtTail, FromHead, Apart, PushPCs, PopPCs
  <2>2. ASSUME NEW u \in Thread \ {t} PROVE LocalsOf(u)'
    <3>1. LocalsOf(u)
      BY DEF Locals
    <3>2. /\ pc'[u] = pc[u] /\ ptr'[u] = ptr[u] /\ old'[u] = old[u] /\ arg'[u] = arg[u]
          /\ nxt'[u] = nxt[u] /\ mine'[u] = mine[u] /\ cast' = cast /\ next' = next
      BY <1>1, <1>2
    <3> QED BY <3>1, <3>2 DEF LocalsOf
  <2> QED BY <2>1, <2>2 DEF Locals
<1>11. Chain' /\ NoUseAfterFree'
  <2>1. \A i \in 1 .. Len(queue) : data'[queue[i]] = data[queue[i]]
    BY <1>4, <1>b
  <2>2. Chain'
    BY <1>1, <2>1 DEF Chain
  <2>3. NoUseAfterFree'
    BY <1>1, <1>5, <1>6 DEF NoUseAfterFree
  <2> QED BY <2>2, <2>3
<1>12. Passed'
  <2>1. \A u \in Thread : pc'[u] = "get" => data'[ptr'[u]] \in Value
    BY <1>9 DEF Typed, TypeOK
  <2> QED BY <1>1, <1>6, <1>7, <2>1 DEF Passed
<1>13. FreshNodes'
  <2>1. ASSUME NEW m \in Node \ {n}, Made(m) PROVE Fresh(m)'
    <3>1. Fresh(m)
      BY <2>1 DEF FreshNodes
    <3> QED BY <1>1, <1>4, <1>6, <3>1 DEF Fresh
  <2>2. \A m \in Node : Made(m)' => Fresh(m)'
    BY <1>6, <2>1
  <2>3. \A u, v \in Thread : mine'[u] # NoNode /\ mine'[v] = mine'[u] => v = u
    <3>1. \A u, v \in Thread : mine[u] # NoNode /\ mine[v] = mine[u] => v = u
      BY DEF FreshNodes
    <3> QED BY <1>2, <3>1
  <2>4. \A u \in Thread : mine'[u] # NoNode /\ mine'[u] = next[tail.ptr].ptr => pc'[u] = "move"
    <3>1. \A u \in Thread : mine[u] # NoNode /\ mine[u] = next[tail.ptr].ptr => pc[u] = "move"
      BY DEF FreshNodes
    <3> QED BY <1>2, <3>1
  <2> QED BY <1>1, <2>2, <2>3, <2>4 DEF FreshNodes
<1>14. Pushes'
  <2>1. PushesOf(t)'
    <3>1. PushesOf(t)
      BY DEF Pushes
    <3>2. ptr[t] # NoNode
      BY <1>3
    <3> QED BY <1>1, <1>2, <1>6, <1>8, <3>1, <3>2 DEF PushesOf, AtTail
  <2>2. ASSUME NEW u \in Thread \ {t} PROVE PushesOf(u)'
    <3>1. PushesOf(u)
      BY DEF Pushes
    <3>2. pc[u] \in AtTail => ptr[u] # NoNode
      BY <1>a DEF AtTail, Apart
    <3>3. {"link", "move", "renew", "set"} \subseteq AtTail
      BY DEF AtTail
    <3>4. /\ pc'[u] = pc[u] /\ ptr'[u] = ptr[u] /\ neo'[u] = neo[u] /\ mine'[u] = mine[u]
          /\ cast' = cast /\ tail' = tail /\ next' = next
      BY <1>1, <1>2
    <3> QED BY <1>6, <1>8, <3>1, <3>2, <3>3, <3>4 DEF PushesOf
  <2> QED BY <1>1, <2>1, <2>2 DEF Pushes
<1>15. Counts'
  <2> SUFFICES ASSUME NEW m \in live', ~Made(m)' PROVE Balanced(m)'
    BY DEF Counts
  <2>1. m \in live /\ m \in Node \ {n} /\ ~Made(m)
    BY <1>1, <1>6, LinkedFacts
  <2>2. Balanced(m)
    BY <2>1 DEF Counts
  <2>3. LinkCount(m)' = LinkCount(m)
    BY <1>1 DEF LinkCount
  <2>4. internal'[m] = internal[m] /\ external'[m] = external[m]
    BY <1>1, <1>4, <2>1
  <2> QED BY <1>1, <1>6, <1>7, <2>2, <2>3, <2>4, BalanceKept
<1> QED BY <1>9, <1>10, <1>11, <1>12, <1>13, <1>14, <1>15

-----------------------------------------------------------------------------
(* A thread announces a node: the share that leads to it counts one more, and it *)
(* has one more user.                                                           *)

\* What an announcement leaves alone.
LEMMA AnnounceKeeps ==
  ASSUME IInv, NEW t \in Thread, NEW n \in live,
         UNCHANGED <<cast, nodes, nxt, queue, push, neo>>,
         head'.ptr = head.ptr, tail'.ptr = tail.ptr,
         ptr' = [ptr EXCEPT ![t] = n],
         \A u \in Thread \ {t} : pc'[u] = pc[u] /\ old'[u] = old[u],
         pc[t] \in {"announce head", "announce tail"}, pc'[t] \in {"compare tail", "claim"},
         ~Made(n), Typed', LocalsOf(t)', PushesOf(t)'
  PROVE  /\ Locals' /\ Chain' /\ NoUseAfterFree' /\ Passed' /\ FreshNodes' /\ Pushes'
         /\ Linked' = Linked /\ \A m : Made(m)' <=> Made(m)
<1> USE Nulls
<1>0. Typed /\ Locals /\ Chain /\ NoUseAfterFree /\ Passed /\ FreshNodes /\ Pushes
  BY DEF IInv
<1>1. Linked' = Linked /\ \A m : Made(m)' <=> Made(m)
  BY DEF Linked, Made, nodes, push
<1>2. ptr'[t] = n /\ \A u \in Thread \ {t} : ptr'[u] = ptr[u]
  BY <1>0 DEF Typed, TypeOK
<1>3. \A u \in Thread : /\ pc'[u] \in FromHead <=> pc[u] \in FromHead
                        /\ \A l \in {"get", "free tail", "read", "take", "move", "link"} :
                              pc'[u] = l <=> pc[u] = l
  <2>1. ASSUME NEW u \in Thread \ {t}
        PROVE  /\ pc'[u] \in FromHead <=> pc[u] \in FromHead
               /\ \A l \in {"get", "free tail", "read", "take", "move", "link"} : pc'[u] = l <=> pc[u] = l
    OBVIOUS
  <2>2. /\ pc'[t] \notin FromHead /\ pc[t] \notin FromHead
        /\ \A l \in {"get", "free tail", "read", "take", "move", "link"} : pc'[t] # l /\ pc[t] # l
    BY DEF FromHead
  <2> QED BY <2>1, <2>2
<1>a. UNCHANGED <<data, next, internal, external, live, arg, mine>>
  BY DEF nodes, counts, push
<1>4. Locals'
  <2> SUFFICES ASSUME NEW u \in Thread \ {t} PROVE LocalsOf(u)'
    BY DEF Locals
  <2>1. LocalsOf(u)
    BY <1>0 DEF Locals
  <2>2. /\ pc'[u] = pc[u] /\ ptr'[u] = ptr[u] /\ old'[u] = old[u] /\ arg'[u] = arg[u]
        /\ nxt'[u] = nxt[u] /\ mine'[u] = mine[u] /\ cast' = cast /\ next' = next
    BY <1>2, <1>a
  <2> QED BY ONLY <2>1, <2>2 DEF LocalsOf
<1>5. Chain'
  BY <1>0, <1>a DEF Chain
<1>6. NoUseAfterFree'
  <2>1. \A u \in Thread : ptr'[u] # NoNode => ptr'[u] \in live
    BY <1>0, <1>2 DEF NoUseAfterFree
  <2> QED BY <1>0, <1>1, <1>a, <2>1 DEF NoUseAfterFree
<1>7. Passed'
  <2>1. \A u \in Thread : /\ pc'[u] \in FromHead => u # t
                          /\ \A l \in {"get", "free tail", "read", "take"} : pc'[u] = l => u # t
    BY DEF FromHead
  <2>2. ASSUME NEW u \in Thread
        PROVE  /\ pc'[u] \in {"read", "take", "free tail"} => ptr'[u] # tail'.ptr
               /\ pc'[u] \in FromHead => ptr'[u] \notin Linked'
               /\ pc'[u] = "get" => data'[ptr'[u]] \in Value
    <3>1. CASE u = t
      BY <2>1, <3>1
    <3>2. CASE u # t
      <4>1. /\ pc[u] \in {"read", "take", "free tail"} => ptr[u] # tail.ptr
            /\ pc[u] \in FromHead => ptr[u] \notin Linked
            /\ pc[u] = "get" => data[ptr[u]] \in Value
        BY <1>0 DEF Passed
      <4>2. pc'[u] = pc[u] /\ ptr'[u] = ptr[u] /\ data' = data /\ tail'.ptr = tail.ptr
            /\ Linked' = Linked
        BY <1>1, <1>2, <1>a, <3>2
      <4>3. pc'[u] \in {"read", "take", "free tail"} => ptr'[u] # tail'.ptr
        BY ONLY <4>1, <4>2
      <4>4. pc'[u] \in FromHead => ptr'[u] \notin Linked'
        BY ONLY <4>1, <4>2
      <4>5. pc'[u] = "get" => data'[ptr'[u]] \in Value
        BY ONLY <4>1, <4>2
      <4> QED BY <4>3, <4>4, <4>5
    <3> QED BY <3>1, <3>2
  <2>3. ASSUME NEW u \in Thread, NEW v \in Thread, ptr'[v] = ptr'[u]
        PROVE  /\ pc'[u] \in FromHead /\ pc'[v] \in FromHead => v = u
               /\ pc'[u] = "free tail" /\ pc'[v] = "free tail" => v = u
    <3>1. CASE u = t \/ v = t
      BY <2>1, <3>1
    <3>2. CASE u # t /\ v # t
      <4>1. ptr[v] = ptr[u] => /\ pc[u] \in FromHead /\ pc[v] \in FromHead => v = u
                               /\ pc[u] = "free tail" /\ pc[v] = "free tail" => v = u
        BY <1>0 DEF Passed
      <4> QED BY <1>2, <2>3, <3>2, <4>1
    <3> QED BY <3>1, <3>2
  <2> QED BY <2>2, <2>3 DEF Passed
<1>8. FreshNodes'
  <2>1. ASSUME NEW m \in Node, Made(m) PROVE Fresh(m)'
    <3>1. Fresh(m) /\ m # n
      BY <1>0, <2>1 DEF FreshNodes
    <3> QED BY <1>1, <1>2, <1>a, <3>1 DEF Fresh
  <2>2. \A u \in Thread : mine'[u] # NoNode /\ mine'[u] = next'[tail'.ptr].ptr => pc'[u] = "move"
    BY <1>0, <1>3, <1>a DEF FreshNodes
  <2> QED BY <1>0, <1>1, <1>a, <2>1, <2>2 DEF FreshNodes
<1>9. Pushes'
  <2>1. ASSUME NEW u \in Thread \ {t} PROVE PushesOf(u)'
    <3>1. PushesOf(u)
      BY <1>0 DEF Pushes
    <3>2. /\ pc'[u] = pc[u] /\ ptr'[u] = ptr[u] /\ neo'[u] = neo[u] /\ mine'[u] = mine[u]
          /\ cast' = cast /\ next' = next /\ data' = data /\ tail'.ptr = tail.ptr
          /\ Linked' = Linked
      BY <1>1, <1>2, <1>a
    <3> QED BY ONLY <3>1, <3>2 DEF PushesOf
  <2>2. Spinning!Claimers' = Spinning!Claimers
    BY <1>3 DEF Spinning!Claimers
  <2>3. \A u \in Spinning!Claimers : u \in Thread \ {t}
    BY DEF Spinning!Claimers
  <2>4. ~cast.helps => Spinning!TailIsClaimed'
    <3>1. ~cast.helps => Spinning!TailIsClaimed
      BY <1>0 DEF Pushes
    <3>2. data'[tail'.ptr] = data[tail.ptr] /\ \A u \in Spinning!Claimers : ptr'[u] = ptr[u]
      BY <1>2, <1>a, <2>3
    <3> QED BY <2>2, <3>1, <3>2 DEF Spinning!TailIsClaimed
  <2>5. ~cast.helps /\ next[tail.ptr] # Null => \E u \in Thread : pc'[u] = "move"
    BY <1>0, <1>3 DEF Pushes
  <2> QED BY <1>a, <2>1, <2>4, <2>5 DEF Pushes
<1> QED BY <1>1, <1>4, <1>5, <1>6, <1>7, <1>8, <1>9

LEMMA AnnouncedFields ==
  ASSUME NEW c, c \in CountedPtrs, c.external_count < MaxCount
  PROVE  /\ Announced(c) \in CountedPtrs /\ Announced(c).ptr = c.ptr
         /\ Announcements(Announced(c)) = Announcements(c) + 1
         /\ Announcements(c) \in Int
<1>1. /\ c.external_count \in 0 .. MaxCount /\ c.ptr \in Node \cup {NoNode}
      /\ c.external_count + 1 \in 0 .. MaxCount
  BY BoundPositive DEF CountedPtrs
<1> QED BY <1>1, CountedTyped, CountedFields DEF Announced, Announcements

\* The counts of the nodes a thread does not announce.
LEMMA OthersKept ==
  ASSUME IInv, NEW t \in Thread, NEW n \in Node,
         \A u \in Thread \ {t} : pc'[u] = pc[u] /\ old'[u] = old[u] /\ ptr'[u] = ptr[u],
         ptr[t] \in {n, NoNode}, ptr'[t] \in {n, NoNode},
         NEW m \in live \ {n}, Balanced(m), m \in Linked' <=> m \in Linked,
         m \in Linked => LinkCount(m)' = LinkCount(m),
         tail'.ptr = m <=> tail.ptr = m, tail.ptr = m => tail' = tail,
         internal'[m] = internal[m], external'[m] = external[m]
  PROVE  Balanced(m)'
<1>1. m # NoNode
  BY Nulls DEF IInv, Typed, TypeOK
<1>2. \A u \in Thread : ptr'[u] = m <=> ptr[u] = m
  BY <1>1
<1>3. \A u \in Thread : ptr[u] = m => pc'[u] = pc[u] /\ old'[u] = old[u]
  BY <1>1
<1> QED BY <1>2, <1>3, BalanceKept

LEMMA AnnounceHeadKeeps ==
  ASSUME IInv, NEW t \in Thread, t \in cast.poppers, AnnounceHead(t), UNCHANGED neo PROVE IInv'
<1> USE Nulls DEF IInv
<1>0. PICK n \in Node : n = head.ptr
  BY LinkedFacts
<1>1. /\ UNCHANGED <<cast, tail, nodes, nxt, queue, push, neo>>
      /\ pc[t] = "announce head" /\ pc' = [pc EXCEPT ![t] = "compare tail"]
      /\ head' = Announced(head) /\ old' = [old EXCEPT ![t] = head']
      /\ ptr' = [ptr EXCEPT ![t] = n] /\ head.external_count < MaxCount
  BY <1>0 DEF AnnounceHead, Goto
<1>2. n \in Linked /\ n \in live /\ n \in Node
  BY <1>0, LinkedFacts
<1>3. head' \in CountedPtrs /\ head'.ptr = n /\ Announcements(head') = Announcements(head) + 1
      /\ Announcements(head) \in Int
  BY <1>0, <1>1, AnnouncedFields DEF Typed, TypeOK
<1>4. /\ \A u \in Thread \ {t} : pc'[u] = pc[u] /\ old'[u] = old[u] /\ ptr'[u] = ptr[u]
      /\ pc'[t] = "compare tail" /\ old'[t] = head' /\ ptr'[t] = n /\ ptr[t] = NoNode
  BY <1>1 DEF Typed, TypeOK, Locals, LocalsOf, Apart
<1>5. Typed'
  <2>1. pc' \in [Thread -> AllPCs]
    BY <1>1 DEF Typed, AllPCs, PopPCs
  <2>2. old' \in [Thread -> CountedPtrs] /\ ptr' \in [Thread -> Node \cup {NoNode}]
    BY <1>1, <1>2, <1>3 DEF Typed, TypeOK
  <2>3. \A u \in Thread : pc'[u] = "get" => pc[u] = "get" /\ ptr'[u] = ptr[u]
    BY <1>4
  <2> QED BY <1>1, <1>3, <2>1, <2>2, <2>3 DEF Typed, TypeOK, nodes, counts, push
<1>6. LocalsOf(t)'
  <2>1. LocalsOf(t)
    BY DEF Locals
  <2>2. mine'[t] = mine[t] /\ arg'[t] = arg[t] /\ cast' = cast
    BY <1>1 DEF push
  <2>3. ptr'[t] # NoNode
    BY <1>2, <1>4
  <2> QED BY <1>1, <1>3, <1>4, <2>1, <2>2, <2>3 DEF LocalsOf, AtTail, FromHead, Apart, PushPCs, PopPCs
<1>7. PushesOf(t)'
  <2>1. Linked' = Linked
    BY <1>1 DEF Linked
  <2> QED BY <1>2, <1>4, <2>1 DEF PushesOf, AtTail
<1>8. ~Made(n)
  BY <1>2 DEF FreshNodes, Fresh
<1>9. /\ Locals' /\ Chain' /\ NoUseAfterFree' /\ Passed' /\ FreshNodes' /\ Pushes'
      /\ Linked' = Linked /\ \A m : Made(m)' <=> Made(m)
  BY <1>0, <1>1, <1>2, <1>3, <1>4, <1>5, <1>6, <1>7, <1>8, AnnounceKeeps
<1>10. Counts'
  <2>1. Balanced(n)
    BY <1>2, <1>8 DEF Counts
  <2>2. HeadTakers(n)' = HeadTakers(n) /\ TailTakers(n)' = TailTakers(n)
    <3>1. pc'[t] \notin FromHead /\ pc[t] \notin FromHead /\ pc'[t] # "free tail" /\ pc[t] # "free tail"
      BY <1>1, <1>4 DEF FromHead
    <3> HIDE DEF IInv
    <3> QED BY <1>4, <3>1 DEF HeadTakers, TailTakers
  <2>3. \A u \in TailTakers(n) : old'[u] = old[u]
    BY <1>1, <1>4 DEF TailTakers
  <2>4. HeadShares(n)' = HeadShares(n) /\ TailShares(n)' = TailShares(n)
    <3>1. Linked' = Linked /\ tail' = tail
      BY <1>1, <1>9
    <3> HIDE DEF IInv
    <3> QED BY <2>2, <3>1 DEF HeadShares, TailShares
  <2>5. TailCount(n)' = TailCount(n)
    <3>1. PendingOf(TailTakers(n), old') = PendingOf(TailTakers(n), old)
      BY <2>3, PendingSame
    <3>2. tail' = tail
      BY <1>1
    <3> HIDE DEF IInv
    <3> QED BY <2>2, <3>1, <3>2 DEF TailCount
  <2>6. HeadCount(n)' = HeadCount(n) + 1 /\ HeadCount(n) \in Int
    <3>1. HeadCount(n) = Announcements(head)
      BY <1>0, <1>2 DEF HeadCount, LinkCount
    <3>2. HeadCount(n)' = Announcements(head')
      BY <1>2, <1>3, <1>9 DEF HeadCount, LinkCount
    <3> QED BY <1>3, <3>1, <3>2
  <2>7. Cardinality(Users(n)') = Cardinality(Users(n)) + 1
    BY <1>1, <1>2, <1>4, UsersJoin
  <2>8. internal' = internal /\ external' = external /\ internal[n] \in Int
    BY <1>1, <1>2 DEF nodes, counts, Typed, TypeOK
  <2>t. TailCount(n) \in Int
    BY TailCountInt
  <2>9. Balanced(n)'
    <3> HIDE DEF IInv
    <3> QED BY <2>1, <2>4, <2>5, <2>6, <2>7, <2>8, <2>t, UsersFinite DEF Balanced
  <2>10. ASSUME NEW m \in live \ {n}, ~Made(m) PROVE Balanced(m)'
    <3>1. Balanced(m)
      BY <2>10 DEF Counts
    <3>2. LinkCount(m)' = LinkCount(m)
      BY <1>0, <1>3 DEF LinkCount
    <3>3. tail' = tail /\ Linked' = Linked
      BY <1>1, <1>9
    <3> HIDE DEF IInv
    <3> QED BY <1>2, <1>4, <2>8, <3>1, <3>2, <3>3, OthersKept
  <2>11. live' = live
    BY <1>1 DEF nodes, counts
  <2> HIDE DEF IInv
  <2> QED BY <1>9, <2>9, <2>10, <2>11 DEF Counts
<1> QED BY <1>5, <1>9, <1>10

LEMMA AnnounceTailKeeps ==
  ASSUME IInv, NEW t \in Thread, t \in cast.pushers, AnnounceTail(t), UNCHANGED neo PROVE IInv'
<1> USE Nulls DEF IInv
<1>0. PICK n \in Node : n = tail.ptr
  BY LinkedFacts
<1>1. /\ UNCHANGED <<cast, head, nodes, nxt, queue, push, neo>>
      /\ pc[t] = "announce tail" /\ pc' = [pc EXCEPT ![t] = "claim"]
      /\ tail' = Announced(tail) /\ old' = [old EXCEPT ![t] = tail']
      /\ ptr' = [ptr EXCEPT ![t] = n] /\ tail.external_count < MaxCount
  BY <1>0 DEF AnnounceTail, Goto
<1>2. n \in Linked /\ n \in live /\ n \in Node
  BY <1>0, LinkedFacts
<1>3. tail' \in CountedPtrs /\ tail'.ptr = n /\ Announcements(tail') = Announcements(tail) + 1
      /\ Announcements(tail) \in Int
  BY <1>0, <1>1, AnnouncedFields DEF Typed, TypeOK
<1>4. /\ \A u \in Thread \ {t} : pc'[u] = pc[u] /\ old'[u] = old[u] /\ ptr'[u] = ptr[u]
      /\ pc'[t] = "claim" /\ old'[t] = tail' /\ ptr'[t] = n /\ ptr[t] = NoNode
  BY <1>1 DEF Typed, TypeOK, Locals, LocalsOf, Apart
<1>5. Typed'
  <2>1. pc' \in [Thread -> AllPCs]
    BY <1>1 DEF Typed, AllPCs, PushPCs
  <2>2. old' \in [Thread -> CountedPtrs] /\ ptr' \in [Thread -> Node \cup {NoNode}]
    BY <1>1, <1>2, <1>3 DEF Typed, TypeOK
  <2>3. \A u \in Thread : pc'[u] = "get" => pc[u] = "get" /\ ptr'[u] = ptr[u]
    BY <1>4
  <2> QED BY <1>1, <1>3, <2>1, <2>2, <2>3 DEF Typed, TypeOK, nodes, counts, push
<1>6. LocalsOf(t)'
  <2>1. LocalsOf(t)
    BY DEF Locals
  <2>2. mine'[t] = mine[t] /\ arg'[t] = arg[t] /\ cast' = cast
    BY <1>1 DEF push
  <2>3. ptr'[t] # NoNode
    BY <1>2, <1>4
  <2> QED BY <1>1, <1>3, <1>4, <2>1, <2>2, <2>3 DEF LocalsOf, AtTail, FromHead, Apart, PushPCs, PopPCs
<1>7. PushesOf(t)'
  <2>1. Linked' = Linked
    BY <1>0, <1>1, <1>3 DEF Linked
  <2>2. ptr'[t] = tail'.ptr /\ ptr'[t] \in Linked'
    BY <1>2, <1>3, <1>4, <2>1
  <2> QED BY <1>4, <2>2 DEF PushesOf, AtTail
<1>8. ~Made(n)
  BY <1>2 DEF FreshNodes, Fresh
<1>9. /\ Locals' /\ Chain' /\ NoUseAfterFree' /\ Passed' /\ FreshNodes' /\ Pushes'
      /\ Linked' = Linked /\ \A m : Made(m)' <=> Made(m)
  BY <1>0, <1>1, <1>2, <1>3, <1>4, <1>5, <1>6, <1>7, <1>8, AnnounceKeeps
<1>10. Counts'
  <2>1. Balanced(n)
    BY <1>2, <1>8 DEF Counts
  <2>2. HeadTakers(n)' = HeadTakers(n) /\ TailTakers(n)' = TailTakers(n)
    <3>1. pc'[t] \notin FromHead /\ pc[t] \notin FromHead /\ pc'[t] # "free tail" /\ pc[t] # "free tail"
      BY <1>1, <1>4 DEF FromHead
    <3> HIDE DEF IInv
    <3> QED BY <1>4, <3>1 DEF HeadTakers, TailTakers
  <2>3. \A u \in HeadTakers(n) : old'[u] = old[u]
    <3>1. t \notin HeadTakers(n)
      BY <1>1 DEF HeadTakers, FromHead
    <3>2. HeadTakers(n) \subseteq Thread
      BY DEF HeadTakers
    <3> QED BY <1>4, <3>1, <3>2
  <2>4. HeadShares(n)' = HeadShares(n) /\ TailShares(n)' = TailShares(n)
    <3>1. Linked' = Linked /\ tail'.ptr = tail.ptr
      BY <1>0, <1>3, <1>9
    <3> HIDE DEF IInv
    <3> QED BY <2>2, <3>1 DEF HeadShares, TailShares
  <2>5. HeadCount(n)' = HeadCount(n)
    <3>1. PendingOf(HeadTakers(n), old') = PendingOf(HeadTakers(n), old)
      BY <2>3, PendingSame
    <3>2. head' = head /\ Linked' = Linked
      BY <1>1, <1>9
    <3> QED BY ONLY <2>2, <3>1, <3>2 DEF HeadCount, LinkCount
  <2>6. TailCount(n)' = TailCount(n) + 1 /\ TailCount(n) \in Int
    <3>1. TailCount(n) = Announcements(tail)
      BY <1>0 DEF TailCount
    <3>2. TailCount(n)' = Announcements(tail')
      BY <1>3 DEF TailCount
    <3> QED BY <1>3, <3>1, <3>2
  <2>7. Cardinality(Users(n)') = Cardinality(Users(n)) + 1
    BY <1>1, <1>2, <1>4, UsersJoin
  <2>8. internal' = internal /\ external' = external /\ internal[n] \in Int
    BY <1>1, <1>2 DEF nodes, counts, Typed, TypeOK
  <2>t. HeadCount(n) \in Int
    BY HeadCountInt
  <2>9. Balanced(n)'
    <3> HIDE DEF IInv
    <3> QED BY <2>1, <2>4, <2>5, <2>6, <2>7, <2>8, <2>t, UsersFinite DEF Balanced
  <2>10. ASSUME NEW m \in live \ {n}, ~Made(m) PROVE Balanced(m)'
    <3>1. Balanced(m)
      BY <2>10 DEF Counts
    <3>2. LinkCount(m)' = LinkCount(m)
      BY <1>1 DEF LinkCount
    <3>3. tail'.ptr # m /\ tail.ptr # m /\ Linked' = Linked
      BY <1>0, <1>3, <1>9
    <3> HIDE DEF IInv
    <3> QED BY <1>2, <1>4, <2>8, <3>1, <3>2, <3>3, OthersKept
  <2>11. live' = live
    BY <1>1 DEF nodes, counts
  <2> HIDE DEF IInv
  <2> QED BY <1>9, <2>9, <2>10, <2>11 DEF Counts
<1> QED BY <1>5, <1>9, <1>10

-----------------------------------------------------------------------------
\* A pop takes the first node away: its next becomes head, and the thread has its share.
LEMMA TakeFacts ==
  ASSUME IInv, NEW t \in Thread, Take(t)
  PROVE  /\ ptr[t] = head.ptr /\ ptr[t] \in Linked /\ ptr[t] # tail.ptr
         /\ Len(queue) \in Nat \ {0} /\ ptr[t] = queue[1]
         /\ head' = Counted(1, IF Len(queue) = 1 THEN tail.ptr ELSE queue[2])
         /\ queue' \in Seq(Node) /\ Len(queue') = Len(queue) - 1
         /\ \A i \in 1 .. Len(queue') : queue'[i] = queue[i + 1]
         /\ Linked' = Linked \ {ptr[t]}
<1> USE DEF IInv
<1>1. /\ pc[t] = "take" /\ head = old[t] /\ head' = nxt[t] /\ queue' = SubSeq(queue, 2, Len(queue))
      /\ UNCHANGED tail
  BY DEF Take, HeadUnchanged
<1>2. ptr[t] = head.ptr /\ nxt[t] = next[ptr[t]] /\ ptr[t] # tail.ptr
  BY <1>1 DEF Locals, LocalsOf, Passed
<1>3. queue \in Seq(Node) /\ Len(queue) \in Nat /\ queue # <<>>
  BY <1>2, LinkedFacts DEF Chain
<1>4. Len(queue) \in Nat \ {0}
  BY <1>3, EmptySeq
<1>5. ptr[t] = queue[1] /\ head' = Counted(1, IF Len(queue) = 1 THEN tail.ptr ELSE queue[2])
  <2>1. ptr[t] = queue[1]
    BY <1>2, <1>3 DEF Chain
  <2>2. 1 \in 1 .. Len(queue) /\ 1 + 1 = 2
    BY <1>4
  <2>3. next[queue[1]] = Counted(1, IF 1 = Len(queue) THEN tail.ptr ELSE queue[1 + 1])
    BY <2>2 DEF Chain
  <2> QED BY <1>1, <1>2, <2>1, <2>2, <2>3
<1>6. /\ queue' \in Seq(Node) /\ Len(queue') = Len(queue) - 1
      /\ \A i \in 1 .. Len(queue') : queue'[i] = queue[i + 1]
  <2>1. \A i \in 2 .. Len(queue) : queue[i] \in Node
    BY LinkedFacts
  <2>2. 2 \in Int /\ Len(queue) \in Int /\ Len(queue) - 2 + 1 = Len(queue) - 1
    BY <1>3
  <2>3. /\ queue' \in Seq(Node)
        /\ Len(queue') = IF 2 <= Len(queue) THEN Len(queue) - 2 + 1 ELSE 0
        /\ \A i \in 1 .. Len(queue) - 2 + 1 : queue'[i] = queue[2 + i - 1]
    BY <1>1, <2>1, <2>2, SubSeqProperties
  <2>4. Len(queue') = Len(queue) - 1
    <3>1. Len(queue') = IF 2 <= Len(queue) THEN Len(queue) - 2 + 1 ELSE 0
      BY <2>3
    <3>2. \A k \in Nat \ {0} : (IF 2 <= k THEN k - 2 + 1 ELSE 0) = k - 1
      OBVIOUS
    <3> QED BY <1>4, <3>1, <3>2
  <2>5. ASSUME NEW i \in 1 .. Len(queue') PROVE queue'[i] = queue[i + 1]
    <3>1. i \in 1 .. Len(queue) - 2 + 1 /\ 2 + i - 1 = i + 1
      BY <1>4, <2>4, <2>5
    <3> QED BY <2>3, <3>1
  <2> QED BY <2>3, <2>4, <2>5
<1>7. Linked' = Linked \ {ptr[t]}
  <2>1. DOMAIN queue' = 1 .. Len(queue') /\ DOMAIN queue = 1 .. Len(queue)
    BY <1>3, <1>6, LenProperties
  <2>2. ASSUME NEW n \in Linked' PROVE n \in Linked /\ n # ptr[t]
    <3>1. CASE n = tail.ptr
      BY <1>2, <3>1, LinkedFacts
    <3>2. CASE \E i \in 1 .. Len(queue') : queue'[i] = n
      <4> PICK i \in 1 .. Len(queue') : queue'[i] = n
        BY <3>2
      <4>1. i + 1 \in 1 .. Len(queue) /\ i + 1 # 1 /\ 1 \in 1 .. Len(queue) /\ queue[i + 1] = n
        BY <1>4, <1>6
      <4>2. queue[i + 1] # queue[1]
        BY <4>1 DEF Chain
      <4> QED BY <1>5, <4>1, <4>2, LinkedFacts
    <3> QED BY <1>1, <2>1, <3>1, <3>2 DEF Linked
  <2>3. ASSUME NEW n \in Linked, n # ptr[t] PROVE n \in Linked'
    <3>1. CASE n = tail.ptr
      BY <1>1, <3>1 DEF Linked
    <3>2. CASE \E i \in 1 .. Len(queue) : queue[i] = n
      <4> PICK i \in 1 .. Len(queue) : queue[i] = n
        BY <3>2
      <4>1. i # 1
        BY <1>5, <2>3
      <4>2. i - 1 \in 1 .. Len(queue') /\ queue'[i - 1] = n
        BY <1>4, <1>6, <4>1
      <4> QED BY <2>1, <4>2 DEF Linked
    <3> QED BY <3>1, <3>2, LinkedFacts
  <2> QED BY <2>2, <2>3
<1> QED BY <1>2, <1>3, <1>4, <1>5, <1>6, <1>7, LinkedFacts

LEMMA TakeKeeps ==
  ASSUME IInv, NEW t \in Thread, t \in cast.poppers, Take(t), UNCHANGED neo PROVE IInv'
<1> USE Nulls
<1>0. /\ Typed /\ Locals /\ Chain /\ NoUseAfterFree /\ Passed /\ FreshNodes /\ Pushes /\ Counts
      /\ LocalsOf(t)
  BY DEF IInv, Locals
<1>1. PICK n \in Node : n = ptr[t]
  BY <1>0, TakeFacts, LinkedFacts
<1>2. /\ UNCHANGED <<cast, tail, data, next, internal, external, live, ptr, old, arg, mine, neo>>
      /\ pc[t] = "take" /\ pc' = [pc EXCEPT ![t] = "get"] /\ head = old[t]
      /\ nxt' = [nxt EXCEPT ![t] = Null] /\ head' = nxt[t]
  BY DEF Take, HeadUnchanged, Goto, nodes, counts, push
<1>3. /\ \A u \in Thread \ {t} : pc'[u] = pc[u] /\ nxt'[u] = nxt[u]
      /\ pc'[t] = "get"
  BY <1>0, <1>2 DEF Typed, TypeOK
<1>4. /\ n = head.ptr /\ n \in Linked /\ n # tail.ptr
      /\ Len(queue) \in Nat \ {0} /\ n = queue[1]
      /\ head' = Counted(1, IF Len(queue) = 1 THEN tail.ptr ELSE queue[2])
      /\ queue' \in Seq(Node) /\ Len(queue') = Len(queue) - 1
      /\ \A i \in 1 .. Len(queue') : queue'[i] = queue[i + 1]
      /\ Linked' = Linked \ {n}
  BY <1>1, TakeFacts
<1>5. \A m : Made(m)' <=> Made(m)
  BY <1>2 DEF Made
<1>6. /\ Len(queue') \in Nat
      /\ \A i \in 1 .. Len(queue') : i + 1 \in 1 .. Len(queue) /\ queue'[i] = queue[i + 1]
  BY <1>4
<1>7. Typed'
  <2>1. pc' \in [Thread -> AllPCs]
    BY <1>0, <1>2 DEF Typed, AllPCs, PopPCs
  <2>2. head' \in CountedPtrs /\ nxt' \in [Thread -> CountedPtrs]
    BY <1>0, <1>2, NullTyped DEF Typed, TypeOK
  <2>3. data[n] \in Value
    <3>1. 1 \in 1 .. Len(queue)
      BY <1>4
    <3> QED BY <1>0, <1>4, <3>1 DEF Chain
  <2>4. \A u \in Thread : pc'[u] = "get" => data'[ptr'[u]] \in Value
    BY <1>0, <1>1, <1>2, <1>3, <2>3 DEF Typed, TypeOK
  <2> QED BY <1>0, <1>2, <1>4, <2>1, <2>2, <2>4 DEF Typed, TypeOK
<1>8. Locals'
  <2>1. LocalsOf(t)'
    <3>1. ptr'[t] = ptr[t] /\ old'[t] = old[t] /\ mine'[t] = mine[t] /\ cast' = cast
      BY <1>2
    <3> QED BY <1>0, <1>2, <1>3, <3>1 DEF LocalsOf, AtTail, FromHead, Apart, PushPCs, PopPCs
  <2>2. ASSUME NEW u \in Thread \ {t} PROVE LocalsOf(u)'
    <3>1. LocalsOf(u)
      BY <1>0 DEF Locals
    <3>2. /\ pc'[u] = pc[u] /\ ptr'[u] = ptr[u] /\ old'[u] = old[u] /\ arg'[u] = arg[u]
          /\ nxt'[u] = nxt[u] /\ mine'[u] = mine[u] /\ cast' = cast /\ next' = next
      BY <1>2, <1>3
    <3> QED BY ONLY <3>1, <3>2 DEF LocalsOf
  <2> QED BY <2>1, <2>2 DEF Locals
<1>9. Chain'
  <2>1. head'.ptr = IF queue' = <<>> THEN tail.ptr ELSE queue'[1]
    <3>1. CASE Len(queue) = 1
      BY <1>4, <3>1, EmptySeq, CountedFields
    <3>2. CASE Len(queue) # 1
      <4>1. 1 \in 1 .. Len(queue') /\ 1 + 1 = 2
        BY <1>4, <3>2
      <4>2. queue' # <<>> /\ queue'[1] = queue[2]
        BY <1>4, <4>1, EmptySeq
      <4> QED BY <1>4, <3>2, <4>2, CountedFields
    <3> QED BY <3>1, <3>2
  <2>2. ASSUME NEW i \in 1 .. Len(queue')
        PROVE  /\ next[queue'[i]] = Counted(1, IF i = Len(queue') THEN tail.ptr ELSE queue'[i + 1])
               /\ queue'[i] # tail.ptr /\ data[queue'[i]] \in Value
    <3>1. i + 1 \in 1 .. Len(queue) /\ queue'[i] = queue[i + 1]
      BY <1>6
    <3>2. i = Len(queue') <=> i + 1 = Len(queue)
      BY <1>4
    <3>3. i # Len(queue') => queue'[i + 1] = queue[(i + 1) + 1]
      <4>1. i # Len(queue') => i + 1 \in 1 .. Len(queue')
        BY <1>4
      <4> QED BY <1>4, <4>1
    <3>4. /\ next[queue[i + 1]] = Counted(1, IF i + 1 = Len(queue) THEN tail.ptr ELSE queue[(i + 1) + 1])
          /\ queue[i + 1] # tail.ptr /\ data[queue[i + 1]] \in Value
      BY <1>0, <3>1 DEF Chain
    <3> QED BY <3>1, <3>2, <3>3, <3>4
  <2>3. ASSUME NEW i \in 1 .. Len(queue'), NEW j \in 1 .. Len(queue'), queue'[i] = queue'[j]
        PROVE  i = j
    <3>1. queue[i + 1] = queue[j + 1] => i + 1 = j + 1
      BY <1>0, <1>6 DEF Chain
    <3> QED BY <1>6, <2>3, <3>1
  <2> QED BY <1>2, <2>1, <2>2, <2>3 DEF Chain
<1>10. NoUseAfterFree'
  BY <1>0, <1>2, <1>4 DEF NoUseAfterFree
<1>11. Passed'
  <2>1. \A u \in Thread : pc[u] \in FromHead => ptr[u] # n
    BY <1>0, <1>4 DEF Passed
  <2>2. ASSUME NEW u \in Thread
        PROVE  /\ pc'[u] \in {"read", "take", "free tail"} => ptr'[u] # tail'.ptr
               /\ pc'[u] \in FromHead => ptr'[u] \notin Linked'
               /\ pc'[u] = "get" => data'[ptr'[u]] \in Value
    <3>1. pc'[u] = "get" => data'[ptr'[u]] \in Value
      BY <1>7 DEF Typed, TypeOK
    <3>2. CASE u = t
      BY <1>1, <1>2, <1>3, <1>4, <3>1, <3>2
    <3>3. CASE u # t
      <4>1. /\ pc[u] \in {"read", "take", "free tail"} => ptr[u] # tail.ptr
            /\ pc[u] \in FromHead => ptr[u] \notin Linked
        BY <1>0 DEF Passed
      <4> QED BY <1>2, <1>3, <1>4, <3>1, <3>3, <4>1
    <3> QED BY <3>2, <3>3
  <2>3. ASSUME NEW u \in Thread, NEW v \in Thread, ptr'[v] = ptr'[u]
        PROVE  /\ pc'[u] \in FromHead /\ pc'[v] \in FromHead => v = u
               /\ pc'[u] = "free tail" /\ pc'[v] = "free tail" => v = u
    <3>1. ptr[v] = ptr[u]
      BY <1>2, <2>3
    <3>2. /\ pc[u] \in FromHead /\ pc[v] \in FromHead => v = u
          /\ pc[u] = "free tail" /\ pc[v] = "free tail" => v = u
      BY <1>0, <3>1 DEF Passed
    <3> QED BY <1>1, <1>3, <2>1, <3>1, <3>2
  <2> QED BY <2>2, <2>3 DEF Passed
<1>12. FreshNodes'
  <2>1. ASSUME NEW m \in Node, Made(m) PROVE Fresh(m)'
    <3>1. Fresh(m)
      BY <1>0, <2>1 DEF FreshNodes
    <3> QED BY <1>2, <1>4, <3>1 DEF Fresh
  <2>2. \A u \in Thread : pc[u] = "move" => pc'[u] = "move"
    BY <1>2, <1>3
  <2> QED BY <1>0, <1>2, <1>5, <2>1, <2>2 DEF FreshNodes
<1>13. Pushes'
  <2>1. ASSUME NEW u \in Thread PROVE PushesOf(u)'
    <3>1. PushesOf(u) /\ cast.poppers # {}
      BY <1>0 DEF Pushes
    <3>2. pc'[u] # pc[u] => u = t /\ pc'[u] \notin AtTail /\ "get" \notin AtTail
      BY <1>3 DEF AtTail
    <3>3. {"link", "move", "renew", "set"} \subseteq AtTail
      BY DEF AtTail
    <3>4. UNCHANGED <<cast, ptr, data, next, neo, mine, tail>>
      BY <1>2
    <3> QED BY ONLY <3>1, <3>2, <3>3, <3>4 DEF PushesOf
  <2>2. Spinning!Claimers' = Spinning!Claimers /\ \A u \in Thread : pc[u] = "move" => pc'[u] = "move"
    BY <1>2, <1>3 DEF Spinning!Claimers
  <2>3. ~cast.helps => Spinning!TailIsClaimed'
    BY <1>0, <1>2, <2>2 DEF Pushes, Spinning!TailIsClaimed
  <2> QED BY <1>0, <1>2, <2>1, <2>2, <2>3 DEF Pushes
<1>14. Counts'
  <2>1. Balanced(n)
    <3>1. n \in live /\ ~Made(n)
      BY <1>0, <1>4, LinkedFacts DEF FreshNodes, Fresh
    <3> QED BY <1>0, <3>1 DEF Counts
  <2>2. HeadTakers(n)' = {t} /\ TailTakers(n)' = TailTakers(n) /\ Users(n)' = Users(n)
    <3>1. \A u \in Thread \ {t} : pc[u] \in FromHead => ptr[u] # n
      BY <1>0, <1>4 DEF Passed
    <3>2. pc'[t] \in FromHead /\ pc'[t] # "free tail" /\ pc[t] # "free tail" /\ ptr' = ptr
          /\ ptr[t] = n
      BY <1>1, <1>2, <1>3 DEF FromHead
    <3>3. \A u \in Thread \ {t} : pc'[u] = pc[u]
      BY <1>3
    <3> QED BY ONLY <3>1, <3>2, <3>3, t \in Thread DEF HeadTakers, TailTakers, Users
  <2>3. HeadShares(n)' = HeadShares(n) /\ TailShares(n)' = TailShares(n)
    <3>1. HeadShares(n) = 1 /\ HeadShares(n)' = 1
      BY <1>4, <2>2 DEF HeadShares
    <3>2. tail' = tail
      BY <1>2
    <3> QED BY ONLY <2>2, <3>1, <3>2 DEF TailShares
  <2>4. TailCount(n)' = TailCount(n)
    <3>1. tail' = tail /\ old' = old
      BY <1>2
    <3> QED BY ONLY <2>2, <3>1 DEF TailCount, PendingOf
  <2>5. HeadCount(n)' = HeadCount(n)
    <3>1. HeadCount(n) = Announcements(head)
      BY <1>4 DEF HeadCount, LinkCount
    <3>2. HeadCount(n)' = PendingOf({t}, old')
      BY <1>4, <2>2 DEF HeadCount
    <3>3. PendingOf({t}, old') = Announcements(old'[t])
      BY PendingOne
    <3> QED BY <1>2, <3>1, <3>2, <3>3
  <2>6. internal' = internal /\ external' = external
    BY <1>2
  <2>7. Balanced(n)'
    BY ONLY <2>1, <2>2, <2>3, <2>4, <2>5, <2>6 DEF Balanced
  <2>8. ASSUME NEW m \in live \ {n}, ~Made(m) PROVE Balanced(m)'
    <3>1. Balanced(m)
      BY <1>0, <2>8 DEF Counts
    <3>2. LinkCount(m)' = LinkCount(m)
      <4>1. Announcements(head') = 0
        BY <1>4, CountedFields DEF Announcements
      <4> QED BY <1>4, <4>1 DEF LinkCount
    <3>3. \A u \in Thread : ptr[u] = m => u # t
      BY <1>1
    <3> QED BY <1>2, <1>3, <1>4, <3>1, <3>2, <3>3, BalanceKept
  <2> QED BY <1>2, <1>5, <2>7, <2>8 DEF Counts
<1> QED BY <1>7, <1>8, <1>9, <1>10, <1>11, <1>12, <1>13, <1>14 DEF IInv

-----------------------------------------------------------------------------
\* What the one push that moves tail does: the dummy node joins the queue, the node
\* linked behind it becomes the dummy node, and the thread has the share of the old tail.
LEMMA MoveFacts ==
  ASSUME IInv, NEW n \in Node, NEW m \in Node, n = tail.ptr, next[n] = Counted(1, m),
         tail' = next[n], queue' = Append(queue, n)
  PROVE  /\ queue' \in Seq(Node) /\ Len(queue') = Len(queue) + 1 /\ Len(queue) \in Nat
         /\ \A i \in 1 .. Len(queue) : queue'[i] = queue[i]
         /\ queue'[Len(queue')] = n
         /\ m = tail'.ptr /\ m \notin Linked /\ Made(m) /\ Fresh(m)
         /\ Linked' = Linked \cup {m}
<1> USE DEF IInv
<1>1. /\ queue \in Seq(Node) /\ Len(queue) \in Nat /\ DOMAIN queue = 1 .. Len(queue)
  BY LinkedFacts
<1>2. /\ queue' \in Seq(Node) /\ Len(queue') = Len(queue) + 1
      /\ \A i \in 1 .. Len(queue) : queue'[i] = queue[i]
      /\ queue'[Len(queue')] = n
  BY <1>1, AppendProperties
<1>3. m = tail'.ptr /\ Made(m)
  BY CountedFields DEF Made
<1>4. Fresh(m)
  BY <1>3 DEF FreshNodes
<1>5. DOMAIN queue' = 1 .. Len(queue')
  BY <1>2, LenProperties
<1>6. ASSUME NEW x PROVE x \in Linked' <=> x \in Linked \/ x = m
  <2>1. x \in Linked <=> x = n \/ \E i \in 1 .. Len(queue) : queue[i] = x
    BY LinkedFacts
  <2>2. x \in Linked' <=> x = m \/ \E i \in 1 .. Len(queue') : queue'[i] = x
    BY <1>3, <1>5 DEF Linked
  <2>3. ASSUME NEW i \in 1 .. Len(queue'), queue'[i] = x
        PROVE  x = n \/ \E j \in 1 .. Len(queue) : queue[j] = x
    <3>1. CASE i = Len(queue')
      BY <1>2, <2>3, <3>1
    <3>2. CASE i # Len(queue')
      <4>1. i \in 1 .. Len(queue)
        BY <1>1, <1>2, <3>2
      <4> QED BY <1>2, <2>3, <4>1
    <3> QED BY <3>1, <3>2
  <2>4. ASSUME NEW i \in 1 .. Len(queue), queue[i] = x
        PROVE  \E j \in 1 .. Len(queue') : queue'[j] = x
    <3>1. i \in 1 .. Len(queue') /\ queue'[i] = x
      BY <1>1, <1>2, <2>4
    <3> QED BY <3>1
  <2>5. Len(queue') \in 1 .. Len(queue') /\ queue'[Len(queue')] = n
    BY <1>1, <1>2
  <2> QED BY ONLY <2>1, <2>2, <2>3, <2>4, <2>5
<1> QED BY <1>1, <1>2, <1>3, <1>4, <1>6 DEF Fresh

\* The step in which a push moves tail, its own or that of the push it helps.
Moves(t) ==
    /\ UNCHANGED <<cast, head, data, next, internal, external, live, ptr, nxt>>
    /\ pc[t] = (IF cast.helps THEN "set" ELSE "move") /\ pc' = [pc EXCEPT ![t] = "free tail"]
    /\ tail.ptr = ptr[t] /\ tail' = next[ptr[t]]
    /\ queue' = Append(queue, ptr[t])
    /\ old' = [old EXCEPT ![t] = tail]
    /\ IF cast.helps
       THEN /\ neo' = [neo EXCEPT ![t] = Null] /\ UNCHANGED <<arg, mine>>
       ELSE /\ UNCHANGED neo /\ arg' = [arg EXCEPT ![t] = NoValue]
            /\ mine' = [mine EXCEPT ![t] = NoNode]

LEMMA MoveStep ==
  ASSUME IInv, NEW t \in Thread,
         \/ ~cast.helps /\ Spinning!Move(t) /\ UNCHANGED neo
         \/ cast.helps /\ SetTail(t)
  PROVE  Moves(t)
<1>0. Typed /\ Pushes /\ LocalsOf(t) /\ PushesOf(t)
  BY DEF IInv, Locals, Pushes
<1>1. CASE ~cast.helps /\ Spinning!Move(t) /\ UNCHANGED neo
  <2>1. pc[t] = "move"
    BY <1>1 DEF Spinning!Move
  <2>2. t \in Spinning!Claimers
    BY <2>1 DEF Spinning!Claimers
  <2>3. ptr[t] = tail.ptr
    BY <1>0, <1>1, <2>2 DEF Pushes, Spinning!TailIsClaimed
  <2>4. next[ptr[t]] = Counted(1, mine[t])
    BY <1>0, <2>1 DEF PushesOf
  <2> QED BY <1>1, <2>1, <2>3, <2>4 DEF Spinning!Move, Spinning!Goto, Spinning!nodes, Spinning!counts,
            Spinning!Counted, Counted, Moves
<1>2. CASE cast.helps /\ SetTail(t)
  <2>1. pc[t] = "set" /\ tail = old[t] /\ tail' = neo[t]
    BY <1>2 DEF SetTail
  <2>2. old[t].ptr = ptr[t]
    BY <1>0, <2>1 DEF LocalsOf, AtTail
  <2>3. neo[t] = next[ptr[t]]
    BY <1>0, <2>1 DEF PushesOf
  <2>4. old = [old EXCEPT ![t] = tail]
    BY <1>0, <2>1 DEF Typed, TypeOK
  <2> QED BY <1>2, <2>1, <2>2, <2>3, <2>4 DEF SetTail, Goto, nodes, counts, push, Moves
<1> QED BY <1>1, <1>2

LEMMA MoveKeeps ==
  ASSUME IInv, NEW t \in Thread, t \in cast.pushers,
         cast.poppers # {} => \A u \in cast.pushers : u = t,
         \/ ~cast.helps /\ Spinning!Move(t) /\ UNCHANGED neo
         \/ cast.helps /\ ~Astray /\ SetTail(t)
  PROVE  IInv'
<1> USE Nulls
<1>0. /\ Typed /\ Locals /\ Chain /\ NoUseAfterFree /\ Passed /\ FreshNodes /\ Pushes /\ Counts
      /\ LocalsOf(t) /\ PushesOf(t)
  BY DEF IInv, Locals, Pushes
<1>1. /\ UNCHANGED <<cast, head, data, next, internal, external, live, ptr, nxt>>
      /\ pc[t] = (IF cast.helps THEN "set" ELSE "move") /\ pc' = [pc EXCEPT ![t] = "free tail"]
      /\ tail.ptr = ptr[t] /\ tail' = next[ptr[t]]
      /\ queue' = Append(queue, ptr[t])
      /\ old' = [old EXCEPT ![t] = tail]
      /\ IF cast.helps
         THEN /\ neo' = [neo EXCEPT ![t] = Null] /\ UNCHANGED <<arg, mine>>
         ELSE /\ UNCHANGED neo /\ arg' = [arg EXCEPT ![t] = NoValue]
              /\ mine' = [mine EXCEPT ![t] = NoNode]
  BY MoveStep DEF Moves
<1>2. PICK n \in Node : n = tail.ptr /\ n = ptr[t] /\ n \in Linked /\ n \in live
  BY <1>0, <1>1, LinkedFacts
<1>3. PICK m \in Node : next[n] = Counted(1, m)
  <2>1. next[n] # Null
    <3>1. CASE cast.helps
      BY <1>0, <1>1, <1>2, <3>1 DEF PushesOf
    <3>2. CASE ~cast.helps
      <4>1. pc[t] = "move"
        BY <1>1, <3>2
      <4>2. next[n] = Counted(1, mine[t])
        BY <1>0, <1>2, <4>1 DEF PushesOf
      <4> QED BY <4>2, NullTyped, CountedFields
    <3> QED BY <3>1, <3>2
  <2>2. next[n].external_count = 1 /\ next[n].ptr # NoNode /\ next[n] \in CountedPtrs
    BY <1>0, <1>2, <2>1 DEF FreshNodes, Typed, TypeOK
  <2> QED BY <2>2 DEF CountedPtrs, Counted
<1>4. /\ queue' \in Seq(Node) /\ Len(queue') = Len(queue) + 1 /\ Len(queue) \in Nat
      /\ \A i \in 1 .. Len(queue) : queue'[i] = queue[i]
      /\ queue'[Len(queue')] = n
      /\ m = tail'.ptr /\ m \notin Linked /\ Made(m) /\ Fresh(m)
      /\ Linked' = Linked \cup {m}
      /\ tail' = Counted(1, m)
  BY <1>1, <1>2, <1>3, MoveFacts
<1>5. /\ \A u \in Thread \ {t} : /\ pc'[u] = pc[u] /\ old'[u] = old[u] /\ arg'[u] = arg[u]
                                 /\ mine'[u] = mine[u] /\ neo'[u] = neo[u]
      /\ pc'[t] = "free tail" /\ old'[t] = tail /\ mine'[t] = IF cast.helps THEN mine[t] ELSE NoNode
      /\ arg'[t] = IF cast.helps THEN arg[t] ELSE NoValue
  BY <1>0, <1>1 DEF Typed, TypeOK
<1>6. \A x \in Node : Made(x)' <=> Made(x) /\ x # m
  <2>1. next'[tail'.ptr] = Null /\ next[tail.ptr].ptr = m
    BY <1>1, <1>2, <1>3, <1>4, CountedFields DEF Fresh
  <2>2. \A x \in Node : Made(x)' <=> \E u \in Thread : mine'[u] = x
    BY <2>1, NullTyped DEF Made
  <2>3. ~cast.helps => mine[t] = m
    <3> SUFFICES ASSUME ~cast.helps PROVE mine[t] = m
      OBVIOUS
    <3>1. pc[t] = "move"
      BY <1>1
    <3>2. Counted(1, mine[t]) = Counted(1, m)
      BY <1>0, <1>2, <1>3, <3>1 DEF PushesOf
    <3> QED BY <3>2, CountedFields
  <2>4. \A u \in Thread : mine[u] = m => ~cast.helps /\ u = t
    <3>1. ASSUME NEW u \in Thread, mine[u] = m PROVE ~cast.helps /\ u = t
      <4>1. mine[u] # NoNode /\ mine[u] = next[tail.ptr].ptr
        BY <2>1, <3>1
      <4>2. pc[u] = "move"
        BY <1>0, <4>1 DEF FreshNodes
      <4>3. ~cast.helps
        BY <1>0, <4>2 DEF Locals, LocalsOf
      <4>4. mine[t] = mine[u]
        BY <2>3, <3>1, <4>3
      <4> QED BY <1>0, <4>1, <4>3, <4>4 DEF FreshNodes
    <3> QED BY <3>1
  <2>5. \A x \in Node : (\E u \in Thread : mine'[u] = x) <=> x # m /\ \E u \in Thread : mine[u] = x
    <3>1. CASE cast.helps
      <4>1. \A u \in Thread : mine'[u] = mine[u] /\ mine[u] # m
        BY <1>5, <2>4, <3>1
      <4> QED BY ONLY <4>1
    <3>2. CASE ~cast.helps
      <4>1. mine'[t] = NoNode /\ mine[t] = m /\ \A u \in Thread \ {t} : mine'[u] = mine[u] /\ mine[u] # m
        BY <1>5, <2>3, <2>4, <3>2
      <4> QED BY ONLY <4>1, Nulls, t \in Thread
    <3> QED BY <3>1, <3>2
  <2>6. ASSUME NEW x \in Node PROVE Made(x)' <=> Made(x) /\ x # m
    <3>1. Made(x) <=> x = m \/ \E u \in Thread : mine[u] = x
      BY <2>1 DEF Made
    <3> QED BY <2>2, <2>5, <3>1
  <2> QED BY <2>6
<1>7. Typed'
  <2>1. pc' \in [Thread -> AllPCs] /\ old' \in [Thread -> CountedPtrs]
    BY <1>0, <1>1 DEF Typed, TypeOK, AllPCs, PushPCs
  <2>2. tail' \in CountedPtrs
    BY <1>0, <1>1, <1>2 DEF Typed, TypeOK
  <2>a. /\ arg \in [Thread -> Value \cup {NoValue}] /\ mine \in [Thread -> Node \cup {NoNode}]
        /\ neo \in [Thread -> CountedPtrs]
    BY <1>0 DEF Typed, TypeOK
  <2>3. /\ arg' \in [Thread -> Value \cup {NoValue}] /\ mine' \in [Thread -> Node \cup {NoNode}]
        /\ neo' \in [Thread -> CountedPtrs]
    BY ONLY <1>1, <2>a, NullTyped
  <2>4. \A u \in Thread : pc'[u] = "get" => data'[ptr'[u]] \in Value
    BY <1>0, <1>1, <1>5 DEF Typed, TypeOK
  <2> QED BY <1>0, <1>1, <1>4, <2>1, <2>2, <2>3, <2>4 DEF Typed, TypeOK
<1>8. Locals'
  <2>1. LocalsOf(t)'
    <3>1. ptr'[t] = n /\ n # NoNode /\ old'[t].ptr = n /\ cast' = cast
      BY <1>1, <1>2, <1>5
    <3>2. mine'[t] # NoNode <=> arg'[t] # NoValue
      BY <1>0, <1>1, <1>5 DEF LocalsOf
    <3>3. ~cast.helps => arg'[t] = NoValue
      BY <1>5
    <3> QED BY <1>5, <3>1, <3>2, <3>3 DEF LocalsOf, AtTail, FromHead, Apart, PushPCs, PopPCs
  <2>2. ASSUME NEW u \in Thread \ {t} PROVE LocalsOf(u)'
    <3>1. LocalsOf(u)
      BY <1>0 DEF Locals
    <3>2. /\ pc'[u] = pc[u] /\ ptr'[u] = ptr[u] /\ old'[u] = old[u] /\ arg'[u] = arg[u]
          /\ nxt'[u] = nxt[u] /\ mine'[u] = mine[u] /\ cast' = cast /\ next' = next
      BY <1>1, <1>5
    <3> QED BY ONLY <3>1, <3>2 DEF LocalsOf
  <2> QED BY <2>1, <2>2 DEF Locals
<1>9. Chain'
  <2>1. /\ Len(queue') \in Nat \ {0} /\ queue' # <<>>
        /\ \A i \in 1 .. Len(queue') : i # Len(queue') => i \in 1 .. Len(queue)
    BY <1>4, EmptySeq
  <2>2. head.ptr = queue'[1]
    <3>1. CASE queue = <<>>
      <4>1. Len(queue') = 1
        BY <1>4, <3>1, EmptySeq
      <4> QED BY <1>0, <1>2, <1>4, <3>1, <4>1 DEF Chain
    <3>2. CASE queue # <<>>
      <4>1. 1 \in 1 .. Len(queue)
        BY <1>0, <1>4, <3>2, EmptySeq, LinkedFacts
      <4> QED BY <1>0, <1>4, <3>2, <4>1 DEF Chain
    <3> QED BY <3>1, <3>2
  <2>3. data[n] \in Value
    <3>1. pc[t] \in AtTail \ {"claim"}
      BY <1>1 DEF AtTail
    <3>2. data[n] # NoValue /\ (~cast.helps => data[n] \in Value)
      BY <1>0, <1>1, <1>2, <3>1 DEF PushesOf
    <3>3. cast.helps => data[n] \in Value \cup {NoValue}
      BY <1>2 DEF Astray
    <3> QED BY <3>2, <3>3
  <2>4. ASSUME NEW i \in 1 .. Len(queue')
        PROVE  /\ next[queue'[i]] = Counted(1, IF i = Len(queue') THEN tail'.ptr ELSE queue'[i + 1])
               /\ queue'[i] # tail'.ptr /\ data[queue'[i]] \in Value
    <3>1. CASE i = Len(queue')
      BY <1>2, <1>3, <1>4, <2>3, <3>1
    <3>2. CASE i # Len(queue')
      <4>1. i \in 1 .. Len(queue) /\ queue'[i] = queue[i]
        BY <1>4, <2>1, <3>2
      <4>2. /\ next[queue[i]] = Counted(1, IF i = Len(queue) THEN tail.ptr ELSE queue[i + 1])
            /\ data[queue[i]] \in Value
        BY <1>0, <4>1 DEF Chain
      <4>3. queue[i] # m
        BY <1>0, <1>4, <4>1, LinkedFacts
      <4>4. queue'[i + 1] = IF i = Len(queue) THEN n ELSE queue[i + 1]
        <5>1. i = Len(queue) => i + 1 = Len(queue')
          BY <1>4
        <5>2. i # Len(queue) => i + 1 \in 1 .. Len(queue)
          BY <1>4, <4>1
        <5> QED BY <1>4, <5>1, <5>2
      <4> QED BY <1>2, <1>4, <3>2, <4>1, <4>2, <4>3, <4>4
    <3> QED BY <3>1, <3>2
  <2>5. ASSUME NEW i \in 1 .. Len(queue'), NEW j \in 1 .. Len(queue'), queue'[i] = queue'[j]
        PROVE  i = j
    <3>1. \A k \in 1 .. Len(queue) : queue[k] # n
      BY <1>0, <1>2 DEF Chain
    <3>2. /\ i # Len(queue') => i \in 1 .. Len(queue) /\ queue'[i] = queue[i]
          /\ j # Len(queue') => j \in 1 .. Len(queue) /\ queue'[j] = queue[j]
      BY <1>4, <2>1
    <3>3. \A k, l \in 1 .. Len(queue) : queue[k] = queue[l] => k = l
      BY <1>0 DEF Chain
    <3> QED BY <1>4, <2>5, <3>1, <3>2, <3>3
  <2> QED BY <1>1, <2>1, <2>2, <2>4, <2>5 DEF Chain
<1>a. m \in live /\ \A u \in Thread : ptr[u] # m
  BY <1>4 DEF Fresh
<1>10. NoUseAfterFree'
  BY <1>0, <1>1, <1>4, <1>a DEF NoUseAfterFree
<1>11. Passed'
  <2>1. ASSUME NEW u \in Thread
        PROVE  /\ pc'[u] \in {"read", "take", "free tail"} => ptr'[u] # tail'.ptr
               /\ pc'[u] \in FromHead => ptr'[u] \notin Linked'
               /\ pc'[u] = "get" => data'[ptr'[u]] \in Value
    <3>1. pc'[u] = "get" => data'[ptr'[u]] \in Value
      BY <1>7 DEF Typed, TypeOK
    <3>2. ptr'[u] # tail'.ptr
      BY <1>1, <1>4, <1>a
    <3>3. pc'[u] \in FromHead => pc[u] \in FromHead
      BY <1>5 DEF FromHead
    <3>4. pc[u] \in FromHead => ptr[u] \notin Linked
      BY <1>0 DEF Passed
    <3> QED BY <1>1, <1>4, <1>a, <3>1, <3>2, <3>3, <3>4
  <2>2. ASSUME NEW u \in Thread, NEW v \in Thread, ptr'[v] = ptr'[u]
        PROVE  /\ pc'[u] \in FromHead /\ pc'[v] \in FromHead => v = u
               /\ pc'[u] = "free tail" /\ pc'[v] = "free tail" => v = u
    <3>1. ptr[v] = ptr[u]
      BY <1>1, <2>2
    <3>2. /\ pc[u] \in FromHead /\ pc[v] \in FromHead => v = u
          /\ pc[u] = "free tail" /\ pc[v] = "free tail" => v = u
      BY <1>0, <3>1 DEF Passed
    <3>3. \A w \in Thread : pc[w] = "free tail" => ptr[w] # n
      BY <1>0, <1>2 DEF Passed
    <3>4. pc'[t] \notin FromHead /\ ptr[t] = n
      BY <1>2, <1>5 DEF FromHead
    <3>5. \A w \in Thread \ {t} : pc'[w] = pc[w]
      BY <1>5
    <3>6. pc'[u] \in FromHead /\ pc'[v] \in FromHead => v = u
      BY <3>2, <3>4, <3>5
    <3>7. pc'[u] = "free tail" /\ pc'[v] = "free tail" => v = u
      <4>1. \A w \in Thread \ {t} : pc'[w] = "free tail" => pc[w] = "free tail" /\ ptr[w] # n
        BY <3>3, <3>5
      <4>2. CASE u = t \/ v = t
        BY <3>1, <3>4, <4>1, <4>2
      <4>3. CASE u # t /\ v # t
        BY <3>2, <4>1, <4>3
      <4> QED BY <4>2, <4>3
    <3> QED BY <3>6, <3>7
  <2> QED BY <2>1, <2>2 DEF Passed
<1>b. next'[tail'.ptr] = Null
  BY <1>1, <1>4 DEF Fresh
<1>12. FreshNodes'
  <2>1. ASSUME NEW x \in Node, Made(x)' PROVE Fresh(x)'
    <3>1. Fresh(x) /\ x # m
      BY <1>0, <1>6, <2>1 DEF FreshNodes
    <3> QED BY <1>1, <1>4, <3>1 DEF Fresh
  <2>2. \A u \in Thread : mine'[u] # NoNode => mine'[u] = mine[u]
    BY <1>5
  <2>3. \A u, v \in Thread : mine'[u] # NoNode /\ mine'[v] = mine'[u] => v = u
    BY <1>0, <2>2 DEF FreshNodes
  <2> QED BY <1>b, <2>1, <2>3, NullTyped DEF FreshNodes
<1>13. Pushes'
  <2>1. ASSUME NEW u \in Thread \ {t} PROVE PushesOf(u)'
    <3>1. PushesOf(u) /\ LocalsOf(u)
      BY <1>0 DEF Pushes, Locals
    <3>2. pc[u] \in AtTail => cast.poppers = {}
      <4>1. pc[u] \in AtTail => u \in cast.pushers
        BY <3>1 DEF LocalsOf, AtTail, PushPCs
      <4> QED BY <4>1
    <3>3. /\ pc'[u] = pc[u] /\ ptr'[u] = ptr[u] /\ mine'[u] = mine[u] /\ neo'[u] = neo[u]
          /\ UNCHANGED <<cast, data, next>> /\ Linked \subseteq Linked'
      BY <1>1, <1>4, <1>5
    <3> QED BY ONLY <3>1, <3>2, <3>3 DEF PushesOf
  <2>2. PushesOf(t)'
    BY <1>1, <1>2, <1>4, <1>5 DEF PushesOf, AtTail
  <2>3. ~cast.helps => Spinning!TailIsClaimed'
    <3>1. ~cast.helps => Spinning!Claimers = {t}
      BY <1>0, <1>1 DEF Pushes, Spinning!TailIsClaimed, Spinning!Claimers
    <3>2. ~cast.helps => Spinning!Claimers' = {}
      BY <1>5, <3>1 DEF Spinning!Claimers
    <3>3. data'[tail'.ptr] \notin Value
      BY <1>1, <1>4 DEF Fresh
    <3> QED BY <3>2, <3>3 DEF Spinning!TailIsClaimed
  <2> QED BY <1>1, <1>b, <2>1, <2>2, <2>3 DEF Pushes
<1>14. Counts'
  <2>1. Balanced(n)
    BY <1>0, <1>2 DEF Counts, FreshNodes, Fresh
  <2>2. \A u \in Thread : pc'[u] \in FromHead <=> pc[u] \in FromHead
    BY <1>1, <1>5 DEF FromHead
  <2>3. Users(n)' = Users(n) /\ HeadTakers(n)' = HeadTakers(n) /\ TailTakers(n)' = {t}
    <3>1. \A u \in Thread \ {t} : pc'[u] = "free tail" => ptr[u] # n
      BY <1>0, <1>2, <1>5 DEF Passed
    <3>2. pc'[t] = "free tail" /\ ptr[t] = n /\ ptr' = ptr
      BY <1>1, <1>2, <1>5
    <3> QED BY ONLY <2>2, <3>1, <3>2, t \in Thread DEF Users, HeadTakers, TailTakers
  <2>4. n # tail'.ptr /\ n \in Linked' /\ head' = head
    BY <1>1, <1>2, <1>4
  <2>5. HeadShares(n)' = HeadShares(n) /\ HeadCount(n)' = HeadCount(n)
    BY ONLY <1>2, <2>4 DEF HeadShares, HeadCount, LinkCount
  <2>6. TailShares(n)' = TailShares(n)
    BY ONLY <1>2, <2>3 DEF TailShares
  <2>7. TailCount(n)' = TailCount(n)
    <3>1. TailCount(n)' = PendingOf({t}, old')
      BY ONLY <2>3, <2>4 DEF TailCount
    <3>2. PendingOf({t}, old') = Announcements(old'[t])
      BY PendingOne
    <3> QED BY <1>2, <1>5, <3>1, <3>2 DEF TailCount
  <2>8. internal' = internal /\ external' = external /\ live' = live
    BY <1>1
  <2>9. Balanced(n)'
    BY ONLY <2>1, <2>3, <2>5, <2>6, <2>7, <2>8 DEF Balanced
  <2>10. Balanced(m)'
    <3>1. HeadShares(m)' = 1 /\ TailShares(m)' = 1
      BY <1>4 DEF HeadShares, TailShares
    <3>2. head'.ptr # m
      BY <1>0, <1>1, <1>4, LinkedFacts
    <3>3. HeadCount(m)' = 0
      BY <1>4, <3>2 DEF HeadCount, LinkCount
    <3>4. TailCount(m)' = 0
      BY <1>4, CountedFields DEF TailCount, Announcements
    <3>5. Users(m)' = {}
      BY <1>1, <1>a DEF Users
    <3>6. Cardinality(Users(m)') = 0
      BY <3>5, FS_EmptySet
    <3>7. internal'[m] = 0 /\ external'[m] = 2
      BY <1>1, <1>4 DEF Fresh
    <3> QED BY ONLY <3>1, <3>3, <3>4, <3>6, <3>7 DEF Balanced
  <2>11. ASSUME NEW x \in live, ~Made(x), x # n, x # m PROVE Balanced(x)'
    <3>1. Balanced(x)
      BY <1>0, <2>11 DEF Counts
    <3>2. LinkCount(x)' = LinkCount(x)
      BY <1>1 DEF LinkCount
    <3>3. x \in Linked' <=> x \in Linked
      BY <1>4, <2>11
    <3>4. (tail'.ptr = x <=> tail.ptr = x) /\ tail.ptr # x
      BY <1>2, <1>4, <2>11
    <3>5. \A u \in Thread : ptr[u] = x => u # t
      BY <1>2, <2>11
    <3> QED BY <1>1, <1>5, <3>1, <3>2, <3>3, <3>4, <3>5, BalanceKept
  <2>12. \A x \in Node : ~Made(x)' => x = m \/ ~Made(x)
    BY <1>6
  <2>13. live \subseteq Node
    BY <1>0 DEF Typed, TypeOK
  <2> QED BY <2>8, <2>9, <2>10, <2>11, <2>12, <2>13 DEF Counts
<1> QED BY <1>7, <1>8, <1>9, <1>10, <1>11, <1>12, <1>13, <1>14 DEF IInv

-----------------------------------------------------------------------------
(* A thread is done with its node: it takes back its announcement or frees its share, *)
(* and deletes the node when nothing leads to it and nobody uses it.                  *)

LEMMA SettleKeeps ==
  ASSUME IInv, NEW t \in Thread, NEW n \in Node, n = ptr[t], NEW r \in Int, NEW p \in Int,
         Settle(n, r, p), ptr' = [ptr EXCEPT ![t] = NoNode],
         UNCHANGED <<cast, head, tail, nxt, arg, mine, queue, neo>>,
         \A u \in Thread \ {t} : pc'[u] = pc[u] /\ old'[u] = old[u],
         pc' \in [Thread -> AllPCs], old' \in [Thread -> CountedPtrs],
         pc[t] \notin {"link", "move"}, pc'[t] \in Apart, LocalsOf(t)',
         p = HeadShares(n)' + TailShares(n)',
         r + HeadCount(n)' + TailCount(n)' = Cardinality(Users(n)')
  PROVE  IInv'
<1> USE Nulls
<1>0. Typed /\ Locals /\ Chain /\ NoUseAfterFree /\ Passed /\ FreshNodes /\ Pushes /\ Counts
  BY DEF IInv
<1>1. ptr'[t] = NoNode /\ \A u \in Thread \ {t} : ptr'[u] = ptr[u]
  BY <1>0 DEF Typed, TypeOK
<1>2. n \in live /\ ~Made(n)
  BY <1>0 DEF NoUseAfterFree, FreshNodes, Fresh
<1>3. Linked' = Linked
  BY DEF Linked
<1>4. p = 0 => n \notin Linked /\ HeadTakers(n)' = {} /\ TailTakers(n)' = {} /\ n # tail.ptr
  BY <1>3 DEF HeadShares, TailShares
<1>5. p = 0 => HeadCount(n)' = 0 /\ TailCount(n)' = 0
  BY <1>3, <1>4 DEF HeadCount, TailCount, PendingOf
<1>6. r = 0 /\ p = 0 => Users(n)' = {}
  <2>1. \A S : S = Users(n)' => IsFiniteSet(S)
    <3>1. Users(n)' \in SUBSET Thread
      BY DEF Users
    <3> QED BY <3>1, ThreadsFinite, FS_Subset
  <2>2. r = 0 /\ p = 0 => Cardinality(Users(n)') = 0
    BY <1>5
  <2> QED BY <2>1, <2>2, FS_EmptySet
<1>7. \/ /\ r = 0 /\ p = 0 /\ live' = live \ {n} /\ external' = [external EXCEPT ![n] = 0]
         /\ internal' = [internal EXCEPT ![n] = 0] /\ next' = [next EXCEPT ![n] = Null]
         /\ data' = [data EXCEPT ![n] = NoValue]
      \/ /\ r # 0 \/ p # 0
         /\ live' = live /\ next' = next /\ data' = data
         /\ internal' = [internal EXCEPT ![n] = r] /\ external' = [external EXCEPT ![n] = p]
  BY DEF Settle
<1>8. /\ \A x \in Node \ {n} : /\ internal'[x] = internal[x] /\ external'[x] = external[x]
                               /\ next'[x] = next[x] /\ data'[x] = data[x]
                               /\ x \in live' <=> x \in live
      /\ live' \subseteq live
      /\ internal' \in [Node -> Int] /\ next' \in [Node -> CountedPtrs]
      /\ data' \in [Node -> Value \cup {NoValue} \cup FreshData]
  <2>1. /\ internal \in [Node -> Int] /\ next \in [Node -> CountedPtrs] /\ external \in [Node -> 0 .. 3]
        /\ data \in [Node -> Value \cup {NoValue} \cup FreshData] /\ Null \in CountedPtrs
    BY <1>0, NullTyped DEF Typed, TypeOK
  <2> QED BY <1>7, <2>1
<1>9. ASSUME NEW x \in Linked
      PROVE  next'[x] = next[x] /\ data'[x] = data[x] /\ x \in live' /\ x \in Node
  <2>1. x \in Node /\ x \in live
    BY <1>0, LinkedFacts
  <2>2. CASE x # n
    BY <1>8, <2>1, <2>2
  <2>3. CASE x = n
    BY <1>4, <1>7, <2>1, <2>3
  <2> QED BY <2>2, <2>3
<1>10. ASSUME NEW u \in Thread \ {t}, ptr[u] # NoNode
       PROVE  /\ next'[ptr[u]] = next[ptr[u]] /\ data'[ptr[u]] = data[ptr[u]]
              /\ ptr[u] \in live' /\ ptr[u] \in Node
  <2>1. ptr[u] \in Node /\ ptr[u] \in live
    BY <1>0, <1>10 DEF NoUseAfterFree, Typed, TypeOK
  <2>2. CASE ptr[u] # n
    BY <1>8, <2>1, <2>2
  <2>3. CASE ptr[u] = n
    <3>1. u \in Users(n)'
      BY <1>1, <2>3 DEF Users
    <3> QED BY <1>6, <1>7, <2>1, <2>3, <3>1
  <2> QED BY <2>2, <2>3
<1>11. tail.ptr \in Linked /\ next'[tail.ptr] = next[tail.ptr] /\ data'[tail.ptr] = data[tail.ptr]
  BY <1>0, <1>9, LinkedFacts
<1>12. \A x : Made(x)' <=> Made(x)
  BY <1>11 DEF Made
<1>13. Typed'
  <2>1. external' \in [Node -> 0 .. 3]
    <3>1. p \in 0 .. 3
      <4>1. HeadShares(n)' \in {0, 1} /\ TailShares(n)' \in {0, 1}
        BY DEF HeadShares, TailShares
      <4> QED BY <4>1
    <3>2. external \in [Node -> 0 .. 3]
      BY <1>0 DEF Typed, TypeOK
    <3> QED BY <1>7, <3>1, <3>2
  <2>2. ptr' \in [Thread -> Node \cup {NoNode}]
    BY <1>0 DEF Typed, TypeOK
  <2>3. \A u \in Thread : pc'[u] = "get" => data'[ptr'[u]] \in Value
    <3> SUFFICES ASSUME NEW u \in Thread, pc'[u] = "get" PROVE data'[ptr'[u]] \in Value
      OBVIOUS
    <3>1. u # t
      BY DEF Apart
    <3>2. data[ptr[u]] \in Value /\ ptr[u] # NoNode
      BY <1>0, <3>1 DEF Typed, TypeOK, Locals, LocalsOf, Apart
    <3> QED BY <1>1, <1>10, <3>1, <3>2
  <2> QED BY <1>0, <1>8, <2>1, <2>2, <2>3 DEF Typed, TypeOK
<1>14. Locals'
  <2>1. ASSUME NEW u \in Thread \ {t} PROVE LocalsOf(u)'
    <3>1. LocalsOf(u)
      BY <1>0 DEF Locals
    <3>2. /\ pc'[u] = pc[u] /\ ptr'[u] = ptr[u] /\ old'[u] = old[u] /\ arg'[u] = arg[u]
          /\ nxt'[u] = nxt[u] /\ mine'[u] = mine[u] /\ cast' = cast
      BY <1>1
    <3>3. pc[u] = "take" => next'[ptr[u]] = next[ptr[u]]
      BY <1>10, <3>1 DEF LocalsOf, Apart
    <3> QED BY ONLY <3>1, <3>2, <3>3 DEF LocalsOf
  <2> QED BY <2>1 DEF Locals
<1>15. Chain'
  <2>1. \A i \in 1 .. Len(queue) : queue[i] \in Linked
    BY <1>0, LinkedFacts
  <2> QED BY <1>0, <1>9, <2>1 DEF Chain
<1>16. NoUseAfterFree'
  <2>1. \A u \in Thread : ptr'[u] # NoNode => ptr'[u] \in live'
    BY <1>1, <1>10
  <2> QED BY <1>3, <1>9, <2>1 DEF NoUseAfterFree
<1>17. Passed'
  <2>0. /\ pc'[t] \notin FromHead
        /\ \A l \in {"get", "free tail", "read", "take"} : pc'[t] # l
    BY DEF Apart, FromHead
  <2>1. ASSUME NEW u \in Thread
        PROVE  /\ pc'[u] \in {"read", "take", "free tail"} => ptr'[u] # tail'.ptr
               /\ pc'[u] \in FromHead => ptr'[u] \notin Linked'
               /\ pc'[u] = "get" => data'[ptr'[u]] \in Value
    <3>1. CASE u = t
      BY <2>0, <3>1
    <3>2. CASE u # t
      <4>1. /\ pc[u] \in {"read", "take", "free tail"} => ptr[u] # tail.ptr
            /\ pc[u] \in FromHead => ptr[u] \notin Linked
        BY <1>0 DEF Passed
      <4>2. pc'[u] = "get" => data'[ptr'[u]] \in Value
        BY <1>13 DEF Typed, TypeOK
      <4>3. pc'[u] = pc[u] /\ ptr'[u] = ptr[u] /\ tail' = tail
        BY <1>1, <3>2
      <4>4. pc'[u] \in {"read", "take", "free tail"} => ptr'[u] # tail'.ptr
        BY ONLY <4>1, <4>3
      <4>5. pc'[u] \in FromHead => ptr'[u] \notin Linked'
        BY ONLY <1>3, <4>1, <4>3
      <4> QED BY <4>2, <4>4, <4>5
    <3> QED BY <3>1, <3>2
  <2>2. ASSUME NEW u \in Thread, NEW v \in Thread, ptr'[v] = ptr'[u]
        PROVE  /\ pc'[u] \in FromHead /\ pc'[v] \in FromHead => v = u
               /\ pc'[u] = "free tail" /\ pc'[v] = "free tail" => v = u
    <3>1. CASE u = t \/ v = t
      BY <2>0, <3>1
    <3>2. CASE u # t /\ v # t
      <4>1. ptr[v] = ptr[u] => /\ pc[u] \in FromHead /\ pc[v] \in FromHead => v = u
                               /\ pc[u] = "free tail" /\ pc[v] = "free tail" => v = u
        BY <1>0 DEF Passed
      <4> QED BY <1>1, <2>2, <3>2, <4>1
    <3> QED BY <3>1, <3>2
  <2> QED BY <2>1, <2>2 DEF Passed
<1>18. FreshNodes'
  <2>1. ASSUME NEW x \in Node, Made(x) PROVE Fresh(x)'
    <3>1. Fresh(x) /\ x # n
      BY <1>0, <1>2, <2>1 DEF FreshNodes
    <3>2. \A u \in Thread : ptr'[u] # x
      BY <1>1, <3>1 DEF Fresh
    <3> QED BY <1>3, <1>8, <3>1, <3>2 DEF Fresh
  <2>2. \A u \in Thread : mine[u] # NoNode /\ mine[u] = next[tail.ptr].ptr => pc'[u] = "move"
    <3>1. \A u \in Thread : mine[u] # NoNode /\ mine[u] = next[tail.ptr].ptr => pc[u] = "move"
      BY <1>0 DEF FreshNodes
    <3> QED BY <3>1
  <2> QED BY <1>0, <1>11, <1>12, <2>1, <2>2 DEF FreshNodes
<1>19. Pushes'
  <2>1. PushesOf(t)'
    BY <1>1 DEF PushesOf, AtTail, Apart
  <2>2. ASSUME NEW u \in Thread \ {t} PROVE PushesOf(u)'
    <3>1. PushesOf(u) /\ LocalsOf(u)
      BY <1>0 DEF Pushes, Locals
    <3>2. pc[u] \in AtTail => ptr[u] # NoNode
      BY <3>1 DEF LocalsOf, AtTail, Apart
    <3>3. pc[u] \in AtTail => next'[ptr[u]] = next[ptr[u]] /\ data'[ptr[u]] = data[ptr[u]]
      BY <1>10, <3>2
    <3>4. /\ pc'[u] = pc[u] /\ ptr'[u] = ptr[u] /\ mine'[u] = mine[u] /\ neo'[u] = neo[u]
          /\ cast' = cast /\ tail' = tail
      BY <1>1
    <3>5. {"link", "move", "renew", "set"} \subseteq AtTail
      BY DEF AtTail
    <3> QED BY ONLY <1>3, <3>1, <3>3, <3>4, <3>5 DEF PushesOf
  <2>3. Spinning!Claimers' = Spinning!Claimers
    <3>1. pc'[t] \notin {"link", "move"}
      BY DEF Apart
    <3> QED BY <3>1 DEF Spinning!Claimers
  <2>4. ~cast.helps => Spinning!TailIsClaimed'
    <3>1. \A u \in Spinning!Claimers : ptr'[u] = ptr[u]
      BY <1>1 DEF Spinning!Claimers
    <3> QED BY <1>0, <1>11, <2>3, <3>1 DEF Pushes, Spinning!TailIsClaimed
  <2>5. ~cast.helps /\ next[tail.ptr] # Null => \E u \in Thread : pc'[u] = "move"
    <3>1. \A u \in Thread : pc[u] = "move" => pc'[u] = "move"
      OBVIOUS
    <3> QED BY <1>0, <3>1 DEF Pushes
  <2> QED BY <1>11, <2>1, <2>2, <2>4, <2>5 DEF Pushes
<1>20. Counts'
  <2>1. n \in live' => Balanced(n)'
    <3>1. n \in live' => /\ r # 0 \/ p # 0
                         /\ internal'[n] = r /\ external'[n] = p
      BY <1>0, <1>7 DEF Typed, TypeOK
    <3> QED BY <3>1 DEF Balanced
  <2>2. ASSUME NEW x \in live \ {n}, ~Made(x) PROVE Balanced(x)'
    <3>1. Balanced(x) /\ x \in Node
      BY <1>0, <2>2 DEF Counts, Typed, TypeOK
    <3>2. LinkCount(x)' = LinkCount(x)
      BY DEF LinkCount
    <3> QED BY <1>1, <1>3, <1>8, <3>1, <3>2, OthersKept
  <2> QED BY <1>8, <1>12, <2>1, <2>2 DEF Counts
<1> QED BY <1>13, <1>14, <1>15, <1>16, <1>17, <1>18, <1>19, <1>20 DEF IInv

\* The thread has no share: release_ref().
LEMMA ReleaseKeeps ==
  ASSUME IInv, NEW t \in Thread,
         \/ t \in cast.poppers /\ (ReturnEmpty(t) \/ ReleaseHead(t)) /\ UNCHANGED neo
         \/ t \in cast.pushers /\ ~cast.helps /\ Spinning!ReleaseTail(t) /\ UNCHANGED neo
  PROVE  IInv'
<1> USE Nulls
<1>0. /\ Typed /\ Locals /\ Chain /\ NoUseAfterFree /\ Passed /\ FreshNodes /\ Pushes /\ Counts
      /\ LocalsOf(t)
  BY DEF IInv, Locals
<1>1. /\ UNCHANGED <<cast, head, tail, nxt, arg, mine, queue, neo>>
      /\ ptr' = [ptr EXCEPT ![t] = NoNode]
      /\ Settle(ptr[t], internal[ptr[t]] - 1, external[ptr[t]])
  BY DEF ReturnEmpty, ReleaseHead, Spinning!ReleaseTail, ReleaseRef, Spinning!ReleaseRef, Settle,
     Spinning!Settle, push, Spinning!push, Null, Counted, Spinning!Null, Spinning!Counted
<1>2. \/ /\ pc[t] = "release empty" /\ pc' = [pc EXCEPT ![t] = "idle"]
         /\ old' = [old EXCEPT ![t] = Null]
      \/ /\ pc[t] = "release head" /\ pc' = [pc EXCEPT ![t] = "announce head"] /\ old' = old
         /\ t \in cast.poppers
      \/ /\ pc[t] = "release tail" /\ pc' = [pc EXCEPT ![t] = "announce tail"] /\ old' = old
  BY <1>0 DEF ReturnEmpty, ReleaseHead, Spinning!ReleaseTail, Goto, Spinning!Goto, LocalsOf
<1>3. PICK n \in Node : n = ptr[t] /\ n \in live /\ ~Made(n)
  <2>1. ptr[t] # NoNode
    BY <1>0, <1>2 DEF LocalsOf, Apart
  <2> QED BY <1>0, <2>1 DEF NoUseAfterFree, FreshNodes, Fresh, Typed, TypeOK
<1>4. /\ pc' \in [Thread -> AllPCs] /\ old' \in [Thread -> CountedPtrs]
      /\ \A u \in Thread \ {t} : pc'[u] = pc[u] /\ old'[u] = old[u]
      /\ pc'[t] \in Apart /\ pc[t] \in {"release empty", "release head", "release tail"}
  <2>1. pc \in [Thread -> AllPCs] /\ old \in [Thread -> CountedPtrs]
    BY <1>0 DEF Typed, TypeOK
  <2> QED BY <1>2, <2>1, NullTyped DEF AllPCs, PushPCs, PopPCs, Apart
<1>5. LocalsOf(t)'
  <2>1. pc \in [Thread -> AllPCs] /\ ptr'[t] = NoNode /\ mine'[t] = mine[t] /\ arg'[t] = arg[t]
        /\ cast' = cast
    BY <1>0, <1>1 DEF Typed, TypeOK
  <2>2. \/ pc[t] = "release empty" /\ pc'[t] = "idle"
        \/ pc[t] = "release head" /\ pc'[t] = "announce head" /\ t \in cast.poppers
        \/ pc[t] = "release tail" /\ pc'[t] = "announce tail"
    BY <1>2, <2>1
  <2>3. LocalsOf(t)
    BY <1>0
  <2> QED BY ONLY <2>1, <2>2, <2>3 DEF LocalsOf, AtTail, FromHead, Apart, PushPCs, PopPCs
<1>6. Linked' = Linked /\ tail' = tail /\ head' = head
  BY <1>1 DEF Linked
<1>7. Balanced(n)
  BY <1>0, <1>3 DEF Counts
<1>8. HeadTakers(n)' = HeadTakers(n) /\ TailTakers(n)' = TailTakers(n)
  <2>1. \A u \in Thread : /\ pc'[u] \in FromHead <=> pc[u] \in FromHead
                          /\ pc'[u] = "free tail" <=> pc[u] = "free tail"
    BY <1>4 DEF FromHead, Apart
  <2>2. pc[t] \notin FromHead /\ pc[t] # "free tail"
    BY <1>4 DEF FromHead
  <2>3. \A u \in Thread \ {t} : ptr'[u] = ptr[u]
    BY <1>0, <1>1 DEF Typed, TypeOK
  <2> QED BY <2>1, <2>2, <2>3 DEF HeadTakers, TailTakers
<1>9. HeadShares(n)' = HeadShares(n) /\ TailShares(n)' = TailShares(n)
  BY ONLY <1>6, <1>8 DEF HeadShares, TailShares
<1>10. HeadCount(n)' = HeadCount(n) /\ TailCount(n)' = TailCount(n)
  <2>1. \A u \in HeadTakers(n) \cup TailTakers(n) : old'[u] = old[u]
    BY <1>4 DEF HeadTakers, TailTakers, FromHead
  <2>2. /\ PendingOf(HeadTakers(n), old') = PendingOf(HeadTakers(n), old)
        /\ PendingOf(TailTakers(n), old') = PendingOf(TailTakers(n), old)
    BY <2>1, PendingSame
  <2> QED BY ONLY <1>6, <1>8, <2>2 DEF HeadCount, TailCount, LinkCount
<1>11. Cardinality(Users(n)') = Cardinality(Users(n)) - 1
  BY <1>0, <1>1, <1>3, UsersLeave
<1>12. internal[n] \in Int /\ external[n] \in Int /\ HeadCount(n) \in Int /\ TailCount(n) \in Int
  <2>1. internal \in [Node -> Int] /\ external \in [Node -> 0 .. 3]
    BY <1>0 DEF Typed, TypeOK
  <2> QED BY <1>0, <2>1, HeadCountInt, TailCountInt
<1>13. PICK r \in Int : r = internal[n] - 1
  BY <1>12
<1>14. PICK p \in Int : p = external[n]
  BY <1>12
<1>15. Settle(n, r, p)
  BY <1>1, <1>3, <1>13, <1>14
<1>16. p = HeadShares(n)' + TailShares(n)'
  BY <1>7, <1>9, <1>14 DEF Balanced
<1>17. r + HeadCount(n)' + TailCount(n)' = Cardinality(Users(n)')
  BY <1>7, <1>10, <1>11, <1>12, <1>13, UsersFinite DEF Balanced
<1> QED BY <1>1, <1>3, <1>4, <1>5, <1>15, <1>16, <1>17, SettleKeeps

\* The thread has a share, which ends: free_external_counter().
LEMMA FreeKeeps ==
  ASSUME IInv, NEW t \in Thread,
         \/ t \in cast.poppers /\ FreeHead(t) /\ UNCHANGED neo
         \/ t \in cast.pushers /\ ~cast.helps /\ Spinning!FreeTail(t) /\ UNCHANGED neo
         \/ t \in cast.pushers /\ cast.helps /\ ~Astray /\ FreeTail(t)
  PROVE  IInv'
<1> USE Nulls
<1>0. /\ Typed /\ Locals /\ Chain /\ NoUseAfterFree /\ Passed /\ FreshNodes /\ Pushes /\ Counts
      /\ LocalsOf(t)
  BY DEF IInv, Locals
<1>a. pc[t] \in {"free head", "free tail"}
  BY DEF FreeHead, FreeTail, Spinning!FreeTail, Astray
<1>b. old[t].ptr = ptr[t]
  BY <1>0, <1>a DEF LocalsOf, FromHead
<1>1. /\ UNCHANGED <<cast, head, tail, nxt, arg, mine, queue, neo>>
      /\ ptr' = [ptr EXCEPT ![t] = NoNode] /\ old' = [old EXCEPT ![t] = Null]
      /\ Settle(ptr[t], internal[ptr[t]] + CountIncrease(old[t]), external[ptr[t]] - 1)
  <2>1. /\ UNCHANGED <<cast, head, tail, nxt, arg, mine, queue, neo>>
        /\ ptr' = [ptr EXCEPT ![t] = NoNode] /\ old' = [old EXCEPT ![t] = Null]
        /\ Settle(old[t].ptr, internal[old[t].ptr] + CountIncrease(old[t]), external[old[t].ptr] - 1)
    BY DEF FreeHead, FreeTail, Spinning!FreeTail, FreeExternalCounter, Spinning!FreeExternalCounter,
       CountIncrease, Spinning!CountIncrease,
       Settle, Spinning!Settle, push, Spinning!push, Null, Counted, Spinning!Null, Spinning!Counted
  <2> QED BY <1>b, <2>1
<1>2. \/ pc[t] = "free head" /\ pc' = [pc EXCEPT ![t] = "idle"]
      \/ pc[t] = "free tail" /\ arg[t] # NoValue /\ pc' = [pc EXCEPT ![t] = "announce tail"]
      \/ pc[t] = "free tail" /\ arg[t] = NoValue /\ pc' = [pc EXCEPT ![t] = "idle"]
  BY <1>0, <1>a DEF FreeHead, FreeTail, Spinning!FreeTail, AfterSet, Goto, Spinning!Goto, LocalsOf
<1>3. PICK n \in Node : n = ptr[t] /\ n \in live /\ ~Made(n)
  <2>1. ptr[t] # NoNode
    BY <1>0, <1>2 DEF LocalsOf, Apart
  <2> QED BY <1>0, <2>1 DEF NoUseAfterFree, FreshNodes, Fresh, Typed, TypeOK
<1>4. /\ pc' \in [Thread -> AllPCs] /\ old' \in [Thread -> CountedPtrs]
      /\ \A u \in Thread \ {t} : pc'[u] = pc[u] /\ old'[u] = old[u]
      /\ pc'[t] \in Apart /\ pc[t] \in {"free head", "free tail"}
  <2>1. pc \in [Thread -> AllPCs] /\ old \in [Thread -> CountedPtrs]
    BY <1>0 DEF Typed, TypeOK
  <2> QED BY <1>1, <1>2, <2>1, NullTyped DEF AllPCs, PushPCs, PopPCs, Apart
<1>5. LocalsOf(t)'
  <2>1. pc \in [Thread -> AllPCs] /\ ptr'[t] = NoNode /\ mine'[t] = mine[t] /\ arg'[t] = arg[t]
        /\ cast' = cast
    BY <1>0, <1>1 DEF Typed, TypeOK
  <2>2. \/ pc[t] = "free head" /\ pc'[t] = "idle"
        \/ pc[t] = "free tail" /\ arg[t] # NoValue /\ pc'[t] = "announce tail"
        \/ pc[t] = "free tail" /\ arg[t] = NoValue /\ pc'[t] = "idle"
    BY <1>2, <2>1
  <2>3. LocalsOf(t)
    BY <1>0
  <2> QED BY ONLY <2>1, <2>2, <2>3 DEF LocalsOf, AtTail, FromHead, Apart, PushPCs, PopPCs
<1>6. Linked' = Linked /\ tail' = tail /\ head' = head
  BY <1>1 DEF Linked
<1>7. Balanced(n)
  BY <1>0, <1>3 DEF Counts
<1>8. \A u \in Thread \ {t} : /\ pc'[u] = pc[u] /\ ptr'[u] = ptr[u] /\ old'[u] = old[u]
  BY <1>0, <1>1, <1>4 DEF Typed, TypeOK
<1>9. CountIncrease(old[t]) = Announcements(old[t]) - 1 /\ Announcements(old[t]) \in Int
  <2>1. old[t].external_count \in Int
    BY <1>0, BoundPositive DEF Typed, TypeOK, CountedPtrs
  <2> QED BY <2>1 DEF CountIncrease, Announcements
<1>10. /\ HeadShares(n)' + TailShares(n)' = HeadShares(n) + TailShares(n) - 1
       /\ HeadCount(n)' + TailCount(n)' = HeadCount(n) + TailCount(n) - Announcements(old[t])
  <2>0. pc'[t] \notin FromHead /\ pc'[t] # "free tail"
    BY <1>4 DEF FromHead, Apart
  <2>i. HeadCount(n) \in Int /\ TailCount(n) \in Int
    BY <1>0, HeadCountInt, TailCountInt
  <2>1. CASE pc[t] = "free head"
    <3>1. n \notin Linked /\ n # tail.ptr /\ \A u \in Thread \ {t} : ptr[u] = n => pc[u] \notin FromHead
      BY <1>0, <1>3, <2>1, LinkedFacts DEF Passed, FromHead
    <3>2. HeadTakers(n) = {t} /\ HeadTakers(n)' = {} /\ TailTakers(n)' = TailTakers(n)
      <4>1. pc[t] \in FromHead /\ ptr[t] = n
        BY <1>3, <2>1 DEF FromHead
      <4>2. HeadTakers(n) = {t}
        BY <3>1, <4>1 DEF HeadTakers
      <4>3. HeadTakers(n)' = {}
        BY <1>8, <2>0, <3>1 DEF HeadTakers
      <4>4. TailTakers(n)' = TailTakers(n)
        BY <1>8, <2>0, <2>1 DEF TailTakers
      <4> QED BY <4>2, <4>3, <4>4
    <3>3. HeadShares(n) = 1 /\ HeadShares(n)' = 0 /\ TailShares(n)' = TailShares(n)
      BY ONLY <1>6, <3>1, <3>2 DEF HeadShares, TailShares
    <3>4. HeadCount(n) = Announcements(old[t]) /\ HeadCount(n)' = 0
      BY <1>6, <3>1, <3>2, PendingOne DEF HeadCount, PendingOf
    <3>5. TailCount(n)' = TailCount(n)
      <4>1. \A u \in TailTakers(n) : old'[u] = old[u]
        BY <1>8, <2>1 DEF TailTakers
      <4>2. PendingOf(TailTakers(n), old') = PendingOf(TailTakers(n), old)
        BY <4>1, PendingSame
      <4> QED BY ONLY <1>6, <3>2, <4>2 DEF TailCount
    <3>6. TailShares(n) \in {0, 1}
      BY DEF TailShares
    <3>7. HeadShares(n)' + TailShares(n)' = HeadShares(n) + TailShares(n) - 1
      BY <3>3, <3>6
    <3>8. HeadCount(n)' + TailCount(n)' = HeadCount(n) + TailCount(n) - Announcements(old[t])
      BY <1>9, <2>i, <3>4, <3>5
    <3> QED BY <3>7, <3>8
  <2>2. CASE pc[t] = "free tail"
    <3>1. n # tail.ptr /\ \A u \in Thread \ {t} : ptr[u] = n => pc[u] # "free tail"
      BY <1>0, <1>3, <2>2 DEF Passed
    <3>2. TailTakers(n) = {t} /\ TailTakers(n)' = {} /\ HeadTakers(n)' = HeadTakers(n)
      <4>1. TailTakers(n) = {t}
        BY <1>3, <2>2, <3>1 DEF TailTakers
      <4>2. TailTakers(n)' = {}
        BY <1>8, <2>0, <3>1 DEF TailTakers
      <4>3. pc[t] \notin FromHead
        BY <2>2 DEF FromHead
      <4>4. HeadTakers(n)' = HeadTakers(n)
        BY <1>8, <2>0, <4>3 DEF HeadTakers
      <4> QED BY <4>1, <4>2, <4>4
    <3>3. TailShares(n) = 1 /\ TailShares(n)' = 0 /\ HeadShares(n)' = HeadShares(n)
      BY ONLY <1>6, <3>1, <3>2 DEF HeadShares, TailShares
    <3>4. TailCount(n) = Announcements(old[t]) /\ TailCount(n)' = 0
      BY <1>6, <3>1, <3>2, PendingOne DEF TailCount, PendingOf
    <3>5. HeadCount(n)' = HeadCount(n)
      <4>1. \A u \in HeadTakers(n) : old'[u] = old[u]
        BY <1>8, <2>2 DEF HeadTakers, FromHead
      <4>2. PendingOf(HeadTakers(n), old') = PendingOf(HeadTakers(n), old)
        BY <4>1, PendingSame
      <4> QED BY ONLY <1>6, <3>2, <4>2 DEF HeadCount, LinkCount
    <3>6. HeadShares(n) \in {0, 1}
      BY DEF HeadShares
    <3>7. HeadShares(n)' + TailShares(n)' = HeadShares(n) + TailShares(n) - 1
      BY <3>3, <3>6
    <3>8. HeadCount(n)' + TailCount(n)' = HeadCount(n) + TailCount(n) - Announcements(old[t])
      BY <1>9, <2>i, <3>4, <3>5
    <3> QED BY <3>7, <3>8
  <2> QED BY <1>4, <2>1, <2>2
<1>11. Cardinality(Users(n)') = Cardinality(Users(n)) - 1
  BY <1>0, <1>1, <1>3, UsersLeave
<1>12. /\ internal[n] \in Int /\ external[n] \in Int /\ HeadCount(n) \in Int /\ TailCount(n) \in Int
       /\ HeadCount(n)' \in Int /\ TailCount(n)' \in Int
  <2>1. HeadCount(n) \in Int /\ TailCount(n) \in Int /\ internal[n] \in Int /\ external[n] \in Int
    <3>1. internal \in [Node -> Int] /\ external \in [Node -> 0 .. 3]
      BY <1>0 DEF Typed, TypeOK
    <3> QED BY <1>0, <3>1, HeadCountInt, TailCountInt
  <2>2. \A u \in Thread : old'[u] \in CountedPtrs
    BY <1>4
  <2>3. \A u \in HeadTakers(n)' \cup TailTakers(n)' : u \in Thread
    BY DEF HeadTakers, TailTakers
  <2>4. PendingOf(HeadTakers(n)', old') \in Int /\ PendingOf(TailTakers(n)', old') \in Int
    BY <2>2, <2>3, PendingInt
  <2>5. Announcements(head) \in Int /\ Announcements(tail) \in Int
    BY <1>0, BoundPositive DEF Typed, TypeOK, CountedPtrs, Announcements
  <2>6. HeadCount(n)' \in Int
    BY <1>6, <2>4, <2>5 DEF HeadCount, LinkCount
  <2>7. TailCount(n)' \in Int
    BY <1>6, <2>4, <2>5 DEF TailCount
  <2> QED BY <2>1, <2>6, <2>7
<1>13. PICK r \in Int : r = internal[n] + CountIncrease(old[t])
  BY <1>9, <1>12
<1>14. PICK p \in Int : p = external[n] - 1
  BY <1>12
<1>15. Settle(n, r, p)
  BY <1>1, <1>3, <1>13, <1>14
<1>16. p = HeadShares(n)' + TailShares(n)'
  <2>1. external[n] = HeadShares(n) + TailShares(n)
    BY <1>7 DEF Balanced
  <2>2. HeadShares(n) \in {0, 1} /\ TailShares(n) \in {0, 1}
    BY DEF HeadShares, TailShares
  <2>3. HeadShares(n)' + TailShares(n)' = HeadShares(n) + TailShares(n) - 1
    BY <1>10
  <2> QED BY <1>14, <2>1, <2>2, <2>3
<1>17. r + HeadCount(n)' + TailCount(n)' = Cardinality(Users(n)')
  BY <1>7, <1>9, <1>10, <1>11, <1>12, <1>13, UsersFinite DEF Balanced
<1> QED BY <1>1, <1>3, <1>4, <1>5, <1>15, <1>16, <1>17, SettleKeeps

-----------------------------------------------------------------------------
(* The invariant is inductive: what the queue without help takes from         *)
(* CountedQueueNodes is what the other takes from it.                          *)

LEMMA SharedPop ==
  ASSUME NEW t, Spinning!Pop(t) PROVE Pop(t)
<1> USE DEF Goto, Spinning!Goto, nodes, Spinning!nodes, counts, Spinning!counts, push, Spinning!push
<1>1. ASSUME Spinning!CallPop(t) PROVE CallPop(t)
  BY <1>1 DEF Spinning!CallPop, CallPop
<1>2. ASSUME Spinning!AnnounceHead(t) PROVE AnnounceHead(t)
  BY <1>2 DEF Spinning!AnnounceHead, AnnounceHead, Announced, Spinning!Announced, Counted, Spinning!Counted
<1>3. ASSUME Spinning!AnnounceHeadFails(t) PROVE AnnounceHeadFails(t)
  BY <1>3 DEF Spinning!AnnounceHeadFails, AnnounceHeadFails
<1>4. ASSUME Spinning!CompareTail(t) PROVE CompareTail(t)
  BY <1>4 DEF Spinning!CompareTail, CompareTail, Spinning!EmptyQueue, EmptyQueue
<1>5. ASSUME Spinning!ReturnEmpty(t) PROVE ReturnEmpty(t)
  BY <1>5 DEF Spinning!ReturnEmpty, ReturnEmpty, ReleaseRef, Spinning!ReleaseRef, Settle,
     Spinning!Settle, Null, Spinning!Null, Counted, Spinning!Counted
<1>6. ASSUME Spinning!ReadNext(t) PROVE ReadNext(t)
  BY <1>6 DEF Spinning!ReadNext, ReadNext
<1>7. ASSUME Spinning!Take(t) PROVE Take(t)
  BY <1>7 DEF Spinning!Take, Take, Spinning!HeadUnchanged, HeadUnchanged, Null, Spinning!Null, Counted,
     Spinning!Counted
<1>8. ASSUME Spinning!TakeFails(t) PROVE TakeFails(t)
  BY <1>8 DEF Spinning!TakeFails, TakeFails, Spinning!HeadUnchanged, HeadUnchanged, Null, Spinning!Null,
     Counted, Spinning!Counted
<1>9. ASSUME Spinning!Get(t) PROVE Get(t)
  BY <1>9 DEF Spinning!Get, Get
<1>10. ASSUME Spinning!FreeHead(t) PROVE FreeHead(t)
  BY <1>10 DEF Spinning!FreeHead, FreeHead, FreeExternalCounter, Spinning!FreeExternalCounter,
     CountIncrease, Spinning!CountIncrease, Settle, Spinning!Settle, Null, Spinning!Null, Counted,
     Spinning!Counted
<1>11. ASSUME Spinning!ReleaseHead(t) PROVE ReleaseHead(t)
  BY <1>11 DEF Spinning!ReleaseHead, ReleaseHead, ReleaseRef, Spinning!ReleaseRef, Settle,
     Spinning!Settle, Null, Spinning!Null, Counted, Spinning!Counted
<1> QED BY <1>1, <1>2, <1>3, <1>4, <1>5, <1>6, <1>7, <1>8, <1>9, <1>10, <1>11 DEF Spinning!Pop, Pop

LEMMA SharedPush ==
  ASSUME NEW t
  PROVE  /\ \A v : Spinning!CallPush(t, v) => CallPush(t, v)
         /\ Spinning!AnnounceTail(t) => AnnounceTail(t)
         /\ Spinning!AnnounceTailFails(t) => AnnounceTailFails(t)
<1> USE DEF Goto, Spinning!Goto, nodes, Spinning!nodes, counts, Spinning!counts, push, Spinning!push
<1>1. ASSUME NEW v, Spinning!CallPush(t, v) PROVE CallPush(t, v)
  BY <1>1 DEF Spinning!CallPush, CallPush, New, Spinning!New, Null, Spinning!Null, Counted, Spinning!Counted
<1>2. ASSUME Spinning!AnnounceTail(t) PROVE AnnounceTail(t)
  BY <1>2 DEF Spinning!AnnounceTail, AnnounceTail, Announced, Spinning!Announced, Counted, Spinning!Counted
<1>3. ASSUME Spinning!AnnounceTailFails(t) PROVE AnnounceTailFails(t)
  BY <1>3 DEF Spinning!AnnounceTailFails, AnnounceTailFails
<1> QED BY <1>1, <1>2, <1>3

LEMMA PopKeeps ==
  ASSUME IInv, NEW t \in Thread, t \in cast.poppers, Pop(t), UNCHANGED neo PROVE IInv'
<1>1. CASE CallPop(t) \/ AnnounceHeadFails(t) \/ CompareTail(t) \/ ReadNext(t) \/ TakeFails(t)
  BY <1>1, PopLooks
<1>2. CASE AnnounceHead(t)
  BY <1>2, AnnounceHeadKeeps
<1>3. CASE Take(t)
  BY <1>3, TakeKeeps
<1>4. CASE Get(t)
  BY <1>4, GetKeeps
<1>5. CASE ReturnEmpty(t) \/ ReleaseHead(t)
  BY <1>5, ReleaseKeeps
<1>6. CASE FreeHead(t)
  BY <1>6, FreeKeeps
<1> QED BY <1>1, <1>2, <1>3, <1>4, <1>5, <1>6 DEF Pop

LEMMA SpinningPushKeeps ==
  ASSUME IInv, NEW t \in Thread, t \in cast.pushers, ~cast.helps,
         cast.poppers # {} => \A u \in cast.pushers : u = t,
         Spinning!Push(t), UNCHANGED neo
  PROVE  IInv'
<1>1. CASE \E v \in Value : Spinning!CallPush(t, v)
  BY <1>1, SharedPush, MakeKeeps
<1>2. CASE Spinning!AnnounceTail(t)
  BY <1>2, SharedPush, AnnounceTailKeeps
<1>3. CASE Spinning!AnnounceTailFails(t)
  BY <1>3, SharedPush, PushLooks
<1>4. CASE Spinning!Claim(t)
  BY <1>4, ClaimKeeps
<1>5. CASE Spinning!ClaimFails(t)
  BY <1>5, PushLooks
<1>6. CASE Spinning!Link(t)
  BY <1>6, LinkKeeps
<1>7. CASE Spinning!Move(t)
  BY <1>7, MoveKeeps
<1>8. CASE Spinning!FreeTail(t)
  BY <1>8, FreeKeeps
<1>9. CASE Spinning!ReleaseTail(t)
  BY <1>9, ReleaseKeeps
<1> QED BY <1>1, <1>2, <1>3, <1>4, <1>5, <1>6, <1>7, <1>8, <1>9 DEF Spinning!Push

LEMMA HelpingPushKeeps ==
  ASSUME IInv, NEW t \in Thread, t \in cast.pushers, cast.helps, ~Astray,
         cast.poppers # {} => \A u \in cast.pushers : u = t,
         Push(t)
  PROVE  IInv'
<1>1. CASE \E v \in Value : CallPush(t, v) /\ UNCHANGED neo
  BY <1>1, MakeKeeps
<1>2. CASE Renew(t)
  BY <1>2, MakeKeeps
<1>3. CASE AnnounceTail(t) /\ UNCHANGED neo
  BY <1>3, AnnounceTailKeeps
<1>4. CASE \/ AnnounceTailFails(t) /\ UNCHANGED neo
           \/ ClaimFails(t) \/ HelpFails(t) \/ SetTailRetry(t) \/ SetTailHelped(t)
  BY <1>4, PushLooks
<1>5. CASE Claim(t)
  BY <1>5, ClaimKeeps
<1>6. CASE Link(t) \/ Help(t)
  BY <1>6, LinkKeeps
<1>7. CASE LinkHelped(t)
  BY <1>7, LinkHelpedKeeps
<1>8. CASE SetTail(t)
  BY <1>8, MoveKeeps
<1>9. CASE FreeTail(t)
  BY <1>9, FreeKeeps
<1> QED BY <1>1, <1>2, <1>3, <1>4, <1>5, <1>6, <1>7, <1>8, <1>9 DEF Push

\* A stuttering step.
LEMMA StutterKeeps ==
  ASSUME IInv, UNCHANGED vars PROVE IInv'
<1>1. /\ UNCHANGED <<cast, head, tail, data, next, internal, external, live, pc, old, ptr, nxt>>
      /\ UNCHANGED <<arg, mine, queue, neo>>
  BY DEF vars, queueVars, nodes, counts, push
<1>2. Linked' = Linked /\ \A n : (Made(n)' <=> Made(n))
  BY <1>1 DEF Linked, Made
<1>3. \A n : Fresh(n)' <=> Fresh(n)
  BY ONLY <1>1, <1>2 DEF Fresh
<1>4. Typed'
  BY <1>1 DEF IInv, Typed, TypeOK
<1>5. Locals'
  BY <1>1 DEF IInv, Locals, LocalsOf
<1>6. Chain' /\ NoUseAfterFree'
  BY <1>1, <1>2 DEF IInv, Chain, NoUseAfterFree
<1>7. Passed'
  BY <1>1, <1>2 DEF IInv, Passed
<1>8. FreshNodes'
  BY <1>1, <1>2, <1>3 DEF IInv, FreshNodes
<1>9. Pushes'
  <2>1. \A t \in Thread : PushesOf(t)'
    BY <1>1, <1>2 DEF IInv, Pushes, PushesOf
  <2>2. Spinning!TailIsClaimed' <=> Spinning!TailIsClaimed
    BY ONLY <1>1 DEF Spinning!TailIsClaimed, Spinning!Claimers
  <2> QED BY <1>1, <2>1, <2>2 DEF IInv, Pushes
<1>10. \A n : Balanced(n)' <=> Balanced(n)
  BY ONLY <1>1, <1>2 DEF Balanced, HeadShares, TailShares, HeadCount, TailCount, HeadTakers, TailTakers,
     Users, LinkCount, PendingOf
<1>11. Counts'
  BY <1>1, <1>2, <1>10 DEF IInv, Counts
<1> QED BY <1>4, <1>5, <1>6, <1>7, <1>8, <1>9, <1>11 DEF IInv

LEMMA NextKeeps ==
  ASSUME CorrectUses, IInv, [SpinningNext \/ HelpingNext]_vars PROVE IInv'
<1>1. cast \in Casts /\ cast.pushers \subseteq Thread /\ cast.poppers \subseteq Thread
  BY CastsOfThreads DEF IInv, Typed, TypeOK
<1>2. /\ cast.helps \in BOOLEAN
      /\ \A t \in cast.pushers : cast.poppers # {} => \A u \in cast.pushers : u = t
  BY <1>1 DEF CorrectUses
<1>3. CASE SpinningNext
  <2>1. ASSUME NEW t \in cast.pushers, Spinning!Push(t) PROVE IInv'
    BY <1>1, <1>2, <1>3, <2>1, SpinningPushKeeps DEF SpinningNext
  <2>2. ASSUME NEW t \in cast.poppers, Spinning!Pop(t) PROVE IInv'
    BY <1>1, <1>3, <2>2, SharedPop, PopKeeps DEF SpinningNext
  <2> QED BY <1>3, <2>1, <2>2 DEF SpinningNext, Spinning!Next
<1>4. CASE HelpingNext
  <2>1. ASSUME NEW t \in cast.pushers, Push(t) PROVE IInv'
    BY <1>1, <1>2, <1>4, <2>1, HelpingPushKeeps DEF HelpingNext
  <2>2. ASSUME NEW t \in cast.poppers, Pop(t), UNCHANGED neo PROVE IInv'
    BY <1>1, <2>2, PopKeeps
  <2> QED BY <1>4, <2>1, <2>2 DEF HelpingNext, Next
<1>5. CASE UNCHANGED vars
  BY <1>5, StutterKeeps
<1> QED BY <1>3, <1>4, <1>5

\* The invariant behind the theorems below, of the queue whose pushes spin for ever, and of
\* the one whose pushes help until one comes late to set_new_tail (line 52), or tail comes
\* to a node with something left in its data.
THEOREM QueueInvariant ==
  ASSUME CorrectUses PROVE BothSpec => []IInv
<1>1. Init => IInv
  BY InitIInv
<1>2. IInv /\ [SpinningNext \/ HelpingNext]_vars => IInv'
  BY NextKeeps
<1> QED BY <1>1, <1>2, PTL DEF BothSpec

-----------------------------------------------------------------------------
(* What the runs check of the counts and the nodes *)

\* What the takers of a node count, where they are none or one.
SumOf(S) == MapThenSumSet(LAMBDA t : Announcements(old[t]), S)

LEMMA SumOfNone == SumOf({}) = 0
  BY DEF SumOf, MapThenSumSet, MapThenFoldSet

LEMMA SumOfOne ==
  ASSUME NEW a, Announcements(old[a]) \in Int
  PROVE  SumOf({a}) = Announcements(old[a])
<1> DEFINE S == {a}
           Iter == [s \in SUBSET S |-> IF s = {} THEN 0 ELSE Announcements(old[a])]
           F(g) == [s \in SUBSET S |-> IF s = {} THEN 0
                      ELSE Announcements(old[CHOOSE x \in s : TRUE]) + g[s \ {CHOOSE x \in s : TRUE}]]
           It   == CHOOSE g : g = F(g)
<1>0. /\ S \in SUBSET S /\ {} \in SUBSET S /\ S # {} /\ S \ {a} = {}
      /\ (CHOOSE x \in S : TRUE) = a /\ \A s \in SUBSET S : s = {} \/ s = S
  OBVIOUS
<1>1. Iter = F(Iter)
  <2>1. Iter[{}] = 0
    BY <1>0
  <2> HIDE DEF S
  <2>2. Iter[S] = Announcements(old[CHOOSE x \in S : TRUE]) + Iter[S \ {CHOOSE x \in S : TRUE}]
    BY <1>0, <2>1
  <2> QED BY <1>0, <2>1, <2>2
<1>2. It = F(It)
  <2> HIDE DEF F, Iter
  <2> QED BY <1>1
<1>3. It[S] = Announcements(old[a])
  <2> HIDE DEF It, S
  <2>1. It[{}] = 0
    BY <1>0, <1>2
  <2> QED BY <1>0, <1>2, <2>1
<1>4. SumOf(S) = It[S]
  BY DEF SumOf, MapThenSumSet, MapThenFoldSet
<1> QED BY <1>3, <1>4

LEMMA BalanceOfCounts ==
  ASSUME IInv PROVE CountsBalance
<1>0. Typed /\ Chain /\ NoUseAfterFree /\ Passed /\ FreshNodes /\ Counts
  BY DEF IInv
<1> SUFFICES ASSUME NEW i \in 1 .. Len(queue) + 1,
                    NEW n, n = IF i > Len(queue) THEN tail.ptr ELSE queue[i]
             PROVE  /\ external[n] = (IF n = tail.ptr THEN 2 ELSE 1) + Cardinality(Takers(n))
                    /\ internal[n] + SumOf(Takers(n)) + Announcements(PointerTo(i))
                         + (IF n = tail.ptr THEN Announcements(tail) ELSE 0) = Cardinality(Users(n))
  BY DEF CountsBalance, SumOf
<1>1. Len(queue) \in Nat /\ (i > Len(queue) <=> i = Len(queue) + 1)
      /\ i <= Len(queue) => i \in 1 .. Len(queue)
  BY <1>0, LinkedFacts
<1>2. n \in Linked /\ n \in live /\ n \in Node /\ ~Made(n)
  BY <1>0, <1>1, LinkedFacts DEF FreshNodes, Fresh
<1>3. Balanced(n)
  BY <1>0, <1>2 DEF Counts
<1>4. HeadTakers(n) = {} /\ Takers(n) = TailTakers(n)
  <2>1. \A t \in Thread : pc[t] \in FromHead => ptr[t] # n
    BY <1>0, <1>2 DEF Passed
  <2> QED BY <2>1 DEF HeadTakers, Takers, TailTakers, Users, FromHead
<1>5. n = tail.ptr => TailTakers(n) = {}
  BY <1>0 DEF Passed, TailTakers
<1>6. /\ Cardinality(TailTakers(n)) = IF TailTakers(n) = {} THEN 0 ELSE 1
      /\ SumOf(TailTakers(n)) = PendingOf(TailTakers(n), old)
  <2>1. CASE TailTakers(n) = {}
    BY <2>1, FS_EmptySet, SumOfNone DEF PendingOf
  <2>2. CASE TailTakers(n) # {}
    <3>1. PICK t : t \in TailTakers(n)
      BY <2>2
    <3>2. TailTakers(n) = {t} /\ t \in Thread
      BY <1>0, <3>1 DEF Passed, TailTakers
    <3>3. Announcements(old[t]) \in Int
      <4>1. old[t].external_count \in Int
        BY <1>0, <3>2, BoundPositive DEF Typed, TypeOK, CountedPtrs
      <4> QED BY <4>1 DEF Announcements
    <3>4. Cardinality({t}) = 1
      BY FS_Singleton
    <3>5. SumOf({t}) = Announcements(old[t])
      BY <3>3, SumOfOne
    <3>6. PendingOf({t}, old) = Announcements(old[t])
      BY PendingOne
    <3> QED BY ONLY <2>2, <3>2, <3>4, <3>5, <3>6
  <2> QED BY <2>1, <2>2
<1>7. external[n] = (IF n = tail.ptr THEN 2 ELSE 1) + Cardinality(Takers(n))
  <2>1. external[n] = HeadShares(n) + TailShares(n)
    BY <1>3 DEF Balanced
  <2>2. HeadShares(n) = 1
    BY <1>2 DEF HeadShares
  <2>3. TailShares(n) = IF n = tail.ptr \/ TailTakers(n) # {} THEN 1 ELSE 0
    BY DEF TailShares
  <2> QED BY <1>4, <1>5, <1>6, <2>1, <2>2, <2>3
<1>8. HeadCount(n) = Announcements(PointerTo(i))
  <2>1. CASE i = 1
    <3>1. n = head.ptr
      BY <1>0, <1>1, <2>1, EmptySeq, LinkedFacts DEF Chain
    <3> QED BY <1>2, <2>1, <3>1 DEF HeadCount, LinkCount, PointerTo
  <2>2. CASE i # 1
    <3>1. i - 1 \in 1 .. Len(queue) /\ 1 \in 1 .. Len(queue) /\ queue # <<>>
      BY <1>1, <2>2, EmptySeq
    <3>2. next[queue[i - 1]].external_count = 1
      BY <1>0, <3>1, CountedFields DEF Chain
    <3>3. n # head.ptr
      <4>1. head.ptr = queue[1] /\ queue[1] # tail.ptr
        BY <1>0, <3>1 DEF Chain
      <4>2. i <= Len(queue) => queue[i] # queue[1]
        BY <1>0, <1>1, <2>2, <3>1 DEF Chain
      <4> QED BY <1>1, <4>1, <4>2
    <3>4. Announcements(PointerTo(i)) = 0
      BY <2>2, <3>2 DEF PointerTo, Announcements
    <3> QED BY <1>2, <3>3, <3>4 DEF HeadCount, LinkCount
  <2> QED BY <2>1, <2>2
<1>9. TailCount(n) = SumOf(Takers(n)) + (IF n = tail.ptr THEN Announcements(tail) ELSE 0)
  <2>1. CASE n = tail.ptr
    <3>1. TailCount(n) \in Int /\ TailCount(n) = Announcements(tail)
      BY <1>0, <2>1, TailCountInt DEF TailCount
    <3>2. SumOf(Takers(n)) = 0
      BY <1>4, <1>5, <2>1, SumOfNone
    <3> QED BY <2>1, <3>1, <3>2
  <2>2. CASE n # tail.ptr
    <3>1. TailCount(n) \in Int /\ TailCount(n) = SumOf(Takers(n))
      BY <1>0, <1>4, <1>6, <2>2, TailCountInt DEF TailCount
    <3> QED BY <2>2, <3>1
  <2> QED BY <2>1, <2>2
<1>10. /\ internal[n] \in Int /\ HeadCount(n) \in Int /\ SumOf(Takers(n)) \in Int
       /\ (IF n = tail.ptr THEN Announcements(tail) ELSE 0) \in Int
  <2>1. internal \in [Node -> Int]
    BY <1>0 DEF Typed, TypeOK
  <2>2. HeadCount(n) \in Int /\ TailCount(n) \in Int
    BY <1>0, HeadCountInt, TailCountInt
  <2>3. n = tail.ptr => Announcements(tail) = TailCount(n) /\ SumOf(Takers(n)) = 0
    BY <1>4, <1>5, SumOfNone DEF TailCount
  <2>4. n # tail.ptr => SumOf(Takers(n)) = TailCount(n)
    BY <1>4, <1>6 DEF TailCount
  <2> QED BY <1>2, <2>1, <2>2, <2>3, <2>4
<1>11. internal[n] + HeadCount(n) + TailCount(n) = Cardinality(Users(n))
  BY <1>3 DEF Balanced
<1> QED BY <1>7, <1>8, <1>9, <1>10, <1>11

\* An allocated node that is neither in the list, nor linked behind it, nor in a push, nor
\* used, would have no share and no user: both its counts would be zero.
LEMMA NoLeakOfCounts ==
  ASSUME IInv PROVE NoLeak
<1> SUFFICES ASSUME NEW n \in live, n \notin Linked, ~Made(n), \A t \in Thread : ptr[t] # n
             PROVE  FALSE
  BY DEF NoLeak, Made
<1>1. Typed /\ Balanced(n) /\ n \in Node /\ n # tail.ptr
  BY LinkedFacts DEF IInv, Counts, Typed, TypeOK
<1>2. HeadTakers(n) = {} /\ TailTakers(n) = {} /\ Users(n) = {}
  BY DEF HeadTakers, TailTakers, Users
<1>3. HeadShares(n) = 0 /\ TailShares(n) = 0 /\ HeadCount(n) = 0 /\ TailCount(n) = 0
  BY <1>1, <1>2 DEF HeadShares, TailShares, HeadCount, TailCount, PendingOf
<1>4. Cardinality(Users(n)) = 0
  BY <1>2, FS_EmptySet
<1>5. internal[n] \in Int
  BY <1>1 DEF Typed, TypeOK
<1> QED BY <1>1, <1>3, <1>4, <1>5 DEF Balanced

LEMMA NextFresh ==
  ASSUME IInv PROVE HelpLeavesNoTrace
<1> SUFFICES ASSUME cast.helps, NEW n, n = next[tail.ptr].ptr, n # NoNode
             PROVE  /\ n \in live \ Linked /\ data[n] \notin Value /\ next[n] = Null
                    /\ \A t \in Thread : mine[t] # n
  BY DEF HelpLeavesNoTrace, NextTailIsFresh
<1>1. next[tail.ptr] \in CountedPtrs /\ n \in Node /\ Made(n)
  <2>1. tail.ptr \in Node /\ next \in [Node -> CountedPtrs]
    BY LinkedFacts DEF IInv, Typed, TypeOK
  <2> QED BY <2>1 DEF CountedPtrs, Made
<1>2. Fresh(n)
  BY <1>1 DEF IInv, FreshNodes
<1>3. \A t \in Thread : mine[t] = n => pc[t] = "move"
  BY DEF IInv, FreshNodes
<1>4. \A t \in Thread : pc[t] # "move"
  BY DEF IInv, Locals, LocalsOf
<1> QED BY <1>2, <1>3, <1>4 DEF Fresh

\* Every variable of the two queues stays in its range: external_counters in its two bits.
\* (Of the helping queue this theorem, and those that follow, say so up to the step in
\* which it goes astray, and not beyond: BothSpec.)
THEOREM QueueTypesOK ==
  ASSUME CorrectUses PROVE BothSpec => []TypeOK
<1>1. IInv => TypeOK
  BY DEF IInv, Typed
<1> QED BY <1>1, QueueInvariant, PTL

\* Neither queue touches a node it has deleted; the helping one, until it goes astray.
THEOREM QueuesAreSafe ==
  ASSUME CorrectUses PROVE BothSpec => []NoUseAfterFree
<1>1. IInv => NoUseAfterFree
  BY DEF IInv
<1> QED BY <1>1, QueueInvariant, PTL

\* The two counts of a node agree with the pointers that lead to it and the threads that
\* use it.
THEOREM QueueCountsBalance ==
  ASSUME CorrectUses PROVE BothSpec => []CountsBalance
<1>1. IInv => CountsBalance
  BY BalanceOfCounts
<1> QED BY <1>1, QueueInvariant, PTL

\* Neither queue leaks a node.
THEOREM QueuesDoNotLeak ==
  ASSUME CorrectUses PROVE BothSpec => []NoLeak
<1>1. IInv => NoLeak
  BY NoLeakOfCounts
<1> QED BY <1>1, QueueInvariant, PTL

\* The data of the dummy node is the lock of one push.
THEOREM DummyIsClaimed ==
  ASSUME CorrectUses PROVE BothSpec => []TailIsClaimed
<1>1. IInv => TailIsClaimed
  BY DEF IInv, Pushes, TailIsClaimed
<1> QED BY <1>1, QueueInvariant, PTL

\* Whoever linked the node behind the dummy one, it is nobody's to delete.
THEOREM HelpIsInvisible ==
  ASSUME CorrectUses PROVE BothSpec => []HelpLeavesNoTrace
<1>1. IInv => HelpLeavesNoTrace
  BY NextFresh
<1> QED BY <1>1, QueueInvariant, PTL

-----------------------------------------------------------------------------
(* The refinement: what each step does to the queue, and to what the calls answer. *)

StepOf(t) == \/ t \in cast.poppers /\ Pop(t) /\ UNCHANGED neo
             \/ t \in cast.pushers /\ ~cast.helps /\ Spinning!Push(t) /\ UNCHANGED neo
             \/ t \in cast.pushers /\ cast.helps /\ Push(t)

\* A step that neither takes a node away nor moves tail: the queue stays, and the data in it.
Quiet(t) ==
    /\ queue' = queue /\ head'.ptr = head.ptr /\ tail'.ptr = tail.ptr
    /\ \A x \in (live \cap live') \ {tail.ptr} :
          data'[x] = data[x] \/ (pc[t] = "get" /\ x = ptr[t])
    /\ pc[t] = "get" => pc'[t] = "free head"
    /\ pc[t] = "release empty" => pc'[t] = "idle"
    /\ pc'[t] # "get"
    /\ pc'[t] = "release empty" => pc[t] = "compare tail" /\ ptr[t] = tail.ptr
    /\ pc'[t] \in {"compare tail", "read", "take"} =>
          \/ ptr'[t] = head.ptr
          \/ pc[t] \in {"compare tail", "read", "take"} /\ ptr'[t] = ptr[t]

OthersStay(t) == \A u \in Thread \ {t} : pc'[u] = pc[u] /\ ptr'[u] = ptr[u]

LEMMA SettleData ==
  ASSUME Typed, NEW n, NEW r, NEW p, Settle(n, r, p)
  PROVE  \A x \in live \cap live' : data'[x] = data[x]
BY DEF Settle, Typed, TypeOK

LEMMA PopKinds ==
  ASSUME IInv, NEW t \in Thread, Pop(t), UNCHANGED neo
  PROVE  OthersStay(t) /\ (Take(t) \/ Quiet(t))
<1>0. /\ pc \in [Thread -> AllPCs] /\ ptr \in [Thread -> Node \cup {NoNode}] /\ Typed
      /\ head \in CountedPtrs /\ data \in [Node -> Value \cup {NoValue} \cup FreshData]
      /\ live \subseteq Node
  BY DEF IInv, Typed, TypeOK
<1> USE DEF OthersStay, Goto, nodes, counts, push
<1>1. CASE CallPop(t)
  BY <1>0, <1>1 DEF CallPop, Quiet
<1>2. CASE AnnounceHead(t)
  <2>1. head'.ptr = head.ptr
    BY <1>0, <1>2, AnnouncedFields DEF AnnounceHead
  <2> QED BY <1>0, <1>2, <2>1 DEF AnnounceHead, Quiet
<1>3. CASE AnnounceHeadFails(t)
  BY <1>0, <1>3 DEF AnnounceHeadFails, Quiet
<1>4. CASE CompareTail(t)
  BY <1>0, <1>4 DEF CompareTail, EmptyQueue, Quiet
<1>5. CASE ReturnEmpty(t)
  BY <1>0, <1>5, SettleData DEF ReturnEmpty, ReleaseRef, Quiet
<1>6. CASE ReadNext(t)
  BY <1>0, <1>6 DEF ReadNext, Quiet
<1>7. CASE Take(t)
  BY <1>0, <1>7 DEF Take
<1>8. CASE TakeFails(t)
  BY <1>0, <1>8 DEF TakeFails, Quiet
<1>9. CASE Get(t)
  BY <1>0, <1>9 DEF Get, Quiet
<1>10. CASE FreeHead(t)
  BY <1>0, <1>10, SettleData DEF FreeHead, FreeExternalCounter, Quiet
<1>11. CASE ReleaseHead(t)
  BY <1>0, <1>11, SettleData DEF ReleaseHead, ReleaseRef, Quiet
<1> QED BY <1>1, <1>2, <1>3, <1>4, <1>5, <1>6, <1>7, <1>8, <1>9, <1>10, <1>11 DEF Pop

\* The steps of a push before the node is claimed.
LEMMA PushKinds ==
  ASSUME IInv, NEW t \in Thread,
         (\E v \in Value : CallPush(t, v)) \/ AnnounceTail(t) \/ AnnounceTailFails(t)
  PROVE  OthersStay(t) /\ Quiet(t)
<1>0. /\ pc \in [Thread -> AllPCs] /\ ptr \in [Thread -> Node \cup {NoNode}]
      /\ tail \in CountedPtrs /\ data \in [Node -> Value \cup {NoValue} \cup FreshData]
      /\ live \subseteq Node
  BY DEF IInv, Typed, TypeOK
<1> USE DEF OthersStay, Goto, nodes, counts, push
<1>1. CASE \E v \in Value : CallPush(t, v)
  <2>1. \A x \in live : data'[x] = data[x]
    BY <1>0, <1>1 DEF CallPush, New
  <2> QED BY <1>0, <1>1, <2>1 DEF CallPush, Quiet
<1>2. CASE AnnounceTail(t)
  <2>1. tail'.ptr = tail.ptr
    BY <1>0, <1>2, AnnouncedFields DEF AnnounceTail
  <2> QED BY <1>0, <1>2, <2>1 DEF AnnounceTail, Quiet
<1>3. CASE AnnounceTailFails(t)
  BY <1>0, <1>3 DEF AnnounceTailFails, Quiet
<1> QED BY <1>1, <1>2, <1>3

LEMMA SpinningKinds ==
  ASSUME IInv, NEW t \in Thread, ~cast.helps, Spinning!Push(t), UNCHANGED neo
  PROVE  OthersStay(t) /\ (Moves(t) \/ Quiet(t))
<1>0. /\ pc \in [Thread -> AllPCs] /\ ptr \in [Thread -> Node \cup {NoNode}] /\ Typed
      /\ data \in [Node -> Value \cup {NoValue} \cup FreshData] /\ live \subseteq Node
  BY DEF IInv, Typed, TypeOK
<1>1. CASE \/ \E v \in Value : Spinning!CallPush(t, v)
           \/ Spinning!AnnounceTail(t) \/ Spinning!AnnounceTailFails(t)
  BY <1>1, SharedPush, PushKinds
<1>2. CASE Spinning!Move(t)
  <2>1. Moves(t)
    BY <1>2, MoveStep
  <2> QED BY <1>0, <2>1 DEF Moves, OthersStay
<1> USE DEF OthersStay, Spinning!Goto, Spinning!nodes, Spinning!counts, Spinning!push
<1>3. CASE Spinning!Claim(t)
  <2>1. ptr[t] = tail.ptr
    BY <1>3, ClaimsTheDummy DEF Spinning!Claim, Spinning!Claimable
  <2> QED BY <1>0, <1>3, <2>1 DEF Spinning!Claim, Quiet
<1>4. CASE Spinning!ClaimFails(t)
  BY <1>0, <1>4 DEF Spinning!ClaimFails, Quiet
<1>5. CASE Spinning!Link(t)
  BY <1>0, <1>5 DEF Spinning!Link, Quiet
<1>6. CASE Spinning!FreeTail(t)
  <2>1. \A x \in live \cap live' : data'[x] = data[x]
    BY <1>0, <1>6 DEF Spinning!FreeTail, Spinning!FreeExternalCounter, Spinning!Settle
  <2> QED BY <1>0, <1>6, <2>1 DEF Spinning!FreeTail, Spinning!FreeExternalCounter, Quiet
<1>7. CASE Spinning!ReleaseTail(t)
  <2>1. \A x \in live \cap live' : data'[x] = data[x]
    BY <1>0, <1>7 DEF Spinning!ReleaseTail, Spinning!ReleaseRef, Spinning!Settle
  <2> QED BY <1>0, <1>7, <2>1 DEF Spinning!ReleaseTail, Spinning!ReleaseRef, Quiet
<1> QED BY <1>1, <1>2, <1>3, <1>4, <1>5, <1>6, <1>7 DEF Spinning!Push

LEMMA HelpingKinds ==
  ASSUME IInv, NEW t \in Thread, cast.helps, Push(t)
  PROVE  OthersStay(t) /\ (Moves(t) \/ Quiet(t))
<1>0. /\ pc \in [Thread -> AllPCs] /\ ptr \in [Thread -> Node \cup {NoNode}] /\ Typed
      /\ data \in [Node -> Value \cup {NoValue} \cup FreshData] /\ live \subseteq Node
  BY DEF IInv, Typed, TypeOK
<1>1. CASE (\E v \in Value : CallPush(t, v)) \/ AnnounceTail(t) \/ AnnounceTailFails(t)
  BY <1>1, PushKinds
<1>2. CASE SetTail(t)
  <2>1. Moves(t)
    BY <1>2, MoveStep
  <2> QED BY <1>0, <2>1 DEF Moves, OthersStay
<1> USE DEF OthersStay, Goto, nodes, counts, push
<1>3. CASE Claim(t)
  <2>1. ptr[t] = tail.ptr
    BY <1>3, ClaimsTheDummy DEF Claim
  <2> QED BY <1>0, <1>3, <2>1 DEF Claim, Quiet
<1>4. CASE ClaimFails(t)
  BY <1>0, <1>4 DEF ClaimFails, Quiet
<1>5. CASE Link(t) \/ Help(t)
  BY <1>0, <1>5 DEF Link, Help, LinkOwn, Quiet
<1>6. CASE LinkHelped(t)
  BY <1>0, <1>6 DEF LinkHelped, Quiet
<1>7. CASE Renew(t)
  <2>1. \A x \in live : data'[x] = data[x]
    BY <1>0, <1>7 DEF Renew, New
  <2> QED BY <1>0, <1>7, <2>1 DEF Renew, Quiet
<1>8. CASE HelpFails(t)
  BY <1>0, <1>8 DEF HelpFails, Quiet
<1>9. CASE SetTailRetry(t)
  BY <1>0, <1>9 DEF SetTailRetry, Quiet
<1>10. CASE SetTailHelped(t)
  BY <1>0, <1>10 DEF SetTailHelped, Quiet
<1>11. CASE FreeTail(t)
  BY <1>0, <1>11, SettleData DEF FreeTail, FreeExternalCounter, AfterSet, Quiet
<1> QED BY <1>1, <1>2, <1>3, <1>4, <1>5, <1>6, <1>7, <1>8, <1>9, <1>10, <1>11 DEF Push

LEMMA StepKinds ==
  ASSUME CorrectUses, IInv, SpinningNext \/ HelpingNext
  PROVE  \E t \in Thread : StepOf(t) /\ OthersStay(t) /\ (Take(t) \/ Moves(t) \/ Quiet(t))
<1>1. cast.pushers \subseteq Thread /\ cast.poppers \subseteq Thread
  BY CastsOfThreads DEF IInv, Typed, TypeOK
<1>2. CASE SpinningNext
  <2>1. ASSUME NEW t \in cast.pushers, Spinning!Push(t)
        PROVE  StepOf(t) /\ OthersStay(t) /\ (Moves(t) \/ Quiet(t))
    BY <1>1, <1>2, <2>1, SpinningKinds DEF SpinningNext, StepOf
  <2>2. ASSUME NEW t \in cast.poppers, Spinning!Pop(t)
        PROVE  StepOf(t) /\ OthersStay(t) /\ (Take(t) \/ Quiet(t))
    BY <1>1, <1>2, <2>2, SharedPop, PopKinds DEF SpinningNext, StepOf
  <2> QED BY <1>1, <1>2, <2>1, <2>2 DEF SpinningNext, Spinning!Next
<1>3. CASE HelpingNext
  <2>1. ASSUME NEW t \in cast.pushers, Push(t)
        PROVE  StepOf(t) /\ OthersStay(t) /\ (Moves(t) \/ Quiet(t))
    BY <1>1, <1>3, <2>1, HelpingKinds DEF HelpingNext, StepOf
  <2>2. ASSUME NEW t \in cast.poppers, Pop(t), UNCHANGED neo
        PROVE  StepOf(t) /\ OthersStay(t) /\ (Take(t) \/ Quiet(t))
    BY <1>1, <2>2, PopKinds DEF StepOf
  <2> QED BY <1>1, <1>3, <2>1, <2>2 DEF HelpingNext, Next
<1> QED BY <1>2, <1>3

\* What it does to the queue, and that no thread uses the new dummy node.
LEMMA MovesFacts ==
  ASSUME IInv, NEW t \in Thread, Moves(t)
  PROVE  /\ queue' \in Seq(Node) /\ Len(queue') = Len(queue) + 1 /\ Len(queue) \in Nat
         /\ \A i \in 1 .. Len(queue) : queue'[i] = queue[i]
         /\ queue'[Len(queue) + 1] = ptr[t]
         /\ Linked' = Linked \cup {tail'.ptr} /\ \A u \in Thread : ptr[u] # tail'.ptr
<1>0. Typed /\ Locals /\ Chain /\ NoUseAfterFree /\ FreshNodes /\ Pushes /\ PushesOf(t)
  BY DEF IInv, Pushes
<1>1. PICK n \in Node : n = tail.ptr /\ n = ptr[t]
  BY <1>0, LinkedFacts DEF Moves
<1>2. PICK m \in Node : next[n] = Counted(1, m)
  <2>1. next[n] # Null
    <3>1. CASE cast.helps
      BY <1>0, <1>1, <3>1 DEF PushesOf, Moves
    <3>2. CASE ~cast.helps
      <4>1. pc[t] = "move"
        BY <3>2 DEF Moves
      <4>2. next[n] = Counted(1, mine[t])
        BY <1>0, <1>1, <4>1 DEF PushesOf
      <4> QED BY <4>2, NullTyped, CountedFields
    <3> QED BY <3>1, <3>2
  <2>2. next[n].external_count = 1 /\ next[n].ptr # NoNode /\ next[n] \in CountedPtrs
    BY <1>0, <1>1, <2>1 DEF FreshNodes, Typed, TypeOK
  <2> QED BY <2>2 DEF CountedPtrs, Counted
<1>3. tail' = next[n] /\ queue' = Append(queue, n)
  BY <1>1 DEF Moves
<1> QED BY <1>1, <1>2, <1>3, MoveFacts DEF Fresh

\* A pop is at the first node of the list, or at one that has left the list.
AtHead == \A t \in Thread : pc[t] \in {"compare tail", "read", "take"} /\ ptr[t] \in Linked
                               => ptr[t] = head.ptr

LEMMA AtHeadKept ==
  ASSUME CorrectUses, IInv, AtHead, [SpinningNext \/ HelpingNext]_vars PROVE AtHead'
<1>1. CASE UNCHANGED vars
  BY <1>1 DEF AtHead, Linked, vars, queueVars
<1>2. CASE SpinningNext \/ HelpingNext
  <2>0. PICK t \in Thread : OthersStay(t) /\ (Take(t) \/ Moves(t) \/ Quiet(t))
    BY <1>2, StepKinds
  <2>1. /\ pc \in [Thread -> AllPCs] /\ ptr \in [Thread -> Node \cup {NoNode}]
        /\ Typed /\ Chain /\ NoUseAfterFree /\ Passed /\ FreshNodes
    BY DEF IInv, Typed, TypeOK
  <2>2. CASE Take(t)
    <3>1. ptr[t] = head.ptr /\ Linked' = Linked \ {ptr[t]} /\ ptr' = ptr /\ pc'[t] = "get"
      BY <2>1, <2>2, TakeFacts DEF Take, Goto
    <3> SUFFICES ASSUME NEW u \in Thread, pc'[u] \in {"compare tail", "read", "take"},
                        ptr'[u] \in Linked'
                 PROVE  FALSE
      BY DEF AtHead
    <3>2. u # t
      BY <3>1
    <3>3. pc[u] \in {"compare tail", "read", "take"} /\ ptr[u] \in Linked /\ ptr[u] # head.ptr
      BY <2>0, <3>1, <3>2 DEF OthersStay
    <3> QED BY <3>3 DEF AtHead
  <2>3. CASE Moves(t)
    <3>1. tail' = next[ptr[t]] /\ ptr' = ptr /\ head' = head /\ pc'[t] = "free tail"
      BY <2>1, <2>3 DEF Moves
    <3>2. Linked' = Linked \cup {tail'.ptr} /\ \A u \in Thread : ptr[u] # tail'.ptr
      BY <2>3, MovesFacts
    <3> SUFFICES ASSUME NEW u \in Thread, pc'[u] \in {"compare tail", "read", "take"},
                        ptr'[u] \in Linked'
                 PROVE  ptr'[u] = head'.ptr
      BY DEF AtHead
    <3>3. pc[u] \in {"compare tail", "read", "take"}
      BY <2>0, <3>1 DEF OthersStay
    <3>4. ptr[u] \in Linked
      BY <3>1, <3>2
    <3> QED BY <3>1, <3>3, <3>4 DEF AtHead
  <2>4. CASE Quiet(t)
    <3>1. Linked' = Linked /\ head'.ptr = head.ptr
      BY <2>4 DEF Quiet, Linked
    <3> SUFFICES ASSUME NEW u \in Thread, pc'[u] \in {"compare tail", "read", "take"},
                        ptr'[u] \in Linked'
                 PROVE  ptr'[u] = head'.ptr
      BY DEF AtHead
    <3>2. CASE u = t
      BY <2>4, <3>1, <3>2 DEF Quiet, AtHead
    <3>3. CASE u # t
      BY <2>0, <3>1, <3>3 DEF OthersStay, AtHead
    <3> QED BY <3>2, <3>3
  <2> QED BY <2>0, <2>2, <2>3, <2>4
<1> QED BY <1>1, <1>2

\* An atomic queue holds the data of the nodes tail has passed.
LEMMA ItemsOf ==
  ASSUME NEW q, q \in Seq(Node), NEW d, NEW s, s = [i \in DOMAIN q |-> d[q[i]]],
         \A i \in 1 .. Len(q) : d[q[i]] \in Value
  PROVE  /\ s \in Seq(Value) /\ Len(s) = Len(q) /\ Len(q) \in Nat
         /\ \A i \in 1 .. Len(q) : s[i] = d[q[i]]
<1>1. DOMAIN q = 1 .. Len(q) /\ Len(q) \in Nat
  BY LenProperties
<1>2. s = [i \in 1 .. Len(q) |-> d[q[i]]]
  BY <1>1
<1> QED BY <1>1, <1>2, SeqDef

LEMMA ItemFacts ==
  ASSUME IInv
  PROVE  /\ Items \in Seq(Value) /\ Len(Items) = Len(queue) /\ Len(queue) \in Nat
         /\ \A i \in 1 .. Len(queue) : Items[i] = data[queue[i]]
         /\ Items = <<>> <=> queue = <<>>
<1>1. queue \in Seq(Node) /\ \A i \in 1 .. Len(queue) : data[queue[i]] \in Value
  BY DEF IInv, Typed, TypeOK, Chain
<1>2. /\ Items \in Seq(Value) /\ Len(Items) = Len(queue) /\ Len(queue) \in Nat
      /\ \A i \in 1 .. Len(queue) : Items[i] = data[queue[i]]
  BY <1>1, ItemsOf DEF Items
<1>3. Items = <<>> <=> queue = <<>>
  BY <1>1, <1>2, EmptySeq
<1> QED BY <1>2, <1>3

LEMMA NextItemFacts ==
  ASSUME IInv'
  PROVE  /\ Items' \in Seq(Value) /\ Len(Items') = Len(queue') /\ Len(queue') \in Nat
         /\ \A i \in 1 .. Len(queue') : Items'[i] = data'[queue'[i]]
<1>1. queue' \in Seq(Node) /\ \A i \in 1 .. Len(queue') : data'[queue'[i]] \in Value
  BY DEF IInv, Typed, TypeOK, Chain
<1>2. Items' = [i \in DOMAIN queue' |-> data'[queue'[i]]]
  BY DEF Items
<1>3. Items' \in Seq(Value) /\ Len(Items') = Len(queue')
  BY ONLY <1>1, <1>2, ItemsOf
<1>4. \A i \in 1 .. Len(queue') : Items'[i] = data'[queue'[i]]
  BY ONLY <1>1, <1>2, ItemsOf
<1>5. Len(queue') \in Nat
  BY ONLY <1>1, ItemsOf
<1> QED BY ONLY <1>3, <1>4, <1>5

\* What the calls answer.
Answered == [t \in Thread |-> PopResult(t)]

LEMMA FifoVars == Fifo!vars = <<Items, Answered>>
  BY DEF Fifo!vars, Answered

\* A step that neither takes a node away nor moves tail leaves the values in the queue, and
\* what the calls of the other threads answer.
LEMMA QuietItems ==
  ASSUME IInv, IInv', NEW t \in Thread, OthersStay(t), Quiet(t)
  PROVE  Items' = Items /\ \A u \in Thread \ {t} : PopResult(u)' = PopResult(u)
<1>0. Typed /\ Locals /\ Chain /\ NoUseAfterFree /\ Passed /\ FreshNodes
  BY DEF IInv
<1>1. /\ queue' = queue /\ Linked' = Linked
      /\ \A x \in (live \cap live') \ {tail.ptr} : data'[x] = data[x] \/ (pc[t] = "get" /\ x = ptr[t])
  BY DEF Quiet, Linked
<1>2. Linked \subseteq live'
  BY <1>1 DEF IInv, NoUseAfterFree
<1>3. \A i \in 1 .. Len(queue) : data'[queue[i]] = data[queue[i]]
  <2> SUFFICES ASSUME NEW i \in 1 .. Len(queue) PROVE data'[queue[i]] = data[queue[i]]
    OBVIOUS
  <2>1. queue[i] \in Linked /\ queue[i] \in live /\ queue[i] # tail.ptr
    BY <1>0, LinkedFacts DEF Chain
  <2>2. pc[t] = "get" => queue[i] # ptr[t]
    BY <1>0, <2>1 DEF Passed, FromHead
  <2> QED BY <1>1, <1>2, <2>1, <2>2
<1>4. Items' = Items
  <2>1. DOMAIN queue = 1 .. Len(queue)
    BY <1>0, LinkedFacts
  <2> QED BY <1>1, <1>3, <2>1 DEF Items
<1>5. ASSUME NEW u \in Thread \ {t} PROVE PopResult(u)' = PopResult(u)
  <2>1. pc'[u] = pc[u] /\ ptr'[u] = ptr[u]
    BY DEF OthersStay
  <2>2. CASE pc[u] = "get"
    <3>1. ptr[u] \in live /\ ptr[u] # tail.ptr
      <4>1. ptr[u] # NoNode
        BY <1>0, <2>2 DEF Locals, LocalsOf, Apart
      <4>2. ptr[u] \notin Linked
        BY <1>0, <2>2 DEF Passed, FromHead
      <4> QED BY <1>0, <4>1, <4>2, LinkedFacts DEF NoUseAfterFree
    <3>2. ptr'[u] \in live'
      <4>1. ptr'[u] # NoNode
        BY <2>1, <3>1, <1>0, LinkedFacts
      <4> QED BY <4>1 DEF IInv, NoUseAfterFree
    <3>3. pc[t] = "get" => ptr[u] # ptr[t]
      BY <1>0, <2>2 DEF Passed, FromHead
    <3>4. data'[ptr[u]] = data[ptr[u]]
      BY <1>1, <2>1, <3>1, <3>2, <3>3
    <3> QED BY <2>1, <2>2, <3>4 DEF PopResult
  <2>3. CASE pc[u] # "get"
    BY <2>1, <2>3 DEF PopResult
  <2> QED BY <2>2, <2>3
<1> QED BY <1>4, <1>5

\* A pop takes effect when it takes head away.
LEMMA TakeMaps ==
  ASSUME IInv, IInv', NEW t \in Thread, OthersStay(t), Take(t)
  PROVE  Fifo!Dequeue(t)
<1>1. /\ Len(queue) \in Nat \ {0} /\ ptr[t] = queue[1]
      /\ queue' \in Seq(Node) /\ Len(queue') = Len(queue) - 1
      /\ \A i \in 1 .. Len(queue') : queue'[i] = queue[i + 1]
  BY TakeFacts
<1>2. data' = data /\ ptr' = ptr /\ pc[t] = "take" /\ pc'[t] = "get"
  BY DEF Take, Goto, nodes, IInv, Typed
<1>3. 1 \in 1 .. Len(queue) /\ queue # <<>>
  BY <1>1, EmptySeq
<1>4. Items # <<>> /\ Head(Items) = data[ptr[t]]
  BY <1>1, <1>3, ItemFacts
<1>5. Items' = Tail(Items)
  <2>1. /\ Tail(Items) \in Seq(Value) /\ Len(Tail(Items)) = Len(queue) - 1
        /\ \A i \in 1 .. Len(queue) - 1 : Tail(Items)[i] = Items[i + 1]
    BY <1>4, ItemFacts, HeadTailProperties
  <2>2. \A i \in 1 .. Len(queue) - 1 : Items[i + 1] = data[queue[i + 1]]
    <3>1. \A i \in 1 .. Len(queue) - 1 : i + 1 \in 1 .. Len(queue)
      BY <1>1
    <3> QED BY <3>1, ItemFacts
  <2>3. /\ Items' \in Seq(Value) /\ Len(Items') = Len(queue) - 1
        /\ \A i \in 1 .. Len(queue) - 1 : Items'[i] = data[queue[i + 1]]
    BY <1>1, <1>2, NextItemFacts
  <2>4. \A i \in 1 .. Len(Items') : Items'[i] = Tail(Items)[i]
    BY <2>1, <2>2, <2>3
  <2> QED BY <2>1, <2>3, <2>4, SeqEqual
<1>6. PopResult(t) = "undecided" /\ PopResult(t)' = Head(Items)
  BY <1>2, <1>4 DEF PopResult
<1>7. \A u \in Thread \ {t} : PopResult(u)' = PopResult(u)
  BY <1>2 DEF OthersStay, PopResult
<1>8. Answered' = [Answered EXCEPT ![t] = Head(Items)] /\ Answered[t] = "undecided"
  BY <1>6, <1>7 DEF Answered
<1> QED BY <1>4, <1>5, <1>8 DEF Fifo!Dequeue, Fifo!Decide, Fifo!Undecided, Answered

\* A push takes effect when tail moves past its node.
LEMMA MovesMaps ==
  ASSUME IInv, IInv', NEW t \in Thread, OthersStay(t), Moves(t)
  PROVE  \E v \in Value : Fifo!Enqueue(v)
<1> DEFINE k == Len(queue) + 1
<1>1. /\ queue' \in Seq(Node) /\ Len(queue') = k /\ Len(queue) \in Nat
      /\ \A i \in 1 .. Len(queue) : queue'[i] = queue[i]
      /\ queue'[k] = ptr[t]
  BY MovesFacts
<1>2. /\ data' = data /\ ptr' = ptr /\ pc'[t] = "free tail" /\ pc[t] \in {"set", "move"}
  BY DEF Moves, IInv, Typed
<1>3. /\ Items' \in Seq(Value) /\ Len(Items') = k
      /\ \A i \in 1 .. k : Items'[i] = data[queue'[i]]
  BY <1>1, <1>2, NextItemFacts
<1>4. k \in 1 .. k /\ Items'[k] = data[ptr[t]]
  BY <1>1, <1>3
<1>5. data[ptr[t]] \in Value
  <2>1. Items'[k] \in Value
    BY <1>3, <1>4, ElementOfSeq
  <2> QED BY <1>4, <2>1
<1>6. Items' = Append(Items, data[ptr[t]])
  <2>1. /\ Append(Items, data[ptr[t]]) \in Seq(Value) /\ Len(Append(Items, data[ptr[t]])) = k
        /\ \A i \in 1 .. Len(queue) : Append(Items, data[ptr[t]])[i] = data[queue[i]]
        /\ Append(Items, data[ptr[t]])[k] = data[ptr[t]]
    BY <1>5, ItemFacts, AppendProperties
  <2>2. \A i \in 1 .. k : Items'[i] = Append(Items, data[ptr[t]])[i]
    <3> SUFFICES ASSUME NEW i \in 1 .. k PROVE Items'[i] = Append(Items, data[ptr[t]])[i]
      OBVIOUS
    <3>1. CASE i = k
      BY <1>4, <2>1, <3>1
    <3>2. CASE i # k
      <4>1. i \in 1 .. Len(queue)
        BY <1>1, <3>2
      <4> QED BY <1>1, <1>3, <2>1, <4>1
    <3> QED BY <3>1, <3>2
  <2> HIDE DEF k
  <2> QED BY <1>3, <2>1, <2>2, SeqEqual
<1>7. \A u \in Thread : PopResult(u)' = PopResult(u)
  BY <1>2 DEF OthersStay, PopResult
<1> QED BY <1>5, <1>6, <1>7 DEF Fifo!Enqueue

\* The other steps: a pop finds the queue empty, a pop returns, or nothing is decided.
LEMMA QuietMaps ==
  ASSUME IInv, IInv', AtHead, NEW t \in Thread, StepOf(t), OthersStay(t), Quiet(t)
  PROVE  Fifo!FindEmpty(t) \/ Fifo!Return(t) \/ UNCHANGED Fifo!vars
<1>1. Items' = Items /\ \A u \in Thread \ {t} : PopResult(u)' = PopResult(u)
  BY QuietItems
<1>2. CASE pc[t] \in {"get", "release empty"}
  <2>1. PopResult(t)' = "undecided"
    BY <1>2 DEF Quiet, PopResult
  <2>2. Answered' = [Answered EXCEPT ![t] = "undecided"]
    BY <1>1, <2>1 DEF Answered
  <2> QED BY <1>1, <2>2 DEF Fifo!Return, Fifo!Undecided, Answered
<1>3. CASE pc[t] \notin {"get", "release empty"} /\ pc'[t] # "release empty"
  <2>1. PopResult(t)' = PopResult(t)
    BY <1>3 DEF Quiet, PopResult
  <2>2. Answered' = Answered
    BY <1>1, <2>1 DEF Answered
  <2> QED BY <1>1, <2>2, FifoVars DEF Fifo!vars, Answered
<1>4. CASE pc[t] \notin {"get", "release empty"} /\ pc'[t] = "release empty"
  <2>1. pc[t] = "compare tail" /\ ptr[t] = tail.ptr
    BY <1>4 DEF Quiet
  <2>2. head.ptr = tail.ptr
    BY <2>1, LinkedFacts DEF AtHead, IInv
  <2>3. Items = <<>>
    <3>1. queue # <<>> => 1 \in 1 .. Len(queue)
      BY ItemFacts, EmptySeq, LinkedFacts DEF IInv
    <3>2. queue = <<>>
      BY <2>2, <3>1 DEF IInv, Chain
    <3> QED BY <3>2, ItemFacts
  <2>4. PopResult(t) = "undecided" /\ PopResult(t)' = "empty"
    BY <1>4 DEF PopResult
  <2>5. Answered' = [Answered EXCEPT ![t] = "empty"] /\ Answered[t] = "undecided"
    BY <1>1, <2>4 DEF Answered
  <2> QED BY <1>1, <2>3, <2>5 DEF Fifo!FindEmpty, Fifo!Decide, Fifo!Undecided, Fifo!IsEmpty, Answered
<1> QED BY <1>2, <1>3, <1>4

LEMMA InitMaps == ASSUME Init PROVE Fifo!Init /\ AtHead
<1>1. queue = <<>> /\ pc = [t \in Thread |-> "idle"]
  BY DEF Init, QueueInit
<1>2. DOMAIN queue = {} /\ Items = <<>>
  BY <1>1 DEF Items
<1>3. \A t \in Thread : PopResult(t) = "undecided"
  BY <1>1 DEF PopResult
<1> QED BY <1>1, <1>2, <1>3 DEF Fifo!Init, Fifo!Undecided, AtHead

\* Whatever the interleaving, each pop returns what one atomic FIFO queue would.
THEOREM QueuesAreFifo ==
  ASSUME CorrectUses PROVE BothSpec => IsFifo
<1>1. IInv /\ AtHead /\ [SpinningNext \/ HelpingNext]_vars => [Fifo!Next]_(Fifo!vars)
  <2> SUFFICES ASSUME IInv, AtHead, [SpinningNext \/ HelpingNext]_vars PROVE [Fifo!Next]_(Fifo!vars)
    OBVIOUS
  <2>0. IInv'
    BY NextKeeps
  <2>1. CASE UNCHANGED vars
    <3>1. UNCHANGED <<queue, data, pc, ptr>>
      BY <2>1 DEF vars, queueVars, nodes
    <3> QED BY <3>1 DEF Fifo!vars, Items, PopResult
  <2>2. CASE SpinningNext \/ HelpingNext
    <3> PICK t \in Thread : StepOf(t) /\ OthersStay(t) /\ (Take(t) \/ Moves(t) \/ Quiet(t))
      BY <2>2, StepKinds
    <3>1. CASE Take(t)
      BY <2>0, <3>1, TakeMaps DEF Fifo!Next
    <3>2. CASE Moves(t)
      BY <2>0, <3>2, MovesMaps DEF Fifo!Next
    <3>3. CASE Quiet(t)
      BY <2>0, <3>3, QuietMaps DEF Fifo!Next
    <3> QED BY <3>1, <3>2, <3>3
  <2> QED BY <2>1, <2>2
<1>2. Init => Fifo!Init /\ AtHead
  BY InitMaps
<1>3. IInv /\ AtHead /\ [SpinningNext \/ HelpingNext]_vars => AtHead'
  BY AtHeadKept
<1> QED BY <1>1, <1>2, <1>3, QueueInvariant, PTL DEF BothSpec, IsFifo, Fifo!Spec

=============================================================================
