----------------------- MODULE ParallelAlgorithmsProofs -----------------------
(***************************************************************************)
(* The inductive invariants of the two algorithms that divide their input     *)
(* among threads, checked by TLAPS for ranges of any length, any number of     *)
(* processors and of elements to a thread, and any keys.                       *)
(***************************************************************************)
EXTENDS MCParallelAlgorithms, FiniteSetTheorems, SequenceTheorems, TLAPS

-----------------------------------------------------------------------------
(* Blocks. *)

\* The block of every thread is as long as the quotient, which is not too long.
LEMMA Division ==
    ASSUME NEW a \in Nat, NEW b \in Nat \ {0}
    PROVE  a \div b \in Nat /\ b * (a \div b) <= a
OBVIOUS

LEMMA Multiples ==
    ASSUME NEW s \in Nat, NEW n \in Nat, NEW k \in 0 .. n
    PROVE  k * s \in Nat /\ k * s <= n * s /\ (k + 1) * s = k * s + s
OBVIOUS

LEMMA Zero == \A s \in Nat : 0 * s = 0
OBVIOUS

\* The sequence of the elements of a block.
LEMMA BlockIs ==
    ASSUME NEW a \in Nat, NEW b \in Nat, a <= b
    PROVE  /\ Accumulate!Block(<<a, b>>) \in Seq(Nat)
           /\ Len(Accumulate!Block(<<a, b>>)) = b - a
           /\ \A i \in 1 .. b - a : Accumulate!Block(<<a, b>>)[i] = a + i
<1> DEFINE B == [i \in 1 .. b - a |-> a + i]
<1>1. Accumulate!Block(<<a, b>>) = B
  BY DEF Accumulate!Block
<1>2. b - a \in Nat /\ \A i \in 1 .. b - a : B[i] \in Nat /\ B[i] = a + i
  OBVIOUS
<1>3. B \in Seq(Nat) /\ Len(B) = b - a
  BY <1>2, IsASeq
<1> QED
  BY <1>1, <1>2, <1>3

\* Two blocks next to each other make one.
LEMMA Adjacent ==
    ASSUME NEW a \in Nat, NEW b \in Nat, a <= b
    PROVE  Accumulate!Block(<<0, a>>) \o Accumulate!Block(<<a, b>>) = Accumulate!Block(<<0, b>>)
<1> DEFINE p == Accumulate!Block(<<0, a>>)
           q == Accumulate!Block(<<a, b>>)
           r == Accumulate!Block(<<0, b>>)
<1>1. /\ p \in Seq(Nat) /\ Len(p) = a /\ \A i \in 1 .. a : p[i] = i
      /\ q \in Seq(Nat) /\ Len(q) = b - a /\ \A i \in 1 .. b - a : q[i] = a + i
      /\ r \in Seq(Nat) /\ Len(r) = b /\ \A i \in 1 .. b : r[i] = i
  <2>1. /\ p \in Seq(Nat) /\ Len(p) = a - 0 /\ \A i \in 1 .. a - 0 : p[i] = 0 + i
        /\ r \in Seq(Nat) /\ Len(r) = b - 0 /\ \A i \in 1 .. b - 0 : r[i] = 0 + i
    BY BlockIs, 0 \in Nat, 0 <= a, 0 <= b
  <2>2. q \in Seq(Nat) /\ Len(q) = b - a /\ \A i \in 1 .. b - a : q[i] = a + i
    BY BlockIs
  <2> HIDE DEF p, q, r
  <2> QED
    BY <2>1, <2>2
<1> HIDE DEF p, q, r
<1>2. /\ p \o q \in Seq(Nat) /\ Len(p \o q) = b
      /\ \A i \in 1 .. b : (p \o q)[i] = IF i <= a THEN p[i] ELSE q[i - a]
  <2>1. /\ p \o q \in Seq(Nat) /\ Len(p \o q) = Len(p) + Len(q)
        /\ \A i \in 1 .. Len(p) + Len(q) :
              (p \o q)[i] = IF i <= Len(p) THEN p[i] ELSE q[i - Len(p)]
    <3>1. p \in Seq(Nat) /\ q \in Seq(Nat)
      BY <1>1
    <3> QED
      BY <3>1, ConcatProperties
  <2>2. Len(p) = a /\ Len(p) + Len(q) = b
    BY <1>1
  <2> QED
    BY <2>1, <2>2
<1>3. ASSUME NEW i \in 1 .. b
      PROVE  (p \o q)[i] = r[i]
  <2>1. CASE i <= a
    <3>1. i \in 1 .. a
      BY <2>1
    <3> QED
      BY <1>1, <1>2, <2>1, <3>1
  <2>2. CASE ~(i <= a)
    <3>1. i - a \in 1 .. b - a /\ a + (i - a) = i
      BY <2>2
    <3> QED
      BY <1>1, <1>2, <2>2, <3>1
  <2> QED
    BY <2>1, <2>2
<1>4. p \o q = r
  BY <1>1, <1>2, <1>3, SeqEqual
<1> QED
  BY <1>4 DEF p, q, r

-----------------------------------------------------------------------------
(* The strengthening for accumulate. *)

num_threads == Accumulate!num_threads
block_size  == Accumulate!block_size
States      == {"running", "done", "threw", "joined"}
Where       == {"enter", "spawn", "sum", "join", "unwind",
                "returned", "threw", "terminated", "crashed"}

AccTypes == /\ accVersion \in Accumulate!Versions
            /\ length \in Nat /\ accHardware \in Nat
            /\ faulty \subseteq 1 .. length
            /\ pc \in Where
            /\ block \in Nat /\ block_start \in Nat /\ got \in Nat
            /\ worker \in Seq(States) /\ Len(worker) = block
            /\ range \in Seq(Nat \X Nat) /\ Len(range) = block
            /\ out \in Seq(Seq(Nat)) /\ Len(out) = block
            /\ sum \in Seq(Nat) /\ last_result \in Seq(Nat)

\* Before the first thread, or without any.
Untouched == /\ pc \in {"enter", "crashed", "returned"}
             /\ block = 0 /\ block_start = 0 /\ got = 0 /\ sum = <<>>
             /\ pc = "returned" => length = 0

\* The blocks follow each other, and are of the elements that their threads add up.
Divided == /\ num_threads # 0 /\ pc \notin {"enter", "crashed"}
           /\ block <= num_threads - 1 /\ got <= block
           /\ block_start = block * block_size
           /\ \A k \in 1 .. block :
                 /\ range[k] = <<(k - 1) * block_size, k * block_size>>
                 /\ worker[k] # "running" /\ ~Accumulate!Throws(range[k])
                       => out[k] = Accumulate!Block(range[k])

\* When all blocks are given out, the last one is added up, and throws nothing.
LastAdded == pc \in {"sum", "join", "returned"} =>
    /\ block = num_threads - 1
    /\ last_result = Accumulate!Block(Accumulate!LastBlock)
    /\ ~Accumulate!Throws(Accumulate!LastBlock)

\* What has been added so far, and did not throw.
Adding     == pc \in {"spawn", "sum"} \/ (pc = "join" /\ accVersion # "joiner")
PartsAdded == Adding =>
    /\ sum = Accumulate!Block(<<0, got * block_size>>)
    /\ \A e \in faulty : e > got * block_size
Added      == pc = "returned" \/ (pc = "join" /\ accVersion = "joiner")
AllAdded   == Added =>
    sum = Accumulate!Block(<<0, length>>) /\ faulty = {}

\* Whom the caller has waited for, and what ends the program.
Waited == /\ pc \in {"returned", "threw"} \/ (pc = "sum" /\ accVersion # "joiner")
                => \A k \in 1 .. block : worker[k] = "joined"
          /\ pc = "unwind" => accVersion = "joiner"
          /\ accVersion = "joiner" => pc # "terminated"

Working == Divided /\ LastAdded /\ PartsAdded /\ AllAdded /\ Waited
AccInv  == AccTypes /\ (Untouched \/ Working)

-----------------------------------------------------------------------------
(* Each step preserves it. *)

accInput == <<accVersion, length, accHardware, faulty>>

LEMMA Numbers ==
    ASSUME AccTypes
    PROVE  /\ num_threads \in Nat
           /\ num_threads # 0 => block_size \in Nat /\ num_threads * block_size <= length
<1>1. PerThread \in Nat \ {0} /\ length \in Nat /\ accHardware \in Nat
  BY Bounds DEF Accumulate!BoundsPositive, AccTypes
<1>2. Accumulate!CeilDiv(length, PerThread) \in Nat
  BY <1>1, Division, length + PerThread - 1 \in Nat DEF Accumulate!CeilDiv
<1>3. num_threads \in Nat
  BY <1>1, <1>2 DEF num_threads, Accumulate!num_threads, Accumulate!Smaller
<1>4. ASSUME num_threads # 0
      PROVE  block_size \in Nat /\ num_threads * block_size <= length
  BY <1>1, <1>3, <1>4, Division DEF block_size, num_threads, Accumulate!block_size
<1> QED
  BY <1>3, <1>4

LEMMA SameInput ==
    ASSUME UNCHANGED accInput
    PROVE  /\ num_threads' = num_threads /\ block_size' = block_size
           /\ \A r : Accumulate!Throws(r)' <=> Accumulate!Throws(r)
BY DEF accInput, num_threads, block_size, Accumulate!num_threads, Accumulate!block_size,
   Accumulate!CeilDiv, Accumulate!Smaller, Accumulate!Throws

\* The first elements of a block, and the end of the blocks, in numbers.
LEMMA Ends ==
    ASSUME AccTypes, Divided
    PROVE  /\ num_threads \in Nat \ {0} /\ block_size \in Nat
           /\ \A k \in 0 .. num_threads : k * block_size \in Nat /\ k * block_size <= length
                                          /\ (k + 1) * block_size = k * block_size + block_size
<1>1. num_threads \in Nat /\ num_threads # 0
      /\ block_size \in Nat /\ num_threads * block_size <= length /\ length \in Nat
  BY Numbers DEF Divided, AccTypes
<1>2. ASSUME NEW k \in 0 .. num_threads
      PROVE  k * block_size \in Nat /\ k * block_size <= length
             /\ (k + 1) * block_size = k * block_size + block_size
  <2>1. k * block_size \in Nat /\ k * block_size <= num_threads * block_size
        /\ (k + 1) * block_size = k * block_size + block_size
    BY <1>1, Multiples
  <2>2. num_threads * block_size \in Int
    BY <1>1
  <2> QED
    BY <1>1, <2>1, <2>2
<1> QED
  BY <1>1, <1>2

LEMMA InitHolds == BothInit => AccInv
<1> SUFFICES ASSUME BothInit PROVE AccInv
  OBVIOUS
<1>1. Accumulate!Init
  BY DEF BothInit
<1>2. length \in Nat /\ accHardware \in Nat
  BY <1>1, Bounds DEF Accumulate!Init, Accumulate!BoundsPositive
<1>3. AccTypes
  BY <1>1, <1>2 DEF Accumulate!Init, AccTypes, Where, States
<1>4. Untouched
  BY <1>1 DEF Accumulate!Init, Untouched
<1> QED
  BY <1>3, <1>4 DEF AccInv

LEMMA EnterKeeps ==
    ASSUME AccInv, Accumulate!Enter
    PROVE  AccInv'
<1>1. AccTypes /\ Untouched /\ pc = "enter"
  BY DEF AccInv, Working, Divided, Accumulate!Enter
<1>2. UNCHANGED <<accInput, block, block_start, range, worker, out, last_result, sum, got>>
  BY DEF Accumulate!Enter, Accumulate!input, Accumulate!blocks, accInput
<1>3. AccTypes'
  BY <1>1, <1>2 DEF AccTypes, accInput, Where, Accumulate!Enter
<1>4. CASE pc' = "spawn"
  <2>1. num_threads # 0 /\ num_threads \in Nat
    BY <1>1, <1>4, Numbers DEF Accumulate!Enter, num_threads
  <2>2. num_threads' # 0 /\ num_threads' - 1 >= 0 /\ num_threads' \in Nat
        /\ block_size' \in Nat
    BY <1>1, <1>2, <2>1, Numbers, SameInput
  <2>6. 0 * block_size' = 0 /\ got' = 0 /\ block' = 0 /\ block_start' = 0
    BY <1>1, <1>2, <2>2, Zero DEF Untouched
  <2>3. Divided'
    <3>1. block' * block_size' = 0 /\ block' <= num_threads' - 1 /\ got' <= block'
      <4>1. block' * block_size' = 0
        BY <2>6
      <4>2. block' <= num_threads' - 1
        BY <2>2, <2>6
      <4>3. got' <= block'
        BY <2>6
      <4> QED
        BY <4>1, <4>2, <4>3
    <3>2. 1 .. block' = {}
      BY <2>6
    <3> QED
      BY <1>4, <2>2, <2>6, <3>1, <3>2 DEF Divided
  <2>4. sum' = Accumulate!Block(<<0, got' * block_size'>>)
    <3>1. Len(Accumulate!Block(<<0, 0>>)) = 0 /\ Accumulate!Block(<<0, 0>>) \in Seq(Nat)
      BY BlockIs, 0 \in Nat, 0 <= 0
    <3>2. Accumulate!Block(<<0, 0>>) = <<>>
      BY <3>1, EmptySeq
    <3> QED
      BY <1>1, <1>2, <2>2, <3>2 DEF Untouched
  <2>5. PartsAdded'
    <3> QED
      BY <2>4, <2>6, <1>3 DEF PartsAdded, AccTypes
  <2> QED
    BY <1>3, <1>4, <2>3, <2>5 DEF AccInv, Working, LastAdded, AllAdded, Added, Waited
<1>5. CASE pc' # "spawn"
  <2>1. Untouched'
    BY <1>1, <1>2, <1>5 DEF Accumulate!Enter, Untouched, accInput
  <2> QED
    BY <1>3, <2>1 DEF AccInv
<1> QED
  BY <1>4, <1>5

\* What stays as it is stays divided.
LEMMA DividedStays ==
    ASSUME Divided, pc' \notin {"enter", "crashed"},
           UNCHANGED <<accInput, block, block_start, range, worker, out, got>>
    PROVE  Divided'
<1>1. num_threads' = num_threads /\ block_size' = block_size /\ faulty' = faulty
  BY SameInput DEF accInput
<1> QED
  BY <1>1 DEF Divided, Accumulate!Throws

\* An exception leaves the function.
LEMMA UnwindKeeps ==
    ASSUME AccTypes, Working, pc' = Accumulate!Unwind,
           UNCHANGED <<accInput, block, block_start, range, worker, out, last_result, sum, got>>
    PROVE  AccTypes' /\ Working'
<1>1. \/ pc' = "unwind" /\ accVersion = "joiner"
      \/ pc' = "terminated" /\ accVersion # "joiner"
      \/ pc' = "threw" /\ \A k \in DOMAIN worker : worker[k] = "joined"
  BY DEF Accumulate!Unwind, Accumulate!UnwindFrom, Accumulate!Joinable
<1>2. AccTypes'
  BY <1>1 DEF AccTypes, accInput, Where
<1>3. Divided'
  BY <1>1, DividedStays DEF Working
<1>4. Waited'
  <2>1. DOMAIN worker = 1 .. block
    BY LenProperties DEF AccTypes
  <2> QED
    BY <1>1, <2>1 DEF Waited, accInput
<1> QED
  BY <1>1, <1>2, <1>3, <1>4 DEF Working, LastAdded, PartsAdded, Adding, AllAdded, Added

LEMMA SpawnKeeps ==
    ASSUME AccTypes, Working, Accumulate!Spawn
    PROVE  AccTypes' /\ Working'
<1>1. /\ pc = "spawn" /\ pc' = "spawn" /\ block < num_threads - 1
      /\ worker' = Append(worker, "running")
      /\ range' = Append(range, <<block_start, block_start + block_size>>)
      /\ out' = Append(out, <<>>)
      /\ block' = block + 1 /\ block_start' = block_start + block_size
      /\ UNCHANGED <<accInput, last_result, sum, got>>
  BY DEF Accumulate!Spawn, num_threads, block_size, accInput, Accumulate!input
<1>2. Divided /\ num_threads \in Nat \ {0} /\ block_size \in Nat
      /\ \A k \in 0 .. num_threads : k * block_size \in Nat
                      /\ (k + 1) * block_size = k * block_size + block_size
  BY Ends DEF Working
<1>3. num_threads' = num_threads /\ block_size' = block_size /\ faulty' = faulty
  BY <1>1, SameInput DEF accInput
<1>4. /\ worker \in Seq(States) /\ range \in Seq(Nat \X Nat) /\ out \in Seq(Seq(Nat))
      /\ Len(worker) = block /\ Len(range) = block /\ Len(out) = block
      /\ block \in Nat /\ block_start \in Nat /\ got \in Nat
  BY DEF AccTypes
<1> DEFINE r == <<block_start, block_start + block_size>>
<1>5. "running" \in States /\ r \in Nat \X Nat /\ <<>> \in Seq(Nat)
  BY <1>2, <1>4 DEF States
<1>6. /\ worker' \in Seq(States) /\ range' \in Seq(Nat \X Nat) /\ out' \in Seq(Seq(Nat))
      /\ Len(worker') = block' /\ Len(range') = block' /\ Len(out') = block'
      /\ \A k \in 1 .. block : /\ worker'[k] = worker[k] /\ range'[k] = range[k]
                               /\ out'[k] = out[k]
      /\ worker'[block + 1] = "running" /\ range'[block + 1] = r
  <2>1. /\ worker' \in Seq(States) /\ Len(worker') = Len(worker) + 1
        /\ \A k \in 1 .. Len(worker) : worker'[k] = worker[k]
        /\ worker'[Len(worker) + 1] = "running"
    BY <1>1, <1>4, <1>5, AppendProperties
  <2>2. /\ range' \in Seq(Nat \X Nat) /\ Len(range') = Len(range) + 1
        /\ \A k \in 1 .. Len(range) : range'[k] = range[k]
        /\ range'[Len(range) + 1] = r
    <3> HIDE DEF r
    <3> QED
      BY <1>1, <1>4, <1>5, AppendProperties DEF r
  <2>3. /\ out' \in Seq(Seq(Nat)) /\ Len(out') = Len(out) + 1
        /\ \A k \in 1 .. Len(out) : out'[k] = out[k]
    <3>1. out \in Seq(Seq(Nat)) /\ <<>> \in Seq(Nat) /\ out' = Append(out, <<>>)
      BY <1>1, <1>4, <1>5
    <3> QED
      BY <3>1, AppendProperties
  <2> HIDE DEF r
  <2> QED
    BY <1>1, <1>4, <2>1, <2>2, <2>3
<1>7. AccTypes'
  BY <1>1, <1>2, <1>4, <1>6 DEF AccTypes, accInput
<1>8. block \in 0 .. num_threads /\ block_start = block * block_size
      /\ (block + 1) - 1 = block /\ (block + 1) * block_size = block_start + block_size
  <2>1. block \in 0 .. num_threads
    BY <1>1, <1>2, <1>4
  <2>2. block_start = block * block_size
    BY <1>2 DEF Divided
  <2>3. (block + 1) * block_size = block * block_size + block_size
    BY <1>2, <2>1
  <2>4. (block + 1) - 1 = block
    BY <1>4
  <2> QED
    BY <2>1, <2>2, <2>3, <2>4
<1>9. Divided'
  <2>1. block' <= num_threads' - 1 /\ got' <= block' /\ block_start' = block' * block_size'
    <3>1. block' <= num_threads' - 1
      BY <1>1, <1>2, <1>3, <1>4
    <3>2. got' <= block'
      <4>1. got <= block
        BY <1>2 DEF Divided
      <4> QED
        BY <1>1, <1>4, <4>1
    <3>3. block_start' = block' * block_size'
      BY <1>1, <1>3, <1>8
    <3> QED
      BY <3>1, <3>2, <3>3
  <2>2. ASSUME NEW k \in 1 .. block'
        PROVE  /\ range'[k] = <<(k - 1) * block_size, k * block_size>>
               /\ worker'[k] # "running" /\ ~Accumulate!Throws(range[k])'
                       => out'[k] = Accumulate!Block(range'[k])
    <3>1. CASE k = block + 1
      <4>1. (k - 1) * block_size = block_start /\ k * block_size = block_start + block_size
        BY <1>8, <3>1
      <4> QED
        BY <1>6, <3>1, <4>1
    <3>2. CASE k \in 1 .. block
      BY <1>2, <1>3, <1>6, <3>2 DEF Divided, Accumulate!Throws
    <3>3. k = block + 1 \/ k \in 1 .. block
      BY <1>1, <1>4
    <3> QED
      BY <3>1, <3>2, <3>3
  <2> QED
    BY <1>1, <1>2, <1>3, <2>1, <2>2 DEF Divided
<1>10. PartsAdded'
  BY <1>1, <1>3 DEF Working, PartsAdded, Adding
<1>11. Waited'
  BY <1>1 DEF Working, Waited, accInput
<1> QED
  BY <1>1, <1>7, <1>9, <1>10, <1>11 DEF Working, LastAdded, AllAdded, Added

LEMMA SpawnFailsKeeps ==
    ASSUME AccTypes, Working, Accumulate!SpawnFails
    PROVE  AccTypes' /\ Working'
BY UnwindKeeps DEF Accumulate!SpawnFails, accInput, Accumulate!input, Accumulate!blocks

LEMMA AddFailsKeeps ==
    ASSUME AccTypes, Working, Accumulate!AddFails
    PROVE  AccTypes' /\ Working'
BY UnwindKeeps DEF Accumulate!AddFails, accInput, Accumulate!input, Accumulate!blocks

LEMMA AccumulateLastKeeps ==
    ASSUME AccTypes, Working, Accumulate!AccumulateLast
    PROVE  AccTypes' /\ Working'
<1>1. /\ pc = "spawn" /\ block = num_threads - 1
      /\ UNCHANGED <<accInput, block, block_start, range, worker, out, sum, got>>
  BY DEF Accumulate!AccumulateLast, num_threads, accInput, Accumulate!input, Accumulate!blocks
<1>2. CASE Accumulate!Throws(Accumulate!LastBlock)
  BY <1>1, <1>2, UnwindKeeps DEF Accumulate!AccumulateLast
<1>3. CASE ~Accumulate!Throws(Accumulate!LastBlock)
  <2>1. /\ last_result' = Accumulate!Block(<<block_start, length>>)
        /\ pc' = IF accVersion = "joiner" THEN "sum" ELSE "join"
    BY <1>3 DEF Accumulate!AccumulateLast, Accumulate!LastBlock
  <2>2. Divided /\ num_threads \in Nat \ {0} /\ block_size \in Nat
        /\ block * block_size <= length /\ length \in Nat
    BY <1>1, Ends DEF Working, AccTypes
  <2>3. block_start \in Nat /\ block_start <= length
    BY <2>2 DEF Divided, AccTypes
  <2>4. AccTypes'
    <3>1. last_result' \in Seq(Nat)
      BY <2>1, <2>2, <2>3, BlockIs
    <3> QED
      BY <1>1, <2>1, <3>1 DEF AccTypes, accInput, Where
  <2>5. Divided'
    BY <1>1, <2>1, DividedStays DEF Working
  <2>6. num_threads' = num_threads /\ block_size' = block_size
    BY <1>1, SameInput
  <2>7. LastAdded'
    BY <1>1, <1>3, <2>1, <2>6 DEF LastAdded, Accumulate!LastBlock, Accumulate!Throws, accInput
  <2>8. PartsAdded' /\ AllAdded' /\ Waited'
    BY <1>1, <2>1, <2>6 DEF Working, PartsAdded, Adding, AllAdded, Added, Waited, accInput
  <2> QED
    BY <2>4, <2>5, <2>7, <2>8 DEF Working
<1> QED
  BY <1>2, <1>3

\* A thread goes through its block.
LEMMA AccumulateKeeps ==
    ASSUME AccTypes, Working, NEW k \in DOMAIN worker, Accumulate!Accumulate(k)
    PROVE  AccTypes' /\ Working'
<1>1. /\ worker[k] = "running" /\ pc # "terminated"
      /\ UNCHANGED <<accInput, block, block_start, range, last_result, sum, got>>
  BY DEF Accumulate!Accumulate, accInput, Accumulate!input, Accumulate!blocks
<1>2. /\ worker \in Seq(States) /\ range \in Seq(Nat \X Nat) /\ out \in Seq(Seq(Nat))
      /\ Len(worker) = block /\ Len(range) = block /\ Len(out) = block /\ block \in Nat
      /\ DOMAIN worker = 1 .. block /\ DOMAIN range = 1 .. block /\ DOMAIN out = 1 .. block
  BY LenProperties DEF AccTypes
<1>3. num_threads' = num_threads /\ block_size' = block_size /\ faulty' = faulty
  BY <1>1, SameInput DEF accInput
<1>4. Divided /\ num_threads \in Nat \ {0} /\ block_size \in Nat
  BY Ends DEF Working
<1>5. CASE Accumulate!Throws(range[k])
  <2>1. /\ worker' = [worker EXCEPT ![k] = "threw"] /\ out' = out
        /\ pc' = IF accVersion = "results" THEN "terminated" ELSE pc
    BY <1>5 DEF Accumulate!Accumulate
  <2>2. worker' \in Seq(States) /\ Len(worker') = block
        /\ \A j \in 1 .. block : worker'[j] = IF j = k THEN "threw" ELSE worker[j]
    BY <1>2, <2>1, ExceptSeq, "threw" \in States DEF States
  <2>3. AccTypes'
    BY <1>1, <2>1, <2>2 DEF AccTypes, accInput, Where
  <2>4. Divided'
    BY <1>1, <1>2, <1>3, <1>4, <1>5, <2>1, <2>2 DEF Divided, Accumulate!Throws
  <2>5. pc \notin {"returned", "threw"} /\ ~(pc = "sum" /\ accVersion # "joiner")
    BY <1>1, <1>2 DEF Working, Waited
  <2>6. LastAdded' /\ PartsAdded' /\ AllAdded' /\ Waited'
    BY <1>1, <1>2, <1>3, <2>1, <2>2, <2>5
       DEF Working, LastAdded, PartsAdded, Adding, AllAdded, Added, Waited, accInput,
           Accumulate!LastBlock, Accumulate!Throws, AccTypes, Accumulate!Versions
  <2> QED
    BY <2>3, <2>4, <2>6 DEF Working
<1>6. CASE ~Accumulate!Throws(range[k])
  <2>1. /\ worker' = [worker EXCEPT ![k] = "done"] /\ pc' = pc
        /\ out' = [out EXCEPT ![k] = Accumulate!Block(range[k])]
    BY <1>6 DEF Accumulate!Accumulate
  <2>2. Accumulate!Block(range[k]) \in Seq(Nat)
    <3>1. /\ range[k] = <<(k - 1) * block_size, k * block_size>>
          /\ k - 1 \in 0 .. num_threads /\ (k - 1) + 1 = k
      <4>1. range[k] = <<(k - 1) * block_size, k * block_size>> /\ block <= num_threads - 1
        BY <1>2, <1>4 DEF Divided
      <4>2. k \in 1 .. block /\ block \in Nat /\ num_threads \in Nat
        BY <1>2, <1>4
      <4>3. k - 1 \in 0 .. num_threads /\ (k - 1) + 1 = k
        BY <4>1, <4>2
      <4> QED
        BY <4>1, <4>3
    <3>2. /\ (k - 1) * block_size \in Nat /\ k * block_size = (k - 1) * block_size + block_size
      BY <3>1, Ends, <1>4
    <3> QED
      BY <1>4, <3>1, <3>2, BlockIs
  <2>3. /\ worker' \in Seq(States) /\ Len(worker') = block
        /\ \A j \in 1 .. block : worker'[j] = IF j = k THEN "done" ELSE worker[j]
        /\ out' \in Seq(Seq(Nat)) /\ Len(out') = block
        /\ \A j \in 1 .. block : out'[j] = IF j = k THEN Accumulate!Block(range[k]) ELSE out[j]
    <3>1. "done" \in States
      BY DEF States
    <3> QED
      BY <1>2, <2>1, <2>2, <3>1, ExceptSeq
  <2>4. AccTypes'
    BY <1>1, <2>1, <2>3 DEF AccTypes, accInput, Where
  <2>5. Divided'
    BY <1>1, <1>2, <1>3, <1>4, <1>6, <2>1, <2>3 DEF Divided, Accumulate!Throws
  <2>6. pc \notin {"returned", "threw"} /\ ~(pc = "sum" /\ accVersion # "joiner")
    BY <1>1, <1>2 DEF Working, Waited
  <2>7. LastAdded' /\ PartsAdded' /\ AllAdded' /\ Waited'
    BY <1>1, <1>2, <1>3, <2>1, <2>3, <2>6
       DEF Working, LastAdded, PartsAdded, Adding, AllAdded, Added, Waited, accInput,
           Accumulate!LastBlock, Accumulate!Throws
  <2> QED
    BY <2>4, <2>5, <2>7 DEF Working
<1> QED
  BY <1>5, <1>6

LEMMA JoinKeeps ==
    ASSUME AccTypes, Working, NEW k \in DOMAIN worker, Accumulate!Join(k)
    PROVE  AccTypes' /\ Working'
<1>1. /\ pc \in {"join", "unwind"} /\ worker[k] # "running"
      /\ worker' = [worker EXCEPT ![k] = "joined"]
      /\ UNCHANGED <<accInput, pc, block, block_start, range, out, last_result, sum, got>>
  BY DEF Accumulate!Join, accInput, Accumulate!input, Accumulate!blocks
<1>2. worker \in Seq(States) /\ Len(worker) = block /\ block \in Nat
      /\ DOMAIN worker = 1 .. block
  BY LenProperties DEF AccTypes
<1>3. num_threads' = num_threads /\ block_size' = block_size /\ faulty' = faulty
  BY <1>1, SameInput DEF accInput
<1>4. worker' \in Seq(States) /\ Len(worker') = block
      /\ \A j \in 1 .. block : worker'[j] = IF j = k THEN "joined" ELSE worker[j]
  BY <1>1, <1>2, ExceptSeq, "joined" \in States DEF States
<1>5. AccTypes'
  BY <1>1, <1>4 DEF AccTypes, accInput, Where
<1>6. Divided'
  BY <1>1, <1>2, <1>3, <1>4 DEF Working, Divided, Accumulate!Throws
<1>7. LastAdded' /\ PartsAdded' /\ AllAdded' /\ Waited'
  BY <1>1, <1>3 DEF Working, LastAdded, PartsAdded, Adding, AllAdded, Added, Waited, accInput,
     Accumulate!LastBlock, Accumulate!Throws
<1> QED
  BY <1>5, <1>6, <1>7 DEF Working

LEMMA AllJoinedKeeps ==
    ASSUME AccTypes, Working, Accumulate!AllJoined
    PROVE  AccTypes' /\ Working'
<1>1. /\ pc \in {"join", "unwind"}
      /\ \A k \in DOMAIN worker : worker[k] = "joined"
      /\ pc' = IF pc = "unwind" THEN "threw" ELSE IF accVersion = "joiner" THEN "returned" ELSE "sum"
      /\ UNCHANGED <<accInput, block, block_start, range, worker, out, last_result, sum, got>>
  BY DEF Accumulate!AllJoined, Accumulate!Joinable, accInput, Accumulate!input, Accumulate!blocks
<1>2. DOMAIN worker = 1 .. block
  BY LenProperties DEF AccTypes
<1>3. num_threads' = num_threads /\ block_size' = block_size /\ faulty' = faulty
  BY <1>1, SameInput DEF accInput
<1>4. AccTypes'
  BY <1>1 DEF AccTypes, accInput, Where
<1>5. Divided'
  BY <1>1, DividedStays DEF Working
<1>6. LastAdded' /\ PartsAdded' /\ AllAdded' /\ Waited'
  BY <1>1, <1>2, <1>3 DEF Working, LastAdded, PartsAdded, Adding, AllAdded, Added, Waited,
     accInput, Accumulate!LastBlock, Accumulate!Throws
<1> QED
  BY <1>4, <1>5, <1>6 DEF Working

\* A partial result is added: the next block follows what has been added so far.
LEMMA GetKeeps ==
    ASSUME AccTypes, Working, NEW k \in DOMAIN worker, Accumulate!Get(k)
    PROVE  AccTypes' /\ Working'
<1>1. /\ pc = "sum" /\ got = k - 1 /\ worker[k] # "running"
      /\ UNCHANGED <<accInput, block, block_start, range, worker, out, last_result>>
  BY DEF Accumulate!Get, accInput, Accumulate!input, Accumulate!blocks
<1>2. CASE Accumulate!Throws(range[k])
  BY <1>1, <1>2, UnwindKeeps DEF Accumulate!Get
<1>3. CASE ~Accumulate!Throws(range[k])
  <2>1. sum' = sum \o out[k] /\ got' = k /\ pc' = "sum"
    BY <1>1, <1>3 DEF Accumulate!Get
  <2>2. Divided /\ PartsAdded /\ num_threads \in Nat \ {0} /\ block_size \in Nat
    BY Ends DEF Working
  <2>3. /\ block \in Nat /\ k \in 1 .. block /\ block <= num_threads - 1
        /\ k - 1 \in 0 .. num_threads /\ (k - 1) + 1 = k
    <3>1. block \in Nat /\ k \in 1 .. block
      BY LenProperties DEF AccTypes
    <3>2. block <= num_threads - 1
      BY <2>2 DEF Divided
    <3> QED
      BY <2>2, <3>1, <3>2
  <2>4. /\ (k - 1) * block_size \in Nat
        /\ k * block_size = (k - 1) * block_size + block_size
    BY <2>2, <2>3, Ends
  <2> DEFINE a == (k - 1) * block_size
             b == k * block_size
  <2>5. a \in Nat /\ b \in Nat /\ a <= b
    BY <2>2, <2>4
  <2>6. range[k] = <<a, b>> /\ out[k] = Accumulate!Block(<<a, b>>)
    BY <1>1, <1>3, <2>2, <2>3 DEF Divided
  <2>7. sum = Accumulate!Block(<<0, a>>) /\ \A e \in faulty : e > a
    BY <1>1, <2>2 DEF PartsAdded, Adding
  <2> HIDE DEF a, b
  <2>8. sum' = Accumulate!Block(<<0, b>>)
    BY <2>1, <2>5, <2>6, <2>7, Adjacent
  <2>9. \A e \in faulty : e > b
    <3>1. ASSUME NEW e \in faulty
          PROVE  e > b
      <4>1. e \in Nat
        BY DEF AccTypes
      <4>2. ~(a < e /\ e <= b)
        BY <1>3, <2>6 DEF Accumulate!Throws
      <4> QED
        BY <2>5, <2>7, <4>1, <4>2
    <3> QED
      BY <3>1
  <2>10. num_threads' = num_threads /\ block_size' = block_size /\ faulty' = faulty
    BY <1>1, SameInput DEF accInput
  <2>11. AccTypes'
    <3>1. sum' \in Seq(Nat)
      BY <2>5, <2>8, BlockIs, 0 \in Nat, 0 <= b
    <3> QED
      <4>1. got' \in Nat
        BY <2>1, <2>3
      <4> QED
        BY <1>1, <2>1, <3>1, <4>1 DEF AccTypes, accInput, Where
  <2>12. Divided'
    BY <1>1, <2>1, <2>2, <2>3, <2>10 DEF Divided, Accumulate!Throws
  <2>13. PartsAdded'
    BY <1>1, <2>1, <2>8, <2>9, <2>10 DEF PartsAdded, b
  <2>14. LastAdded' /\ AllAdded' /\ Waited'
    BY <1>1, <2>1, <2>10 DEF Working, LastAdded, AllAdded, Added, Waited, accInput,
       Accumulate!LastBlock, Accumulate!Throws
  <2> QED
    BY <2>11, <2>12, <2>13, <2>14 DEF Working
<1> QED
  BY <1>2, <1>3

\* The caller's own block is the last.
LEMMA AddLastKeeps ==
    ASSUME AccTypes, Working, Accumulate!AddLast
    PROVE  AccTypes' /\ Working'
<1>1. /\ pc = "sum" /\ got = num_threads - 1 /\ sum' = sum \o last_result
      /\ pc' = IF accVersion = "joiner" THEN "join" ELSE "returned"
      /\ UNCHANGED <<accInput, block, block_start, range, worker, out, last_result, got>>
  BY DEF Accumulate!AddLast, num_threads, accInput, Accumulate!input, Accumulate!blocks
<1>2. /\ Divided /\ LastAdded /\ PartsAdded /\ num_threads \in Nat \ {0} /\ block_size \in Nat
      /\ block = num_threads - 1 /\ length \in Nat
  BY <1>1, Ends DEF Working, LastAdded, AccTypes
<1>3. block_start = got * block_size /\ block_start \in Nat /\ block_start <= length
  <2>1. block = got /\ got \in 0 .. num_threads /\ block_start \in Nat
    BY <1>1, <1>2 DEF AccTypes
  <2>2. block_start = block * block_size
    BY <1>2 DEF Divided
  <2>3. got * block_size <= length
    BY <1>2, <2>1, Ends
  <2> QED
    BY <2>1, <2>2, <2>3
<1>4. /\ sum = Accumulate!Block(<<0, block_start>>)
      /\ last_result = Accumulate!Block(<<block_start, length>>)
  BY <1>1, <1>2, <1>3 DEF PartsAdded, Adding, LastAdded, Accumulate!LastBlock
<1>5. sum' = Accumulate!Block(<<0, length>>)
  BY <1>1, <1>2, <1>3, <1>4, Adjacent
<1>6. faulty = {}
  <2>1. ASSUME NEW e \in faulty
        PROVE  FALSE
    <3>1. e \in Nat /\ e <= length
      BY DEF AccTypes
    <3>2. e > block_start
      BY <1>1, <1>2, <1>3 DEF PartsAdded, Adding
    <3>3. ~(block_start < e /\ e <= length)
      BY <1>1, <1>2 DEF LastAdded, Accumulate!LastBlock, Accumulate!Throws
    <3> QED
      BY <1>3, <3>1, <3>2, <3>3
  <2> QED
    BY <2>1
<1>7. num_threads' = num_threads /\ block_size' = block_size
  BY <1>1, SameInput
<1>8. AccTypes'
  <2>1. sum' \in Seq(Nat)
    BY <1>2, <1>5, BlockIs, 0 \in Nat, 0 <= length
  <2> QED
    BY <1>1, <2>1 DEF AccTypes, accInput, Where
<1>9. Divided'
  BY <1>1, DividedStays DEF Working
<1>10. LastAdded' /\ PartsAdded' /\ Waited'
  BY <1>1, <1>2, <1>7 DEF Working, LastAdded, PartsAdded, Adding, Waited, accInput,
     Accumulate!LastBlock, Accumulate!Throws
<1>11. AllAdded'
  BY <1>1, <1>5, <1>6 DEF AllAdded, accInput
<1> QED
  BY <1>8, <1>9, <1>10, <1>11 DEF Working

\* Nothing but Enter is possible before the first step, and nothing when the call has
\* ended without a thread.
LEMMA OnlyWorking ==
    ASSUME AccInv, pc # "enter",
           \/ pc \in {"spawn", "sum", "join", "unwind"}
           \/ \E k \in DOMAIN worker : TRUE
    PROVE  Working
<1>1. AccTypes /\ DOMAIN worker = 1 .. block
  BY LenProperties DEF AccInv, AccTypes
<1>2. ~Untouched
  BY <1>1 DEF Untouched
<1> QED
  BY <1>2 DEF AccInv

LEMMA AccumulateKeepsInv ==
    ASSUME AccInv, Accumulate!Next
    PROVE  AccInv'
<1> SUFFICES ASSUME ~Accumulate!Enter, ~Accumulate!Ended
             PROVE  AccTypes' /\ Working'
  <2>1. CASE Accumulate!Enter
    BY <2>1, EnterKeeps
  <2>2. CASE Accumulate!Ended
    BY <2>2 DEF Accumulate!Ended, Accumulate!vars, Accumulate!input, Accumulate!blocks,
       AccInv, AccTypes, Untouched, Working, Divided, LastAdded, PartsAdded, Adding, AllAdded,
       Added, Waited, num_threads, block_size, Accumulate!num_threads, Accumulate!block_size,
       Accumulate!CeilDiv, Accumulate!Smaller, Accumulate!Throws, Accumulate!LastBlock
  <2> QED
    BY <2>1, <2>2 DEF AccInv
<1>1. AccTypes
  BY DEF AccInv
<1>2. pc # "enter" \/ \E k \in DOMAIN worker : TRUE
  BY DEF Accumulate!Next, Accumulate!Spawn, Accumulate!SpawnFails, Accumulate!AccumulateLast,
     Accumulate!AllJoined, Accumulate!AddLast, Accumulate!AddFails
<1>3. Working
  <2>1. CASE \E k \in DOMAIN worker : TRUE
    <3>1. pc # "enter"
      <4>1. DOMAIN worker = 1 .. block
        BY <1>1, LenProperties DEF AccTypes
      <4> QED
        BY <2>1, <4>1 DEF AccInv, Untouched, Working, Divided
    <3> QED
      BY <2>1, <3>1, OnlyWorking
  <2>2. CASE ~\E k \in DOMAIN worker : TRUE
    <3>1. pc \in {"spawn", "sum", "join", "unwind"}
      BY <2>2 DEF Accumulate!Next, Accumulate!Spawn, Accumulate!SpawnFails,
         Accumulate!AccumulateLast, Accumulate!AllJoined, Accumulate!AddLast, Accumulate!AddFails
    <3> QED
      BY <1>2, <2>2, <3>1, OnlyWorking
  <2> QED
    BY <2>1, <2>2
<1>4. CASE Accumulate!Spawn
  BY <1>1, <1>3, <1>4, SpawnKeeps
<1>5. CASE Accumulate!SpawnFails
  BY <1>1, <1>3, <1>5, SpawnFailsKeeps
<1>6. CASE Accumulate!AccumulateLast
  BY <1>1, <1>3, <1>6, AccumulateLastKeeps
<1>7. CASE Accumulate!AllJoined
  BY <1>1, <1>3, <1>7, AllJoinedKeeps
<1>8. CASE Accumulate!AddLast
  BY <1>1, <1>3, <1>8, AddLastKeeps
<1>9. CASE Accumulate!AddFails
  BY <1>1, <1>3, <1>9, AddFailsKeeps
<1>10. ASSUME NEW k \in DOMAIN worker,
              Accumulate!Accumulate(k) \/ Accumulate!Join(k) \/ Accumulate!Get(k)
       PROVE  AccTypes' /\ Working'
  BY <1>1, <1>3, <1>10, AccumulateKeeps, JoinKeeps, GetKeeps
<1> QED
  BY <1>4, <1>5, <1>6, <1>7, <1>8, <1>9, <1>10 DEF Accumulate!Next

-----------------------------------------------------------------------------
(* Accumulate, for every length, number of processors and set of throwing elements. *)

LEMMA AccInvInductive ==
    ASSUME AccInv, [SortNext \/ AccumulateNext]_BothVars
    PROVE  AccInv'
<1>1. CASE AccumulateNext
  BY <1>1, AccumulateKeepsInv DEF AccumulateNext
<1>2. CASE UNCHANGED accVars
  BY <1>2 DEF accVars, AccInv, AccTypes, Untouched, Working, Divided, LastAdded, PartsAdded,
     Adding, AllAdded, Added, Waited, num_threads, block_size, Accumulate!num_threads,
     Accumulate!block_size, Accumulate!CeilDiv, Accumulate!Smaller, Accumulate!Throws,
     Accumulate!LastBlock
<1> QED
  BY <1>1, <1>2 DEF SortNext, BothVars

\* The range is divided evenly, and what has been added up so far is a prefix of it.
THEOREM AccInvariant == SafeSpec => []AccInv
BY InitHolds, AccInvInductive, PTL DEF SafeSpec

\* A sum that is returned is that of all elements, in their order, and of no addition
\* that threw: however long the range is, whatever number of threads it is divided among,
\* and whichever additions and starts of threads fail, in all three versions.
THEOREM SumsAreWhole == SafeSpec => []SumIsWhole
<1>1. AccInv => SumIsWhole
  <2> SUFFICES ASSUME AccInv, pc = "returned"
               PROVE  sum = Accumulate!Block(<<0, length>>) /\ faulty = {}
    BY DEF SumIsWhole, Accumulate!SumIsWhole
  <2>1. CASE Working
    BY <2>1 DEF Working, AllAdded, Added
  <2>2. CASE Untouched
    <3>1. sum = <<>> /\ length = 0 /\ faulty = {}
      BY <2>2 DEF Untouched, AccInv, AccTypes
    <3>2. Len(Accumulate!Block(<<0, 0>>)) = 0 /\ Accumulate!Block(<<0, 0>>) \in Seq(Nat)
      BY BlockIs, 0 \in Nat, 0 <= 0
    <3> QED
      BY <3>1, <3>2, EmptySeq
  <2> QED
    BY <2>1, <2>2 DEF AccInv
<1> QED
  BY <1>1, AccInvariant, PTL

\* No thread outlives the call that started it, however the call ends, and in the
\* version with join_threads no exception ends the program.
THEOREM CallsEndAlone == SafeSpec => []EndsAlone
<1>1. AccInv => EndsAlone
  <2> SUFFICES ASSUME AccInv
               PROVE  EndsAlone
    OBVIOUS
  <2>1. DOMAIN worker = 1 .. block
    BY LenProperties DEF AccInv, AccTypes
  <2>2. CASE Working
    BY <2>1, <2>2 DEF Working, Waited, EndsAlone, Accumulate!EndsAlone
  <2>3. CASE Untouched
    BY <2>1, <2>3 DEF Untouched, EndsAlone, Accumulate!EndsAlone
  <2> QED
    BY <2>2, <2>3 DEF AccInv
<1> QED
  BY <1>1, AccInvariant, PTL

-----------------------------------------------------------------------------
(* Quick sort: the calls of a thread.  What a step does to a stack of calls is to    *)
(* replace what is on top of the first m calls.                                       *)

Chunk   == Elem \cup {Main}
Begun   == {"spawn", "push_back", "higher", "calling"}
Waiting == {"wait", "help"}
Steps   == {"split"} \cup Begun \cup Waiting
Frames  == [chunk : Chunk \cup {Higher}, step : Steps, data : SUBSET Elem, result : Seq(Elem)]

SortTypes == /\ key \in [Elem -> Int]
             /\ stack \in [Thread -> Seq(Frames)]
             /\ chunks \in Seq(Elem)
             /\ lower \in [Elem -> SUBSET Elem]
             /\ ready \subseteq Chunk
             /\ future \in [Chunk -> Seq(Elem)]
             /\ started \subseteq Helper

\* On the first m calls of t there are now the new ones, and all other calls are as before.
Replaced(t, m, new) ==
    /\ stack' \in [Thread -> Seq(Frames)]
    /\ m \in Nat /\ m <= Len(stack[t])
    /\ \A u \in Thread \ {t} : stack'[u] = stack[u]
    /\ Len(stack'[t]) = m + Len(new)
    /\ \A i \in 1 .. m : stack'[t][i] = stack[t][i]
    /\ \A j \in 1 .. Len(new) : stack'[t][m + j] = new[j]

LEMMA TopIs ==
    ASSUME SortTypes, NEW t \in Thread, stack[t] # <<>>
    PROVE  /\ stack[t] \in Seq(Frames) /\ Len(stack[t]) \in Nat \ {0}
           /\ Top(t) = stack[t][Len(stack[t])] /\ Top(t) \in Frames
           /\ Below(t) \in Seq(Frames) /\ Len(Below(t)) = Len(stack[t]) - 1
           /\ \A i \in 1 .. Len(stack[t]) - 1 : Below(t)[i] = stack[t][i]
<1> DEFINE s == stack[t]
           n == Len(s)
<1>1. s \in Seq(Frames) /\ s # <<>>
  BY DEF SortTypes
<1>2. n \in Nat \ {0} /\ \A i \in 1 .. n : s[i] \in Frames
  BY <1>1, EmptySeq, LenProperties, ElementOfSeq
<1>3. \A i \in 1 .. n - 1 : s[i] \in Frames
  BY <1>2
<1>4. /\ SubSeq(s, 1, n - 1) \in Seq(Frames)
      /\ Len(SubSeq(s, 1, n - 1)) = IF 1 <= n - 1 THEN (n - 1) - 1 + 1 ELSE 0
      /\ \A i \in 1 .. (n - 1) - 1 + 1 : SubSeq(s, 1, n - 1)[i] = s[1 + i - 1]
  <2> HIDE DEF s, n
  <2>1. 1 \in Int /\ n - 1 \in Int
    BY <1>2
  <2> QED
    BY <1>3, <2>1, SubSeqProperties
<1>5. /\ Len(SubSeq(s, 1, n - 1)) = n - 1
      /\ \A i \in 1 .. n - 1 : SubSeq(s, 1, n - 1)[i] = s[i]
  <2> HIDE DEF s, n
  <2>1. (n - 1) - 1 + 1 = n - 1 /\ (~(1 <= n - 1) => n - 1 = 0)
        /\ \A i \in 1 .. n - 1 : 1 + i - 1 = i
    BY <1>2
  <2> QED
    BY <1>4, <2>1
<1> QED
  BY <1>1, <1>2, <1>4, <1>5 DEF Top, Below

\* The call on top becomes f.
LEMMA BecomeIs ==
    ASSUME SortTypes, NEW t \in Thread, stack[t] # <<>>, NEW f \in Frames, Become(t, f)
    PROVE  Replaced(t, Len(stack[t]) - 1, <<f>>)
<1> DEFINE b == Below(t)
           n == Len(stack[t])
<1>1. b \in Seq(Frames) /\ Len(b) = n - 1 /\ n \in Nat \ {0}
      /\ \A i \in 1 .. n - 1 : b[i] = stack[t][i]
  BY TopIs
<1>2. stack \in [Thread -> Seq(Frames)] /\ stack' = [stack EXCEPT ![t] = Append(b, f)]
  BY DEF SortTypes, Become
<1> HIDE DEF b
<1>3. /\ Append(b, f) \in Seq(Frames) /\ Len(Append(b, f)) = Len(b) + 1
      /\ \A i \in 1 .. Len(b) : Append(b, f)[i] = b[i]
      /\ Append(b, f)[Len(b) + 1] = f
  BY <1>1, AppendProperties
<1>4. stack' \in [Thread -> Seq(Frames)] /\ stack'[t] = Append(b, f)
      /\ \A u \in Thread \ {t} : stack'[u] = stack[u]
  BY <1>2, <1>3
<1> DEFINE new == <<f>>
<1>5. Len(new) = 1 /\ new[1] = f /\ \A j \in 1 .. Len(new) : j = 1
  OBVIOUS
<1> HIDE DEF new
<1>6. Replaced(t, n - 1, new)
  BY <1>1, <1>3, <1>4, <1>5 DEF Replaced
<1> QED
  BY <1>6 DEF new

\* The call on top returns.
LEMMA ReturnIs ==
    ASSUME SortTypes, NEW t \in Thread, stack[t] # <<>>, stack' = [stack EXCEPT ![t] = Below(t)]
    PROVE  Replaced(t, Len(stack[t]) - 1, <<>>)
<1>1. Below(t) \in Seq(Frames) /\ Len(Below(t)) = Len(stack[t]) - 1
      /\ Len(stack[t]) \in Nat \ {0}
      /\ \A i \in 1 .. Len(stack[t]) - 1 : Below(t)[i] = stack[t][i]
  BY TopIs
<1>2. stack' \in [Thread -> Seq(Frames)] /\ stack'[t] = Below(t)
      /\ \A u \in Thread \ {t} : stack'[u] = stack[u]
  BY <1>1 DEF SortTypes
<1> DEFINE new == <<>>
<1>3. Len(new) = 0
  OBVIOUS
<1> HIDE DEF new
<1>4. Replaced(t, Len(stack[t]) - 1, new)
  BY <1>1, <1>2, <1>3 DEF Replaced
<1> QED
  BY <1>4 DEF new

\* The call on top returns to the one below it, which becomes g.
LEMMA ReturnToIs ==
    ASSUME SortTypes, NEW t \in Thread, Len(stack[t]) > 1, NEW g \in Frames,
           stack' = [stack EXCEPT ![t] = [Below(t) EXCEPT ![Len(stack[t]) - 1] = g]]
    PROVE  Replaced(t, Len(stack[t]) - 2, <<g>>)
<1> DEFINE b == Below(t)
           n == Len(stack[t])
<1>1. stack[t] # <<>>
  BY EmptySeq DEF SortTypes
<1>2. b \in Seq(Frames) /\ Len(b) = n - 1 /\ n \in Nat \ {0} /\ n > 1
      /\ \A i \in 1 .. n - 1 : b[i] = stack[t][i]
  BY <1>1, TopIs
<1>3. stack \in [Thread -> Seq(Frames)] /\ stack' = [stack EXCEPT ![t] = [b EXCEPT ![n - 1] = g]]
  BY DEF SortTypes
<1> HIDE DEF b, n
<1> DEFINE c == [b EXCEPT ![n - 1] = g]
<1>4. n - 1 \in 1 .. Len(b)
  BY <1>2
<1>5. c \in Seq(Frames) /\ Len(c) = Len(b)
      /\ \A i \in 1 .. Len(b) : c[i] = IF i = n - 1 THEN g ELSE b[i]
  BY <1>2, <1>4, ExceptSeq
<1> HIDE DEF c
<1>6. stack' \in [Thread -> Seq(Frames)] /\ stack'[t] = c
      /\ \A u \in Thread \ {t} : stack'[u] = stack[u]
  BY <1>3, <1>5 DEF c
<1>7. /\ n - 2 \in Nat /\ n - 2 <= n /\ Len(c) = (n - 2) + 1 /\ (n - 2) + 1 = n - 1
      /\ \A i \in 1 .. n - 2 : i \in 1 .. Len(b) /\ i # n - 1 /\ i \in 1 .. n - 1
  BY <1>2, <1>5
<1> DEFINE new == <<g>>
<1>8. Len(new) = 1 /\ new[1] = g /\ \A j \in 1 .. Len(new) : j = 1
  OBVIOUS
<1> HIDE DEF new
<1>9. Replaced(t, n - 2, new)
  BY <1>2, <1>4, <1>5, <1>6, <1>7, <1>8 DEF Replaced, n
<1> QED
  BY <1>9 DEF new, n

\* The call on top becomes g, and calls h.
LEMMA CallIs ==
    ASSUME SortTypes, NEW t \in Thread, stack[t] # <<>>, NEW g \in Frames, NEW h \in Frames,
           \/ stack' = [stack EXCEPT ![t] = Below(t) \o <<g, h>>]
           \/ stack' = [stack EXCEPT ![t] = Append(Below(t), g) \o <<h>>]
    PROVE  Replaced(t, Len(stack[t]) - 1, <<g, h>>)
<1> DEFINE b == Below(t)
           n == Len(stack[t])
           new == <<g, h>>
<1>1. b \in Seq(Frames) /\ Len(b) = n - 1 /\ n \in Nat \ {0}
      /\ \A i \in 1 .. n - 1 : b[i] = stack[t][i]
  BY TopIs
<1>2. new \in Seq(Frames) /\ Len(new) = 2 /\ new[1] = g /\ new[2] = h
  OBVIOUS
<1> HIDE DEF b
<1>3. Append(b, g) \o <<h>> = b \o new
  <2>1. Append(b, g) = b \o <<g>>
    BY <1>1, AppendIsConcat
  <2>2. <<g>> \in Seq(Frames) /\ <<h>> \in Seq(Frames) /\ <<g>> \o <<h>> = new
    <3>1. <<g>> \in Seq(Frames) /\ <<h>> \in Seq(Frames)
      OBVIOUS
    <3>2. <<g>> \o <<h>> = Append(<<g>>, h)
      BY <3>1, AppendIsConcat
    <3>3. /\ Append(<<g>>, h) \in Seq(Frames) /\ Len(Append(<<g>>, h)) = 2
          /\ Append(<<g>>, h)[1] = g /\ Append(<<g>>, h)[2] = h
      OBVIOUS
    <3>4. \A i \in 1 .. 2 : i = 1 \/ i = 2
      OBVIOUS
    <3>5. Append(<<g>>, h) = new
      <4> DEFINE c == Append(<<g>>, h)
      <4> HIDE DEF c, new
      <4>1. c \in Seq(Frames) /\ Len(c) = 2 /\ c[1] = g /\ c[2] = h
        BY <3>3 DEF c
      <4> QED
        BY <1>2, <3>4, <4>1, SeqEqual DEF c
    <3> QED
      BY <3>1, <3>2, <3>5
  <2>3. (b \o <<g>>) \o <<h>> = b \o (<<g>> \o <<h>>)
    BY <1>1, <2>2, ConcatAssociative
  <2> QED
    BY <2>1, <2>2, <2>3
<1>4. stack \in [Thread -> Seq(Frames)] /\ stack' = [stack EXCEPT ![t] = b \o new]
  BY <1>3 DEF SortTypes, b
<1> HIDE DEF new
<1>5. /\ b \o new \in Seq(Frames) /\ Len(b \o new) = Len(b) + Len(new)
      /\ \A i \in 1 .. Len(b) + Len(new) : (b \o new)[i] =
              IF i <= Len(b) THEN b[i] ELSE new[i - Len(b)]
  <2>1. b \in Seq(Frames) /\ new \in Seq(Frames)
    BY <1>1, <1>2
  <2> QED
    BY <2>1, ConcatProperties
<1> DEFINE c == b \o new
<1> HIDE DEF c
<1>6. stack' \in [Thread -> Seq(Frames)] /\ stack'[t] = c
      /\ \A u \in Thread \ {t} : stack'[u] = stack[u]
  BY <1>4, <1>5 DEF c
<1>7. /\ Len(c) = (n - 1) + Len(new) /\ n - 1 \in Nat /\ n - 1 <= n
      /\ \A i \in 1 .. n - 1 : c[i] = b[i]
      /\ \A j \in 1 .. Len(new) : c[(n - 1) + j] = new[j]
  <2>1. Len(c) = (n - 1) + 2 /\ n - 1 \in Nat /\ n - 1 <= n
    BY <1>1, <1>2, <1>5 DEF c
  <2>2. \A i \in 1 .. (n - 1) + 2 : c[i] = IF i <= n - 1 THEN b[i] ELSE new[i - (n - 1)]
    BY <1>1, <1>2, <1>5 DEF c
  <2>3. ASSUME NEW i \in 1 .. n - 1
        PROVE  c[i] = b[i]
    <3>1. i \in 1 .. (n - 1) + 2 /\ i <= n - 1
      BY <2>1
    <3> QED
      BY <2>2, <3>1
  <2>4. ASSUME NEW j \in 1 .. 2
        PROVE  c[(n - 1) + j] = new[j]
    <3>1. (n - 1) + j \in 1 .. (n - 1) + 2 /\ ~((n - 1) + j <= n - 1) /\ ((n - 1) + j) - (n - 1) = j
      BY <2>1
    <3> QED
      BY <2>2, <3>1
  <2> QED
    BY <1>2, <2>1, <2>3, <2>4
<1> HIDE DEF n
<1>8. Replaced(t, n - 1, new)
  BY <1>1, <1>6, <1>7 DEF Replaced, n
<1> QED
  BY <1>8 DEF new, n

\* A thread without a call makes one.
LEMMA FirstCallIs ==
    ASSUME SortTypes, NEW t \in Thread, stack[t] = <<>>, NEW h \in Frames,
           stack' = [stack EXCEPT ![t] = stack[t] \o <<h>>]
    PROVE  Replaced(t, 0, <<h>>)
<1>1. stack \in [Thread -> Seq(Frames)] /\ stack[t] \o <<h>> = <<h>>
  BY DEF SortTypes
<1>2. stack' = [stack EXCEPT ![t] = <<h>>]
  BY <1>1
<1> DEFINE new == <<h>>
<1>3. new \in Seq(Frames) /\ Len(new) = 1
  OBVIOUS
<1> HIDE DEF new
<1>4. stack' \in [Thread -> Seq(Frames)] /\ stack'[t] = new
      /\ \A u \in Thread \ {t} : stack'[u] = stack[u]
  BY <1>1, <1>2, <1>3 DEF new
<1>5. Len(stack[t]) = 0 /\ \A j \in 1 .. Len(new) : 0 + j = j
  BY <1>3
<1>6. Replaced(t, 0, new)
  BY <1>3, <1>4, <1>5 DEF Replaced
<1> QED
  BY <1>6 DEF new

-----------------------------------------------------------------------------
(* The strengthening for quick sort. *)

\* The data of an open call are still to be partitioned, in this very call.
Open(f) == f.step \in {"split", "spawn", "push_back", "higher"}

\* The elements of a chunk, and those that a call will return.
Whole(c) == IF c = Main THEN Elem ELSE lower[c]
Total(f) == (IF f.step \in Waiting THEN {} ELSE f.data) \cup Range(f.result)
               \cup (IF f.step = "split" THEN {} ELSE lower[Pivot(f)])

\* In order, and no element twice.
Sorted(s) == \A i, j \in 1 .. Len(s) : i < j => key[s[i]] <= key[s[j]] /\ s[i] # s[j]

\* What is in a call by the time it is at its step.
FrameOK(f) ==
    /\ f.step = "split" => f.result = <<>>
    /\ f.step \in Begun =>
          /\ f.result = <<Pivot(f)>> /\ Pivot(f) \in Elem
          /\ \A e \in f.data : e # Pivot(f) /\ key[Pivot(f)] <= key[e]
    /\ f.step \in Waiting =>
          /\ Len(f.result) >= 1 /\ Sorted(f.result)
          /\ \A i \in 2 .. Len(f.result) : f.result[i] \in ready
    /\ f.step # "split" => \A e \in lower[Pivot(f)] : key[e] < key[Pivot(f)]

\* A call returns the elements of the chunk, or of the higher half, it was made for.
Linked(t, i) == LET f == stack[t][i]
                IN  /\ f.chunk # Higher => Total(f) = Whole(f.chunk)
                    /\ f.chunk = Higher => /\ i > 1 /\ stack[t][i - 1].step = "calling"
                                           /\ Total(f) = stack[t][i - 1].data

Place(t, i) == t \in Thread /\ i \in 1 .. Len(stack[t])

Calls == \A t, i : Place(t, i) => FrameOK(stack[t][i]) /\ Linked(t, i)

\* No element is still to be partitioned in two places.
ApartCalls  == \A t, u, i, j : Place(t, i) /\ Place(u, j) /\ (t # u \/ i # j)
                                  /\ Open(stack[t][i]) /\ Open(stack[u][j])
                   => \A e \in stack[t][i].data : e \notin stack[u][j].data
ApartChunks == /\ \A t, i : Place(t, i) /\ Open(stack[t][i])
                     => \A c \in Range(chunks) : \A e \in lower[c] : e \notin stack[t][i].data
               /\ \A c, d \in Range(chunks) : c # d => \A e \in lower[c] : e \notin lower[d]

\* An element that is still to be partitioned has not been a pivot.
NoPivot(e) == /\ e \notin Range(chunks) /\ e \notin ready
              /\ \A t, i : Place(t, i) => /\ stack[t][i].chunk # e
                                          /\ stack[t][i].step # "split" => Pivot(stack[t][i]) # e
Fresh == /\ \A t, i : Place(t, i) /\ Open(stack[t][i]) => \A e \in stack[t][i].data : NoPivot(e)
         /\ \A c \in Range(chunks) : \A e \in lower[c] : NoPivot(e)

\* A chunk is waiting to be taken, in one call, or ready.
OnceChunks == \A c \in Range(chunks) : c \notin ready
OnceTaken  == \A t, i : Place(t, i) => stack[t][i].chunk \notin Range(chunks) \cup ready
OnceCalls  == \A t, u, i, j : Place(t, i) /\ Place(u, j) /\ (t # u \/ i # j)
                                 /\ stack[t][i].chunk # Higher
                   => stack[t][i].chunk # stack[u][j].chunk

\* What a future holds, and that all the chunks within it are done with.
Results == \A c \in ready : /\ Sorted(future[c]) /\ Range(future[c]) = Whole(c)
                            /\ Whole(c) \subseteq ready

NotStarted == \A h \in Helper \ started : stack[h] = <<>>
DoneLast   == done => Main \in ready
NoTwice    == \A i, j \in 1 .. Len(chunks) : i # j => chunks[i] # chunks[j]

SortInv == /\ SortTypes /\ Calls /\ ApartCalls /\ ApartChunks /\ Fresh
           /\ OnceChunks /\ OnceTaken /\ OnceCalls /\ NoTwice
           /\ Results /\ NotStarted /\ DoneLast

-----------------------------------------------------------------------------
(* Sequences. *)

\* One sequence after another is in order if each element of it is not before the other's.
LEMMA SortedConcat ==
    ASSUME NEW a \in Seq(Elem), NEW b \in Seq(Elem), key \in [Elem -> Int],
           Sorted(a), Sorted(b),
           \A d \in Range(a), e \in Range(b) : key[d] <= key[e] /\ d # e
    PROVE  /\ a \o b \in Seq(Elem) /\ Len(a \o b) = Len(a) + Len(b)
           /\ Sorted(a \o b) /\ Range(a \o b) = Range(a) \cup Range(b)
<1> DEFINE c == a \o b
<1>1. /\ c \in Seq(Elem) /\ Len(c) = Len(a) + Len(b)
      /\ \A i \in 1 .. Len(a) + Len(b) : c[i] = IF i <= Len(a) THEN a[i] ELSE b[i - Len(a)]
  BY ConcatProperties
<1>2. Range(c) = Range(a) \cup Range(b)
  BY RangeConcatenation
<1>3. Len(a) \in Nat /\ Len(b) \in Nat
      /\ Range(a) = {a[i] : i \in 1 .. Len(a)} /\ Range(b) = {b[i] : i \in 1 .. Len(b)}
  BY LenProperties, RangeEquality
<1> HIDE DEF c
<1>4. ASSUME NEW i \in 1 .. Len(c), NEW j \in 1 .. Len(c), i < j
      PROVE  key[c[i]] <= key[c[j]] /\ c[i] # c[j]
  <2>1. CASE j <= Len(a)
    <3>1. i \in 1 .. Len(a) /\ j \in 1 .. Len(a) /\ c[i] = a[i] /\ c[j] = a[j]
      BY <1>1, <1>3, <1>4, <2>1
    <3> QED
      BY <1>4, <3>1 DEF Sorted
  <2>2. CASE i <= Len(a) /\ ~(j <= Len(a))
    <3>1. i \in 1 .. Len(a) /\ j - Len(a) \in 1 .. Len(b)
      BY <1>1, <1>3, <1>4, <2>2
    <3>2. c[i] = a[i] /\ c[j] = b[j - Len(a)]
      BY <1>1, <2>2
    <3>3. c[i] \in Range(a) /\ c[j] \in Range(b)
      BY <1>3, <3>1, <3>2
    <3> QED
      BY <3>3
  <2>3. CASE ~(i <= Len(a))
    <3>1. i - Len(a) \in 1 .. Len(b) /\ j - Len(a) \in 1 .. Len(b) /\ i - Len(a) < j - Len(a)
          /\ ~(j <= Len(a))
      <4>1. i \in 1 .. Len(a) + Len(b) /\ j \in 1 .. Len(a) + Len(b)
        BY <1>1
      <4> QED
        BY <1>3, <1>4, <2>3, <4>1
    <3>2. c[i] = b[i - Len(a)] /\ c[j] = b[j - Len(a)]
      BY <1>1, <2>3, <3>1
    <3> QED
      BY <3>1, <3>2 DEF Sorted
  <2> QED
    BY <1>1, <1>3, <2>1, <2>2, <2>3
<1> QED
  BY <1>1, <1>2, <1>4 DEF Sorted, c

\* The sequence without one of its elements.
LEMMA WithoutIs ==
    ASSUME SortTypes, NoTwice, NEW i \in DOMAIN chunks
    PROVE  /\ Without(i) \in Seq(Elem) /\ chunks[i] \in Range(chunks) /\ chunks[i] \in Elem
           /\ Range(Without(i)) = Range(chunks) \ {chunks[i]}
           /\ \A j, k \in 1 .. Len(Without(i)) : j # k => Without(i)[j] # Without(i)[k]
<1> DEFINE s == chunks
           n == Len(s)
           p == SubSeq(s, 1, i - 1)
           q == SubSeq(s, i + 1, n)
           w == p \o q
<1>1. s \in Seq(Elem) /\ n \in Nat /\ i \in 1 .. n /\ \A k \in 1 .. n : s[k] \in Elem
  BY LenProperties, ElementOfSeq DEF SortTypes
<1>2. \A k, l \in 1 .. n : k # l => s[k] # s[l]
  BY DEF NoTwice
<1>3. Range(s) = {s[k] : k \in 1 .. n}
  BY <1>1, RangeEquality
<1> HIDE DEF s, n
<1>4. p \in Seq(Elem) /\ Len(p) = i - 1 /\ \A k \in 1 .. i - 1 : p[k] = s[k]
  <2>1. 1 \in Int /\ i - 1 \in Int /\ \A k \in 1 .. i - 1 : s[k] \in Elem
    BY <1>1
  <2>2. /\ p \in Seq(Elem) /\ Len(p) = IF 1 <= i - 1 THEN (i - 1) - 1 + 1 ELSE 0
        /\ \A k \in 1 .. (i - 1) - 1 + 1 : p[k] = s[1 + k - 1]
    BY <2>1, SubSeqProperties
  <2>3. (i - 1) - 1 + 1 = i - 1 /\ (~(1 <= i - 1) => i - 1 = 0)
        /\ \A k \in 1 .. i - 1 : 1 + k - 1 = k
    BY <1>1
  <2> QED
    BY <2>2, <2>3
<1>5. q \in Seq(Elem) /\ Len(q) = n - i /\ \A k \in 1 .. n - i : q[k] = s[i + k]
  <2>1. i + 1 \in Int /\ n \in Int /\ \A k \in i + 1 .. n : s[k] \in Elem
    BY <1>1
  <2>2. /\ q \in Seq(Elem) /\ Len(q) = IF i + 1 <= n THEN n - (i + 1) + 1 ELSE 0
        /\ \A k \in 1 .. n - (i + 1) + 1 : q[k] = s[(i + 1) + k - 1]
    BY <2>1, SubSeqProperties
  <2>3. n - (i + 1) + 1 = n - i /\ (~(i + 1 <= n) => n - i = 0)
        /\ \A k \in 1 .. n - i : (i + 1) + k - 1 = i + k
    BY <1>1
  <2> QED
    BY <2>2, <2>3
<1> HIDE DEF p, q
<1>6. /\ w \in Seq(Elem) /\ Len(w) = n - 1
      /\ \A k \in 1 .. n - 1 : w[k] = IF k < i THEN s[k] ELSE s[k + 1]
  <2>1. /\ w \in Seq(Elem) /\ Len(w) = Len(p) + Len(q)
        /\ \A k \in 1 .. Len(p) + Len(q) : w[k] = IF k <= Len(p) THEN p[k] ELSE q[k - Len(p)]
    <3>1. p \in Seq(Elem) /\ q \in Seq(Elem)
      BY <1>4, <1>5
    <3> QED
      BY <3>1, ConcatProperties
  <2>2. Len(p) = i - 1 /\ Len(p) + Len(q) = n - 1
    BY <1>1, <1>4, <1>5
  <2> HIDE DEF w
  <2>3. ASSUME NEW k \in 1 .. n - 1
        PROVE  w[k] = IF k < i THEN s[k] ELSE s[k + 1]
    <3>1. CASE k < i
      <4>1. k \in 1 .. i - 1 /\ k <= i - 1
        BY <1>1, <3>1
      <4> QED
        BY <1>4, <2>1, <2>2, <3>1, <4>1
    <3>2. CASE ~(k < i)
      <4>1. k - (i - 1) \in 1 .. n - i /\ ~(k <= i - 1) /\ i + (k - (i - 1)) = k + 1
        BY <1>1, <3>2
      <4> QED
        BY <1>5, <2>1, <2>2, <3>2, <4>1
    <3> QED
      BY <3>1, <3>2
  <2> QED
    BY <2>1, <2>2, <2>3
<1> HIDE DEF w
<1>7. Range(w) = {w[k] : k \in 1 .. n - 1}
  BY <1>6, RangeEquality
<1>8. ASSUME NEW e \in Range(w)
      PROVE  e \in Range(s) \ {s[i]}
  <2>1. PICK k \in 1 .. n - 1 : e = w[k]
    BY <1>7
  <2>3. CASE k < i
    <3>1. k \in 1 .. n /\ k # i
      BY <1>1, <2>3
    <3> QED
      BY <1>1, <1>2, <1>3, <1>6, <2>1, <2>3, <3>1
  <2>4. CASE ~(k < i)
    <3>1. k + 1 \in 1 .. n /\ k + 1 # i
      BY <1>1, <2>4
    <3> QED
      BY <1>1, <1>2, <1>3, <1>6, <2>1, <2>4, <3>1
  <2> QED
    BY <2>3, <2>4
<1>9. ASSUME NEW e \in Range(s), e # s[i]
      PROVE  e \in Range(w)
  <2>1. PICK k \in 1 .. n : e = s[k]
    BY <1>3
  <2>2. k # i
    BY <1>9, <2>1
  <2>3. CASE k < i
    <3>1. k \in 1 .. n - 1
      BY <1>1, <2>3
    <3> QED
      BY <1>6, <1>7, <2>1, <2>3, <3>1
  <2>4. CASE k > i
    <3>1. k - 1 \in 1 .. n - 1 /\ ~(k - 1 < i) /\ (k - 1) + 1 = k
      BY <1>1, <2>4
    <3> QED
      BY <1>6, <1>7, <2>1, <3>1
  <2> QED
    BY <1>1, <2>2, <2>3, <2>4
<1>10. ASSUME NEW j \in 1 .. n - 1, NEW k \in 1 .. n - 1, j # k
       PROVE  w[j] # w[k]
  <2> DEFINE a == IF j < i THEN j ELSE j + 1
             b == IF k < i THEN k ELSE k + 1
  <2>1. a \in 1 .. n /\ b \in 1 .. n /\ a # b
    BY <1>1, <1>10
  <2>2. w[j] = s[a] /\ w[k] = s[b]
    BY <1>6
  <2> QED
    BY <1>2, <2>1, <2>2
<1>11. Without(i) = w
  BY DEF Without, w, p, q, s, n
<1>12. s[i] \in Range(s) /\ s[i] \in Elem
  BY <1>1, <1>3
<1> QED
  BY <1>6, <1>8, <1>9, <1>10, <1>11, <1>12 DEF s

-----------------------------------------------------------------------------
(* The calls that a step leaves alone. *)

\* The i-th call of u is not one of those of t above the m-th.
Kept(t, m, u, i) == Place(u, i) /\ (u # t \/ i <= m)

\* A call of the next state is an old one, above the same one as before, or a new one.
LEMMA PlacesAre ==
    ASSUME SortTypes, NEW t \in Thread, NEW m, NEW new, Len(new) \in Nat, Replaced(t, m, new),
           NEW u, NEW i, Place(u, i)'
    PROVE  \/ /\ Kept(t, m, u, i) /\ stack'[u][i] = stack[u][i]
              /\ i > 1 => stack'[u][i - 1] = stack[u][i - 1]
           \/ u = t /\ i - m \in 1 .. Len(new) /\ stack'[u][i] = new[i - m]
<1>1. u \in Thread /\ i \in 1 .. Len(stack'[u]) /\ m \in Nat /\ m <= Len(stack[t])
  BY DEF Place, Replaced
<1>2. Len(stack[u]) \in Nat /\ Len(stack[t]) \in Nat
  BY <1>1, LenProperties DEF SortTypes
<1>3. CASE u # t
  BY <1>1, <1>3 DEF Replaced, Kept, Place
<1>4. CASE u = t
  <2>1. /\ Len(stack'[t]) = m + Len(new)
        /\ \A k \in 1 .. m : stack'[t][k] = stack[t][k]
        /\ \A j \in 1 .. Len(new) : stack'[t][m + j] = new[j]
    BY DEF Replaced
  <2>2. CASE i <= m
    <3>1. i \in 1 .. m /\ i \in 1 .. Len(stack[t]) /\ (i > 1 => i - 1 \in 1 .. m)
      BY <1>1, <1>2, <2>2
    <3> QED
      BY <1>1, <1>4, <2>1, <2>2, <3>1 DEF Kept, Place
  <2>3. CASE ~(i <= m)
    <3>1. i - m \in 1 .. Len(new) /\ m + (i - m) = i
      BY <1>1, <1>4, <2>1, <2>3
    <3> QED
      BY <1>4, <2>1, <3>1
  <2> QED
    BY <2>2, <2>3
<1> QED
  BY <1>3, <1>4

LEMMA FrameIn ==
    ASSUME SortInv, NEW t, NEW i, Place(t, i)
    PROVE  /\ stack[t][i] \in Frames
           /\ stack[t][i].step # "split" => Pivot(stack[t][i]) \in Elem
<1>1. t \in Thread /\ i \in 1 .. Len(stack[t]) /\ stack[t] \in Seq(Frames)
  BY DEF SortInv, SortTypes, Place
<1>2. stack[t][i] \in Frames
  BY <1>1, ElementOfSeq
<1> DEFINE f == stack[t][i]
<1>3. FrameOK(f)
  BY DEF SortInv, Calls
<1> HIDE DEF f
<1>4. f \in Frames
  BY <1>2 DEF f
<1>5. ASSUME f.step # "split"
      PROVE  Pivot(f) \in Elem
  <2>1. CASE f.step \in Begun
    BY <1>3, <2>1 DEF FrameOK
  <2>2. CASE f.step \in Waiting
    <3>1. f.result \in Seq(Elem) /\ Len(f.result) >= 1
      BY <1>3, <1>4, <2>2 DEF FrameOK, Frames
    <3>2. 1 \in 1 .. Len(f.result)
      BY <3>1, LenProperties
    <3>3. f.result[1] \in Elem
      BY <3>1, <3>2, ElementOfSeq
    <3> QED
      BY <3>3 DEF Pivot
  <2> QED
    BY <1>4, <1>5, <2>1, <2>2 DEF Frames, Steps
<1> QED
  BY <1>4, <1>5 DEF f

\* The chunk that a new pivot may change is of no call, and the pivot of none.
LEMMA KeptOK ==
    ASSUME SortInv, key' = key, ready \subseteq ready',
           \A e \in Elem : lower'[e] = lower[e] \/ NoPivot(e),
           NEW t, NEW i, Place(t, i), stack'[t][i] = stack[t][i],
           i > 1 => stack'[t][i - 1] = stack[t][i - 1]
    PROVE  FrameOK(stack[t][i])' /\ Linked(t, i)'
<1> DEFINE f == stack[t][i]
<1>1. f \in Frames /\ (f.step # "split" => Pivot(f) \in Elem)
  BY FrameIn
<1>2. FrameOK(f) /\ Linked(t, i)
  BY DEF SortInv, Calls
<1>3. ASSUME f.step # "split"
      PROVE  lower'[Pivot(f)] = lower[Pivot(f)]
  BY <1>1, <1>3 DEF NoPivot
<1>4. \A e \in Elem : NoPivot(e) => f.chunk # e
  BY DEF NoPivot
<1>5. ASSUME f.chunk # Higher
      PROVE  Whole(f.chunk)' = Whole(f.chunk)
  <2>1. f.chunk \in Elem \/ f.chunk = Main
    BY <1>1, <1>5 DEF Frames, Chunk
  <2> QED
    BY <1>4, <2>1 DEF Whole
<1>6. stack'[t][i] = f
  OBVIOUS
<1>7. Total(f)' = Total(f)
  BY <1>3, <1>6 DEF Total, Pivot
<1>8. FrameOK(f)'
  <2> DEFINE g == stack'[t][i]
  <2> HIDE DEF f
  <2>1. /\ f.step = "split" => f.result = <<>>
        /\ f.step \in Begun =>
              /\ f.result = <<Pivot(f)>> /\ Pivot(f) \in Elem
              /\ \A e \in f.data : e # Pivot(f) /\ key[Pivot(f)] <= key[e]
        /\ f.step \in Waiting =>
              /\ Len(f.result) >= 1 /\ Sorted(f.result)
              /\ \A k \in 2 .. Len(f.result) : f.result[k] \in ready
        /\ f.step # "split" => \A e \in lower[Pivot(f)] : key[e] < key[Pivot(f)]
    BY <1>2 DEF FrameOK
  <2>2. f' = f
    BY <1>6 DEF f
  <2>3. Sorted(f.result) => Sorted(f.result)'
    BY <2>2 DEF Sorted
  <2> QED
    BY <1>3, <2>1, <2>2, <2>3 DEF FrameOK, Pivot
<1>9. Linked(t, i)'
  <2>1. /\ f.chunk # Higher => Total(f) = Whole(f.chunk)
        /\ f.chunk = Higher => /\ i > 1 /\ stack[t][i - 1].step = "calling"
                               /\ Total(f) = stack[t][i - 1].data
    BY <1>2 DEF Linked
  <2> QED
    BY <1>5, <1>6, <1>7, <2>1 DEF Linked
<1> QED
  BY <1>8, <1>9

-----------------------------------------------------------------------------
(* A call returns. *)

\* To its promise.
LEMMA DeliverReady ==
    ASSUME SortInv, NEW t \in Thread, stack[t] # <<>>, Top(t).chunk # Higher,
           NEW r \in Seq(Elem), Sorted(r), Range(r) = Total(Top(t)), Range(r) \subseteq ready,
           Deliver(t, r), UNCHANGED <<key, chunks, lower, started, done>>
    PROVE  SortInv'
<1> DEFINE n == Len(stack[t])
           c == Top(t).chunk
<1>1. /\ n \in Nat \ {0} /\ Top(t) = stack[t][n] /\ Top(t) \in Frames
      /\ Place(t, n)
  BY TopIs DEF SortInv, Place
<1>2. c \in Chunk
  BY <1>1 DEF Frames
<1>3. /\ stack' = [stack EXCEPT ![t] = Below(t)]
      /\ ready' = ready \cup {c} /\ future' = [future EXCEPT ![c] = r]
  BY DEF Deliver
<1>4. Replaced(t, n - 1, <<>>)
  BY <1>3, ReturnIs DEF SortInv
<1>5. ASSUME NEW u, NEW i, Place(u, i)'
      PROVE  /\ Place(u, i) /\ (u # t \/ i # n) /\ stack'[u][i] = stack[u][i]
             /\ i > 1 => stack'[u][i - 1] = stack[u][i - 1]
  <2> DEFINE new == <<>>
  <2>1. Len(new) = 0
    OBVIOUS
  <2> HIDE DEF new
  <2>2. Replaced(t, n - 1, new)
    BY <1>4 DEF new
  <2>3. /\ Kept(t, n - 1, u, i) /\ stack'[u][i] = stack[u][i]
        /\ i > 1 => stack'[u][i - 1] = stack[u][i - 1]
    BY <1>5, <2>1, <2>2, PlacesAre DEF SortInv
  <2> QED
    BY <1>1, <2>3 DEF Kept, Place
<1>6. SortTypes'
  BY <1>2, <1>3, <1>4 DEF SortInv, SortTypes, Replaced
<1>7. Calls'
  BY <1>3, <1>5, KeptOK DEF Calls
<1>8. ApartCalls'
  BY <1>5 DEF SortInv, ApartCalls, Open
<1>9. ApartChunks'
  BY <1>5 DEF SortInv, ApartChunks, Open
<1>10. \A e : NoPivot(e) => NoPivot(e)'
  <2> SUFFICES ASSUME NEW e, NoPivot(e)
               PROVE  NoPivot(e)'
    OBVIOUS
  <2>1. e # c
    BY <1>1 DEF NoPivot
  <2> QED
    BY <1>3, <1>5, <2>1 DEF NoPivot, Pivot
<1>11. Fresh'
  <2>1. ASSUME NEW u, NEW i, Place(u, i)', Open(stack[u][i])', NEW e \in stack'[u][i].data
        PROVE  NoPivot(e)'
    BY <1>5, <1>10, <2>1 DEF SortInv, Fresh, Open
  <2>2. ASSUME NEW d \in Range(chunks)', NEW e \in lower'[d]
        PROVE  NoPivot(e)'
    BY <1>10 DEF SortInv, Fresh
  <2> QED
    BY <2>1, <2>2 DEF Fresh
<1>12. OnceChunks' /\ OnceTaken' /\ OnceCalls'
  <2>1. OnceChunks'
    BY <1>1, <1>3 DEF SortInv, OnceChunks, OnceTaken
  <2>2. OnceTaken'
    BY <1>1, <1>3, <1>5 DEF SortInv, OnceTaken, OnceCalls
  <2>3. OnceCalls'
    BY <1>5 DEF SortInv, OnceCalls
  <2> QED
    BY <2>1, <2>2, <2>3
<1>13. NoTwice'
  BY DEF SortInv, NoTwice
<1>14. Results'
  <2>1. Range(r) = Whole(c)
    BY <1>1 DEF SortInv, Calls, Linked
  <2>2. \A d : Whole(d)' = Whole(d)
    BY DEF Whole
  <2>3. ASSUME NEW d \in ready'
        PROVE  /\ Sorted(future'[d]) /\ Range(future'[d]) = Whole(d)
               /\ Whole(d) \subseteq ready'
    <3>1. CASE d = c
      <4>1. future'[d] = r
        BY <1>2, <1>3, <3>1 DEF SortInv, SortTypes
      <4> QED
        BY <1>3, <2>1, <3>1, <4>1
    <3>2. CASE d # c
      <4>1. d \in ready /\ future'[d] = future[d]
        BY <1>3, <2>3, <3>2 DEF SortInv, SortTypes
      <4> QED
        BY <1>3, <4>1 DEF SortInv, Results
    <3> QED
      BY <3>1, <3>2
  <2> QED
    BY <2>2, <2>3 DEF Results, Sorted
<1>15. NotStarted'
  BY <1>4 DEF SortInv, NotStarted, Replaced, Thread
<1>16. DoneLast'
  BY <1>3 DEF SortInv, DoneLast
<1> QED
  BY <1>6, <1>7, <1>8, <1>9, <1>11, <1>12, <1>13, <1>14, <1>15, <1>16 DEF SortInv

\* To the call that waits for its higher half.
LEMMA DeliverHigher ==
    ASSUME SortInv, NEW t \in Thread, stack[t] # <<>>, Top(t).chunk = Higher,
           NEW r \in Seq(Elem), Sorted(r), Range(r) = Total(Top(t)), Range(r) \subseteq ready,
           Deliver(t, r), UNCHANGED <<key, chunks, lower, started, done>>
    PROVE  SortInv'
<1>26. PICK n : n = Len(stack[t])
  OBVIOUS
<1>23. PICK f : f = stack[t][n - 1]
  OBVIOUS
<1>24. PICK p : p = Pivot(f)
  OBVIOUS
<1>25. PICK g : g = WithHigher(f, r)
  OBVIOUS
<1>1. /\ n \in Nat \ {0} /\ Top(t) = stack[t][n] /\ Place(t, n)
      /\ Below(t) \in Seq(Frames) /\ Len(Below(t)) = n - 1
      /\ \A i \in 1 .. n - 1 : Below(t)[i] = stack[t][i]
  BY <1>26, TopIs DEF SortInv, Place
<1>2. n > 1 /\ f.step = "calling" /\ Range(r) = f.data
  BY <1>1, <1>23 DEF SortInv, Calls, Linked
<1>3. Place(t, n - 1) /\ n - 1 \in 1 .. n - 1
  BY <1>1, <1>2 DEF Place
<1>4. f \in Frames /\ Pivot(f) \in Elem /\ FrameOK(f) /\ Linked(t, n - 1)
  BY <1>2, <1>3, <1>23, FrameIn DEF SortInv, Calls
<1>5. f.result = <<p>> /\ \A e \in f.data : e # p /\ key[p] <= key[e]
  BY <1>2, <1>4, <1>24 DEF FrameOK, Begun
<1>6. /\ <<p>> \o r \in Seq(Elem) /\ Len(<<p>> \o r) = 1 + Len(r) /\ Sorted(<<p>> \o r)
      /\ Range(<<p>> \o r) = {p} \cup f.data /\ (<<p>> \o r)[1] = p
      /\ \A i \in 2 .. 1 + Len(r) : (<<p>> \o r)[i] \in ready
  <2> DEFINE a == <<p>>
  <2>1. a \in Seq(Elem) /\ Len(a) = 1 /\ a[1] = p /\ Range(a) = {p}
    BY <1>4, <1>24 DEF Range
  <2>2. Sorted(a)
    BY <2>1 DEF Sorted
  <2> HIDE DEF a
  <2>3. \A d \in Range(a), e \in Range(r) : key[d] <= key[e] /\ d # e
    BY <1>2, <1>5, <2>1
  <2>4. /\ a \o r \in Seq(Elem) /\ Len(a \o r) = 1 + Len(r) /\ Sorted(a \o r)
        /\ Range(a \o r) = {p} \cup f.data
    BY <1>2, <2>1, <2>2, <2>3, SortedConcat DEF SortInv, SortTypes
  <2>5. \A i \in 1 .. 1 + Len(r) : (a \o r)[i] = IF i <= 1 THEN a[i] ELSE r[i - 1]
    <3>1. a \in Seq(Elem) /\ r \in Seq(Elem)
      BY <2>1
    <3>2. \A i \in 1 .. Len(a) + Len(r) :
              (a \o r)[i] = IF i <= Len(a) THEN a[i] ELSE r[i - Len(a)]
      BY <3>1, ConcatProperties
    <3> QED
      BY <2>1, <3>2
  <2>6. Len(r) \in Nat /\ \A i \in 1 .. Len(r) : r[i] \in Range(r)
    BY LenProperties, RangeEquality
  <2>7. \A i \in 2 .. 1 + Len(r) : ~(i <= 1) /\ i \in 1 .. 1 + Len(r) /\ i - 1 \in 1 .. Len(r)
    BY <2>6
  <2>8. \A i \in 2 .. 1 + Len(r) : (a \o r)[i] \in ready
    BY <2>5, <2>6, <2>7
  <2>9. (a \o r)[1] = p
    BY <2>1, <2>5, <2>6
  <2> QED
    BY <2>4, <2>8, <2>9 DEF a
<1>7. g \in Frames /\ g.step = "wait" /\ g.result = <<p>> \o r /\ g.chunk = f.chunk
      /\ Pivot(g) = p
  <2>1. g.result = f.result \o r /\ g.step = "wait" /\ g.chunk = f.chunk /\ g.data = f.data
    BY <1>4, <1>25 DEF Frames, WithHigher
  <2>2. g = [chunk |-> f.chunk, step |-> "wait", data |-> f.data, result |-> f.result \o r]
    BY <1>4, <1>25 DEF Frames, WithHigher
  <2>3. f.result \o r \in Seq(Elem)
    BY <1>5, <1>6
  <2>4. g \in Frames
    BY <1>4, <2>2, <2>3 DEF Frames, Steps, Waiting
  <2> QED
    BY <1>5, <1>6, <1>24, <2>1, <2>4 DEF Pivot
<1>8. /\ stack' = [stack EXCEPT ![t] = [Below(t) EXCEPT ![n - 1] = g]]
      /\ UNCHANGED <<ready, future>>
  <2>1. Below(t)[n - 1] = f
    BY <1>1, <1>3, <1>23
  <2> DEFINE b == Below(t)
  <2>2. /\ stack' = [stack EXCEPT ![t] =
              [b EXCEPT ![Len(b)] = WithHigher(b[Len(b)], r)]]
        /\ UNCHANGED <<ready, future>>
    BY DEF Deliver
  <2>3. Len(b) = n - 1 /\ n - 1 \in DOMAIN b /\ b[n - 1] = f
    BY <1>1, <1>3, <2>1, LenProperties
  <2> HIDE DEF b
  <2>4. Len(b) = n - 1 /\ b[Len(b)] = f
    BY <2>3
  <2> QED
    BY <1>25, <2>2, <2>4 DEF b
<1>9. Replaced(t, n - 2, <<g>>)
  BY <1>2, <1>7, <1>8, <1>26, ReturnToIs DEF SortInv
<1>10. ASSUME NEW u, NEW i, Place(u, i)'
       PROVE  \/ /\ Place(u, i) /\ stack'[u][i] = stack[u][i]
                 /\ u # t \/ (i # n /\ i # n - 1)
                 /\ i > 1 => stack'[u][i - 1] = stack[u][i - 1]
              \/ u = t /\ i = n - 1 /\ stack'[u][i] = g
  <2> DEFINE new == <<g>>
  <2>1. Len(new) = 1 /\ new[1] = g
    OBVIOUS
  <2> HIDE DEF new
  <2>2. Replaced(t, n - 2, new)
    BY <1>9 DEF new
  <2>3. \/ /\ Kept(t, n - 2, u, i) /\ stack'[u][i] = stack[u][i]
           /\ i > 1 => stack'[u][i - 1] = stack[u][i - 1]
        \/ u = t /\ i - (n - 2) \in 1 .. 1 /\ stack'[u][i] = new[i - (n - 2)]
    BY <1>10, <2>1, <2>2, PlacesAre DEF SortInv
  <2>4. Place(u, i)' => i \in Int
    BY DEF Place
  <2>5. i - (n - 2) \in 1 .. 1 => i = n - 1 /\ i - (n - 2) = 1
    BY <1>1, <1>10, <2>4
  <2>6. Kept(t, n - 2, u, i) => Place(u, i) /\ (u # t \/ (i # n /\ i # n - 1))
    BY <1>1, <1>10, <1>26, <2>4 DEF Kept
  <2> QED
    BY <2>1, <2>3, <2>5, <2>6
<1>11. n - 1 > 1 => stack'[t][n - 2] = stack[t][n - 2]
  <2>1. n - 1 > 1 => n - 2 \in 1 .. n - 2
    BY <1>1
  <2> QED
    BY <2>1, <1>9 DEF Replaced
<1>12. stack'[t][n - 1] = g
  <2> DEFINE new == <<g>>
  <2>1. Len(new) = 1 /\ new[1] = g /\ 1 \in 1 .. 1 /\ (n - 2) + 1 = n - 1
    BY <1>1
  <2> HIDE DEF new
  <2>2. stack'[t][(n - 2) + 1] = new[1]
    BY <1>9, <2>1 DEF Replaced, new
  <2> QED
    BY <2>1, <2>2
<1>13. SortTypes'
  BY <1>8, <1>9 DEF SortInv, SortTypes, Replaced
<1>14. Calls'
  <2>1. FrameOK(g)'
    <3>2. Sorted(g.result)'
      BY <1>6, <1>7 DEF Sorted
    <3>3. \A e \in lower[p] : key[e] < key[p]
      BY <1>2, <1>4, <1>24 DEF FrameOK
    <3>4. Len(g.result) >= 1
      BY <1>6, <1>7, LenProperties
    <3>5. g.step \notin Begun /\ g.step # "split"
      BY <1>7 DEF Begun
    <3>6. \A i \in 2 .. Len(g.result) : g.result[i] \in ready'
      BY <1>6, <1>7, <1>8
    <3> QED
      BY <1>7, <3>2, <3>3, <3>4, <3>5, <3>6 DEF FrameOK
  <2>2. Linked(t, n - 1)'
    <3>1. Total(f) = f.data \cup {p} \cup lower[p]
      <4>1. Range(<<p>>) = {p}
        BY DEF Range
      <4> QED
        BY <1>2, <1>5, <1>24, <4>1 DEF Total, Waiting
    <3>2. Total(g)' = ({p} \cup f.data) \cup lower[p]
      <4>2. Range(g.result) = {p} \cup f.data
        BY <1>6, <1>7
      <4> QED
        BY <1>7, <4>2 DEF Total, Waiting
    <3>3. \A d : Whole(d)' = Whole(d)
      BY DEF Whole
    <3>4. /\ f.chunk # Higher => Total(f) = Whole(f.chunk)
          /\ f.chunk = Higher => /\ n - 1 > 1 /\ stack[t][(n - 1) - 1].step = "calling"
                                 /\ Total(f) = stack[t][(n - 1) - 1].data
      BY <1>4, <1>23 DEF Linked
    <3>5. (n - 1) - 1 = n - 2
      BY <1>1
    <3> QED
      BY <1>7, <1>11, <1>12, <3>1, <3>2, <3>3, <3>4, <3>5 DEF Linked
  <2>3. ASSUME NEW u, NEW i, Place(u, i)'
        PROVE  FrameOK(stack[u][i])' /\ Linked(u, i)'
    <3>1. CASE u = t /\ i = n - 1
      BY <1>12, <2>1, <2>2, <3>1
    <3>2. CASE ~(u = t /\ i = n - 1)
      BY <1>8, <1>10, <2>3, <3>2, KeptOK
    <3> QED
      BY <3>1, <3>2
  <2> QED
    BY <2>3 DEF Calls
<1>15. ~Open(g)
  BY <1>7 DEF Open
<1>16. ApartCalls' /\ ApartChunks'
  <2>1. \A u, i : Place(u, i)' /\ Open(stack[u][i])'
            => Place(u, i) /\ stack'[u][i] = stack[u][i] /\ Open(stack[u][i])
    BY <1>10, <1>15 DEF Open
  <2>2. ApartCalls'
    BY <2>1 DEF SortInv, ApartCalls
  <2>3. ApartChunks'
    BY <2>1 DEF SortInv, ApartChunks
  <2> QED
    BY <2>2, <2>3
<1>17. \A e : NoPivot(e) => NoPivot(e)'
  <2> SUFFICES ASSUME NEW e, NoPivot(e)
               PROVE  NoPivot(e)'
    OBVIOUS
  <2>1. g.chunk # e /\ Pivot(g) # e
    BY <1>2, <1>3, <1>7, <1>23, <1>24 DEF NoPivot
  <2> QED
    BY <1>8, <1>10, <2>1 DEF NoPivot, Pivot
<1>18. Fresh'
  <2>1. ASSUME NEW u, NEW i, Place(u, i)', Open(stack[u][i])', NEW e \in stack'[u][i].data
        PROVE  NoPivot(e)'
    BY <1>10, <1>15, <1>17, <2>1 DEF SortInv, Fresh, Open
  <2>2. ASSUME NEW d \in Range(chunks)', NEW e \in lower'[d]
        PROVE  NoPivot(e)'
    BY <1>17 DEF SortInv, Fresh
  <2> QED
    BY <2>1, <2>2 DEF Fresh
<1>19. OnceChunks' /\ OnceTaken' /\ OnceCalls' /\ NoTwice'
  <2>1. \A u, i : Place(u, i)' => Place(u, i) /\ stack'[u][i].chunk = stack[u][i].chunk
    BY <1>3, <1>7, <1>10, <1>23
  <2>2. OnceTaken'
    BY <1>8, <2>1 DEF SortInv, OnceTaken
  <2>3. OnceCalls'
    BY <2>1 DEF SortInv, OnceCalls
  <2> QED
    BY <1>8, <2>2, <2>3 DEF SortInv, OnceChunks, NoTwice
<1>20. Results'
  BY <1>8 DEF SortInv, Results, Whole, Sorted
<1>21. NotStarted'
  BY <1>9 DEF SortInv, NotStarted, Replaced, Thread
<1>22. DoneLast'
  BY <1>8 DEF SortInv, DoneLast
<1> QED
  BY <1>13, <1>14, <1>16, <1>18, <1>19, <1>20, <1>21, <1>22 DEF SortInv

-----------------------------------------------------------------------------
(* The call on top changes, and may call. *)

\* Where every call of the next state is, if the one on top becomes g,
LEMMA OnTop ==
    ASSUME SortTypes, NEW t \in Thread, NEW n \in Nat \ {0}, n = Len(stack[t]), NEW g,
           Replaced(t, n - 1, <<g>>)
    PROVE  /\ stack'[t][n] = g /\ (n > 1 => stack'[t][n - 1] = stack[t][n - 1])
           /\ \A u, i : Place(u, i)' =>
                \/ /\ Place(u, i) /\ (u # t \/ i # n) /\ stack'[u][i] = stack[u][i]
                   /\ i > 1 => stack'[u][i - 1] = stack[u][i - 1]
                \/ u = t /\ i = n /\ stack'[u][i] = g
<1> DEFINE new == <<g>>
<1>1. Len(new) = 1 /\ new[1] = g /\ 1 \in 1 .. 1 /\ (n - 1) + 1 = n
  OBVIOUS
<1> HIDE DEF new
<1>2. Replaced(t, n - 1, new)
  BY DEF new
<1>3. stack'[t][n] = g /\ (n > 1 => stack'[t][n - 1] = stack[t][n - 1])
  <2>1. stack'[t][(n - 1) + 1] = new[1] /\ \A i \in 1 .. n - 1 : stack'[t][i] = stack[t][i]
    BY <1>1, <1>2 DEF Replaced
  <2>2. n > 1 => n - 1 \in 1 .. n - 1
    OBVIOUS
  <2> QED
    BY <1>1, <2>1, <2>2
<1>4. ASSUME NEW u, NEW i, Place(u, i)'
      PROVE  \/ /\ Place(u, i) /\ (u # t \/ i # n) /\ stack'[u][i] = stack[u][i]
                /\ i > 1 => stack'[u][i - 1] = stack[u][i - 1]
             \/ u = t /\ i = n /\ stack'[u][i] = g
  <2>1. \/ /\ Kept(t, n - 1, u, i) /\ stack'[u][i] = stack[u][i]
           /\ i > 1 => stack'[u][i - 1] = stack[u][i - 1]
        \/ u = t /\ i - (n - 1) \in 1 .. 1 /\ stack'[u][i] = new[i - (n - 1)]
    BY <1>1, <1>2, <1>4, PlacesAre
  <2>2. i \in Int
    BY <1>4 DEF Place
  <2>3. i - (n - 1) \in 1 .. 1 => i = n /\ i - (n - 1) = 1
    BY <2>2
  <2>4. Kept(t, n - 1, u, i) => Place(u, i) /\ (u # t \/ i # n)
    BY <2>2 DEF Kept
  <2> QED
    BY <1>1, <2>1, <2>3, <2>4
<1> QED
  BY <1>3, <1>4

\* and if it becomes g and calls h.
LEMMA OnTopTwo ==
    ASSUME SortTypes, NEW t \in Thread, NEW n \in Nat \ {0}, n = Len(stack[t]), NEW g, NEW h,
           Replaced(t, n - 1, <<g, h>>)
    PROVE  /\ stack'[t][n] = g /\ (n > 1 => stack'[t][n - 1] = stack[t][n - 1])
           /\ stack'[t][n + 1] = h
           /\ \A u, i : Place(u, i)' =>
                \/ /\ Place(u, i) /\ (u # t \/ i # n) /\ stack'[u][i] = stack[u][i]
                   /\ i > 1 => stack'[u][i - 1] = stack[u][i - 1]
                \/ u = t /\ i = n /\ stack'[u][i] = g
                \/ u = t /\ i = n + 1 /\ stack'[u][i] = h
<1> DEFINE new == <<g, h>>
<1>1. Len(new) = 2 /\ new[1] = g /\ new[2] = h /\ 1 \in 1 .. 2 /\ 2 \in 1 .. 2
      /\ (n - 1) + 1 = n /\ (n - 1) + 2 = n + 1
  OBVIOUS
<1> HIDE DEF new
<1>2. Replaced(t, n - 1, new)
  BY DEF new
<1>3. stack'[t][n] = g /\ stack'[t][n + 1] = h /\ (n > 1 => stack'[t][n - 1] = stack[t][n - 1])
  <2>1. /\ stack'[t][(n - 1) + 1] = new[1] /\ stack'[t][(n - 1) + 2] = new[2]
        /\ \A i \in 1 .. n - 1 : stack'[t][i] = stack[t][i]
    BY <1>1, <1>2 DEF Replaced
  <2>2. n > 1 => n - 1 \in 1 .. n - 1
    OBVIOUS
  <2> QED
    BY <1>1, <2>1, <2>2
<1>4. ASSUME NEW u, NEW i, Place(u, i)'
      PROVE  \/ /\ Place(u, i) /\ (u # t \/ i # n) /\ stack'[u][i] = stack[u][i]
                /\ i > 1 => stack'[u][i - 1] = stack[u][i - 1]
             \/ u = t /\ i = n /\ stack'[u][i] = g
             \/ u = t /\ i = n + 1 /\ stack'[u][i] = h
  <2>1. \/ /\ Kept(t, n - 1, u, i) /\ stack'[u][i] = stack[u][i]
           /\ i > 1 => stack'[u][i - 1] = stack[u][i - 1]
        \/ u = t /\ i - (n - 1) \in 1 .. 2 /\ stack'[u][i] = new[i - (n - 1)]
    BY <1>1, <1>2, <1>4, PlacesAre
  <2>2. i \in Int
    BY <1>4 DEF Place
  <2>3. i - (n - 1) \in 1 .. 2 => \/ i = n /\ i - (n - 1) = 1
                                  \/ i = n + 1 /\ i - (n - 1) = 2
    BY <2>2
  <2>4. Kept(t, n - 1, u, i) => Place(u, i) /\ (u # t \/ i # n)
    BY <2>2 DEF Kept
  <2> QED
    BY <1>1, <2>1, <2>3, <2>4
<1> QED
  BY <1>3, <1>4

\* A call goes from one step to another without touching its data.
LEMMA StepKeeps ==
    ASSUME SortInv, NEW t \in Thread, stack[t] # <<>>, NEW s,
           \/ {Top(t).step, s} \subseteq {"spawn", "push_back", "higher"}
           \/ {Top(t).step, s} \subseteq Waiting,
           Goto(t, s), UNCHANGED <<key, chunks, lower, ready, future, done>>,
           started \subseteq started', started' \subseteq Helper
    PROVE  SortInv'
<1>1. PICK n : n = Len(stack[t])
  OBVIOUS
<1>2. PICK f : f = stack[t][n]
  OBVIOUS
<1>3. PICK g : g = [f EXCEPT !.step = s]
  OBVIOUS
<1>4. n \in Nat \ {0} /\ Top(t) = f /\ f \in Frames /\ Place(t, n) /\ stack[t] \in Seq(Frames)
  BY <1>1, <1>2, TopIs DEF SortInv, Place
<1>5. g \in Frames /\ g.chunk = f.chunk /\ g.data = f.data /\ g.result = f.result /\ g.step = s
  BY <1>3, <1>4 DEF Frames, Steps, Begun, Waiting
<1>6. Replaced(t, n - 1, <<g>>)
  BY <1>1, <1>3, <1>4, <1>5, BecomeIs DEF SortInv, Goto
<1>7. /\ stack'[t][n] = g /\ (n > 1 => stack'[t][n - 1] = stack[t][n - 1])
      /\ \A u, i : Place(u, i)' =>
           \/ /\ Place(u, i) /\ (u # t \/ i # n) /\ stack'[u][i] = stack[u][i]
              /\ i > 1 => stack'[u][i - 1] = stack[u][i - 1]
           \/ u = t /\ i = n /\ stack'[u][i] = g
  BY <1>1, <1>4, <1>6, OnTop DEF SortInv
<1>8. FrameOK(f) /\ Linked(t, n)
  BY <1>2, <1>4 DEF SortInv, Calls
<1>9. Pivot(g) = Pivot(f) /\ (Open(g) <=> Open(f)) /\ f.step # "split" /\ g.step # "split"
      /\ (g.step \in Begun <=> f.step \in Begun) /\ (g.step \in Waiting <=> f.step \in Waiting)
  BY <1>4, <1>5 DEF Pivot, Open, Begun, Waiting
<1>10. SortTypes'
  BY <1>6 DEF SortInv, SortTypes, Replaced
<1>11. Calls'
  <2>1. FrameOK(g)'
    <3>1. Sorted(f.result) => Sorted(f.result)'
      BY DEF Sorted
    <3> QED
      BY <1>5, <1>8, <1>9, <3>1 DEF FrameOK
  <2>2. Linked(t, n)'
    <3>1. Total(g)' = Total(f) /\ \A c : Whole(c)' = Whole(c)
      BY <1>5, <1>9 DEF Total, Whole
    <3> QED
      BY <1>2, <1>5, <1>7, <1>8, <3>1 DEF Linked
  <2>3. ASSUME NEW u, NEW i, Place(u, i)'
        PROVE  FrameOK(stack[u][i])' /\ Linked(u, i)'
    <3>1. CASE u = t /\ i = n
      BY <1>7, <2>1, <2>2, <3>1
    <3>2. CASE ~(u = t /\ i = n)
      BY <1>7, <2>3, <3>2, KeptOK
    <3> QED
      BY <3>1, <3>2
  <2> QED
    BY <2>3 DEF Calls
<1>12. \A u, i : Place(u, i)' =>
           /\ Place(u, i) /\ stack'[u][i].chunk = stack[u][i].chunk
           /\ stack'[u][i].data = stack[u][i].data
           /\ (Open(stack'[u][i]) <=> Open(stack[u][i]))
           /\ Pivot(stack'[u][i]) = Pivot(stack[u][i])
           /\ stack'[u][i].step = "split" <=> stack[u][i].step = "split"
  BY <1>2, <1>4, <1>5, <1>7, <1>9
<1>13. ApartCalls' /\ ApartChunks'
  BY <1>12 DEF SortInv, ApartCalls, ApartChunks
<1>14. \A e : NoPivot(e) => NoPivot(e)'
  BY <1>12 DEF NoPivot
<1>15. Fresh'
  <2>1. ASSUME NEW u, NEW i, Place(u, i)', Open(stack[u][i])', NEW e \in stack'[u][i].data
        PROVE  NoPivot(e)'
    BY <1>12, <1>14, <2>1 DEF SortInv, Fresh
  <2>2. ASSUME NEW d \in Range(chunks)', NEW e \in lower'[d]
        PROVE  NoPivot(e)'
    BY <1>14 DEF SortInv, Fresh
  <2> QED
    BY <2>1, <2>2 DEF Fresh
<1>16. OnceChunks' /\ OnceTaken' /\ OnceCalls' /\ NoTwice'
  BY <1>12 DEF SortInv, OnceChunks, OnceTaken, OnceCalls, NoTwice
<1>17. Results'
  BY DEF SortInv, Results, Whole, Sorted
<1>18. NotStarted'
  BY <1>6 DEF SortInv, NotStarted, Replaced, Thread
<1>19. DoneLast'
  BY DEF SortInv, DoneLast
<1> QED
  BY <1>10, <1>11, <1>13, <1>15, <1>16, <1>17, <1>18, <1>19 DEF SortInv

\* The higher half is left to a call.
LEMMA CallHigherKeeps ==
    ASSUME SortInv, NEW t \in Thread, CallHigher(t)
    PROVE  SortInv'
<1>1. PICK n : n = Len(stack[t])
  OBVIOUS
<1>2. PICK f : f = stack[t][n]
  OBVIOUS
<1>3. PICK g : g = [f EXCEPT !.step = "calling"]
  OBVIOUS
<1>4. PICK h : h = Frame(Higher, "split", f.data)
  OBVIOUS
<1>5. stack[t] # <<>> /\ Top(t).step = "higher"
      /\ UNCHANGED <<key, chunks, lower, ready, future, started, done>>
  BY DEF CallHigher, At, input, work, pool, closing
<1>6. n \in Nat \ {0} /\ Top(t) = f /\ f \in Frames /\ Place(t, n) /\ f.step = "higher"
      /\ stack[t] \in Seq(Frames)
  BY <1>1, <1>2, <1>5, TopIs DEF SortInv, Place
<1>7. /\ g \in Frames /\ g.chunk = f.chunk /\ g.data = f.data /\ g.result = f.result
      /\ g.step = "calling"
      /\ h \in Frames /\ h.chunk = Higher /\ h.step = "split" /\ h.data = f.data
      /\ h.result = <<>>
  BY <1>3, <1>4, <1>6 DEF Frames, Steps, Begun, Frame
<1>8. Replaced(t, n - 1, <<g, h>>)
  <2>1. stack' = [stack EXCEPT ![t] = Below(t) \o <<g, h>>]
    BY <1>3, <1>4, <1>6 DEF CallHigher
  <2> QED
    BY <1>1, <1>5, <1>7, <2>1, CallIs DEF SortInv
<1>9. /\ stack'[t][n] = g /\ (n > 1 => stack'[t][n - 1] = stack[t][n - 1])
      /\ stack'[t][n + 1] = h
      /\ \A u, i : Place(u, i)' =>
           \/ /\ Place(u, i) /\ (u # t \/ i # n) /\ stack'[u][i] = stack[u][i]
              /\ i > 1 => stack'[u][i - 1] = stack[u][i - 1]
           \/ u = t /\ i = n /\ stack'[u][i] = g
           \/ u = t /\ i = n + 1 /\ stack'[u][i] = h
  BY <1>1, <1>6, <1>8, OnTopTwo DEF SortInv
<1>10. FrameOK(f) /\ Linked(t, n)
  BY <1>2, <1>6 DEF SortInv, Calls
<1>11. Pivot(g) = Pivot(f) /\ ~Open(g) /\ Open(h) /\ Open(f)
  BY <1>6, <1>7 DEF Pivot, Open
<1>12. SortTypes'
  BY <1>5, <1>8 DEF SortInv, SortTypes, Replaced
<1>13. Calls'
  <2>1. FrameOK(g)' /\ FrameOK(h)'
    BY <1>5, <1>6, <1>7, <1>10, <1>11 DEF FrameOK, Begun, Waiting
  <2>2. Linked(t, n)'
    <3>1. Total(g)' = Total(f) /\ \A c : Whole(c)' = Whole(c)
      BY <1>5, <1>6, <1>7, <1>11 DEF Total, Whole, Waiting
    <3> QED
      BY <1>2, <1>7, <1>9, <1>10, <3>1 DEF Linked
  <2>3. Linked(t, n + 1)'
    <3>1. Total(h)' = f.data
      <4>1. Range(<<>>) = {}
        BY DEF Range
      <4> QED
        BY <1>7, <4>1 DEF Total, Waiting
    <3>2. n + 1 > 1 /\ (n + 1) - 1 = n
      BY <1>6
    <3> QED
      BY <1>7, <1>9, <3>1, <3>2 DEF Linked
  <2>4. ASSUME NEW u, NEW i, Place(u, i)'
        PROVE  FrameOK(stack[u][i])' /\ Linked(u, i)'
    <3>1. CASE u = t /\ i = n
      BY <1>9, <2>1, <2>2, <3>1
    <3>2. CASE u = t /\ i = n + 1
      BY <1>9, <2>1, <2>3, <3>2
    <3>3. CASE ~(u = t /\ (i = n \/ i = n + 1))
      BY <1>5, <1>9, <2>4, <3>3, KeptOK
    <3> QED
      BY <3>1, <3>2, <3>3
  <2> QED
    BY <2>4 DEF Calls
\* An open call of the next state holds what one of this state does.
<1>14. \A u, i : Place(u, i)' /\ Open(stack'[u][i]) =>
           \/ /\ Place(u, i) /\ (u # t \/ i # n) /\ stack'[u][i] = stack[u][i]
              /\ (u # t \/ i # n + 1)
           \/ u = t /\ i = n + 1 /\ stack'[u][i] = h
  <2>1. \A u, i : Place(u, i) => (u # t \/ i # n + 1)
    BY <1>1, <1>6 DEF Place
  <2> QED
    BY <1>9, <1>11, <2>1
<1>15. ApartCalls'
  <2>1. \A u, i : Place(u, i) /\ (u # t \/ i # n) /\ Open(stack[u][i])
            => \A e \in h.data : e \notin stack[u][i].data
    BY <1>2, <1>6, <1>7, <1>11 DEF SortInv, ApartCalls
  <2> QED
    BY <1>14, <2>1 DEF SortInv, ApartCalls, Open
<1>16. ApartChunks'
  <2>1. \A c \in Range(chunks) : \A e \in lower[c] : e \notin h.data
    BY <1>2, <1>6, <1>7, <1>11 DEF SortInv, ApartChunks
  <2> QED
    BY <1>5, <1>14, <2>1 DEF SortInv, ApartChunks, Open
<1>17. \A e \in Elem : NoPivot(e) => NoPivot(e)'
  <2>1. \A e \in Elem : h.chunk # e /\ h.step = "split"
    BY <1>7, EnoughHelpers
  <2>2. \A e : NoPivot(e) => g.chunk # e /\ Pivot(g) # e
    BY <1>2, <1>6, <1>7, <1>11 DEF NoPivot
  <2> QED
    BY <1>5, <1>9, <2>1, <2>2 DEF NoPivot, Pivot
<1>18. Fresh'
  <2>1. ASSUME NEW u, NEW i, Place(u, i)', Open(stack[u][i])', NEW e \in stack'[u][i].data
        PROVE  NoPivot(e)'
    <3>1. NoPivot(e)
      BY <1>2, <1>6, <1>7, <1>11, <1>14, <2>1 DEF SortInv, Fresh, Open
    <3>2. e \in Elem
      <4>1. Place(u, i) => stack[u][i] \in Frames
        BY FrameIn
      <4> QED
        BY <1>7, <1>14, <2>1, <4>1 DEF Frames, Open
    <3> QED
      BY <1>17, <3>1, <3>2
  <2>2. ASSUME NEW d \in Range(chunks)', NEW e \in lower'[d]
        PROVE  NoPivot(e)'
    <3>1. d \in Range(chunks) /\ e \in lower[d]
      BY <1>5
    <3>2. d \in Elem
      BY <3>1, RangeOfSeq DEF SortInv, SortTypes
    <3>3. e \in Elem
      BY <3>1, <3>2 DEF SortInv, SortTypes
    <3> QED
      BY <1>17, <3>1, <3>3 DEF SortInv, Fresh
  <2> QED
    BY <2>1, <2>2 DEF Fresh
<1>19. OnceChunks' /\ OnceTaken' /\ OnceCalls' /\ NoTwice'
  <2>1. \A u, i : Place(u, i)' =>
           \/ Place(u, i) /\ stack'[u][i].chunk = stack[u][i].chunk /\ (u # t \/ i # n + 1)
           \/ u = t /\ i = n + 1 /\ stack'[u][i].chunk = Higher
    <3>1. \A u, i : Place(u, i) => (u # t \/ i # n + 1)
      BY <1>1, <1>6 DEF Place
    <3> QED
      BY <1>2, <1>6, <1>7, <1>9, <3>1
  <2>2. Higher \notin Range(chunks) \cup ready
    <3>1. Range(chunks) \subseteq Elem /\ ready \subseteq Chunk
      BY RangeOfSeq DEF SortInv, SortTypes
    <3> QED
      BY <3>1, EnoughHelpers DEF Chunk
  <2>3. OnceTaken'
    BY <1>5, <2>1, <2>2 DEF SortInv, OnceTaken
  <2>4. OnceCalls'
    BY <2>1 DEF SortInv, OnceCalls
  <2> QED
    BY <1>5, <2>3, <2>4 DEF SortInv, OnceChunks, NoTwice
<1>20. Results'
  BY <1>5 DEF SortInv, Results, Whole, Sorted
<1>21. NotStarted'
  BY <1>5, <1>8 DEF SortInv, NotStarted, Replaced, Thread
<1>22. DoneLast'
  BY <1>5 DEF SortInv, DoneLast
<1> QED
  BY <1>12, <1>13, <1>15, <1>16, <1>18, <1>19, <1>20, <1>21, <1>22 DEF SortInv

\* A chunk is taken, by a thread that waits or has nothing to do.
LEMMA TakeChunkKeeps ==
    ASSUME SortInv, NEW t \in Thread, NEW k \in DOMAIN chunks, TakeChunk(t, k),
           stack[t] = <<>> => t \in started', stack[t] # <<>> => Top(t).step \in Waiting,
           UNCHANGED <<key, lower, ready, future, done>>,
           started \subseteq started', started' \subseteq Helper
    PROVE  SortInv'
<1>1. PICK n : n = Len(stack[t])
  OBVIOUS
<1>2. PICK f : f = stack[t][n]
  OBVIOUS
<1>3. PICK g : g = [f EXCEPT !.step = "wait"]
  OBVIOUS
<1>4. PICK c : c = chunks[k]
  OBVIOUS
<1>5. PICK h : h = Frame(c, "split", lower[c])
  OBVIOUS
<1>6. /\ chunks' \in Seq(Elem) /\ c \in Range(chunks) /\ c \in Elem
      /\ Range(chunks') = Range(chunks) \ {c}
      /\ NoTwice'
  BY <1>4, WithoutIs DEF SortInv, TakeChunk, NoTwice
<1>7. /\ h \in Frames /\ h.chunk = c /\ h.step = "split" /\ h.data = lower[c]
      /\ h.result = <<>>
  BY <1>5, <1>6 DEF SortInv, SortTypes, Frames, Steps, Chunk, Frame
<1>8. n \in Nat /\ (n = 0 <=> stack[t] = <<>>) /\ stack[t] \in Seq(Frames)
  BY <1>1, LenProperties, EmptySeq DEF SortInv, SortTypes
<1>9. ASSUME n # 0
      PROVE  /\ n \in Nat \ {0} /\ Top(t) = f /\ f \in Frames /\ Place(t, n) /\ f.step \in Waiting
             /\ g \in Frames /\ g.chunk = f.chunk /\ g.data = f.data /\ g.result = f.result
             /\ g.step = "wait" /\ Pivot(g) = Pivot(f)
             /\ FrameOK(f) /\ Linked(t, n)
  <2>1. n \in Nat \ {0} /\ Top(t) = f /\ f \in Frames /\ Place(t, n) /\ f.step \in Waiting
    BY <1>1, <1>2, <1>8, <1>9, TopIs DEF SortInv, Place
  <2>2. g \in Frames /\ g.chunk = f.chunk /\ g.data = f.data /\ g.result = f.result
        /\ g.step = "wait"
    BY <1>3, <2>1 DEF Frames, Steps, Waiting
  <2> QED
    BY <1>2, <2>1, <2>2 DEF Pivot, SortInv, Calls
<1>10. /\ stack' \in [Thread -> Seq(Frames)]
       /\ \A u \in Thread \ {t} : stack'[u] = stack[u]
       /\ stack'[t][n + 1] = h
       /\ n # 0 => stack'[t][n] = g /\ (n > 1 => stack'[t][n - 1] = stack[t][n - 1])
       /\ \A u, i : Place(u, i)' =>
            \/ /\ Place(u, i) /\ (u # t \/ i # n) /\ stack'[u][i] = stack[u][i]
               /\ i > 1 => stack'[u][i - 1] = stack[u][i - 1]
            \/ n # 0 /\ u = t /\ i = n /\ stack'[u][i] = g
            \/ u = t /\ i = n + 1 /\ stack'[u][i] = h
  <2>1. CASE n # 0
    <3>1. stack' = [stack EXCEPT ![t] = Append(Below(t), g) \o <<h>>]
      BY <1>3, <1>4, <1>5, <1>8, <1>9, <2>1 DEF TakeChunk
    <3>2. Replaced(t, n - 1, <<g, h>>)
      BY <1>1, <1>7, <1>8, <1>9, <2>1, <3>1, CallIs DEF SortInv
    <3>3. /\ stack'[t][n] = g /\ (n > 1 => stack'[t][n - 1] = stack[t][n - 1])
          /\ stack'[t][n + 1] = h
          /\ \A u, i : Place(u, i)' =>
               \/ /\ Place(u, i) /\ (u # t \/ i # n) /\ stack'[u][i] = stack[u][i]
                  /\ i > 1 => stack'[u][i - 1] = stack[u][i - 1]
               \/ u = t /\ i = n /\ stack'[u][i] = g
               \/ u = t /\ i = n + 1 /\ stack'[u][i] = h
      BY <1>1, <1>9, <2>1, <3>2, OnTopTwo DEF SortInv
    <3> QED
      BY <2>1, <3>2, <3>3 DEF Replaced
  <2>2. CASE n = 0
    <3>1. stack' = [stack EXCEPT ![t] = stack[t] \o <<h>>]
      BY <1>4, <1>5, <1>8, <2>2 DEF TakeChunk
    <3>2. Replaced(t, 0, <<h>>)
      BY <1>7, <1>8, <2>2, <3>1, FirstCallIs DEF SortInv
    <3> DEFINE new == <<h>>
    <3>3. Len(new) = 1 /\ new[1] = h /\ 1 \in 1 .. 1
      OBVIOUS
    <3> HIDE DEF new
    <3>4. Replaced(t, 0, new)
      BY <3>2 DEF new
    <3>5. stack'[t][0 + 1] = new[1]
      BY <3>3, <3>4 DEF Replaced
    <3>6. ASSUME NEW u, NEW i, Place(u, i)'
          PROVE  \/ /\ Place(u, i) /\ (u # t \/ i # n) /\ stack'[u][i] = stack[u][i]
                    /\ i > 1 => stack'[u][i - 1] = stack[u][i - 1]
                 \/ u = t /\ i = n + 1 /\ stack'[u][i] = h
      <4>1. i \in Nat
        BY <3>6 DEF Place
      <4>2. PICK m : m = 0
        OBVIOUS
      <4>3. SortTypes /\ Replaced(t, m, new) /\ Len(new) \in Nat
        BY <3>3, <3>4, <4>2 DEF SortInv
      <4>4. \/ /\ Kept(t, m, u, i) /\ stack'[u][i] = stack[u][i]
               /\ i > 1 => stack'[u][i - 1] = stack[u][i - 1]
            \/ u = t /\ i - m \in 1 .. Len(new) /\ stack'[u][i] = new[i - m]
        BY <3>6, <4>3, PlacesAre
      <4>5. Kept(t, m, u, i) => Place(u, i) /\ (u # t \/ i # n)
        BY <1>1, <2>2, <4>1, <4>2 DEF Kept, Place
      <4>6. i - m \in 1 .. 1 => i = 1 /\ i - m = 1
        BY <4>1, <4>2
      <4> QED
        BY <2>2, <3>3, <4>4, <4>5, <4>6
    <3> QED
      BY <2>2, <3>2, <3>3, <3>5, <3>6 DEF Replaced
  <2> QED
    BY <2>1, <2>2
<1>11. ~Open(g) \/ n = 0
  BY <1>9 DEF Open
<1>12. SortTypes'
  BY <1>6, <1>10 DEF SortInv, SortTypes
<1>13. \A d : Whole(d)' = Whole(d)
  BY DEF Whole
<1>14. Calls'
  <2>1. ASSUME n # 0
        PROVE  FrameOK(g)' /\ Linked(t, n)'
    <3>1. Sorted(f.result) => Sorted(f.result)'
      BY DEF Sorted
    <3>2. FrameOK(g)'
      BY <1>9, <2>1, <3>1 DEF FrameOK, Begun, Waiting
    <3>3. Total(g)' = Total(f)
      BY <1>9, <2>1 DEF Total, Waiting
    <3>4. Linked(t, n)'
      BY <1>2, <1>9, <1>10, <1>13, <2>1, <3>3 DEF Linked
    <3> QED
      BY <3>2, <3>4
  <2>2. FrameOK(h)'
    BY <1>7 DEF FrameOK, Begun, Waiting
  <2>3. Linked(t, n + 1)'
    <3>1. Total(h)' = lower[c]
      <4>1. Range(<<>>) = {}
        BY DEF Range
      <4> QED
        BY <1>7, <4>1 DEF Total, Waiting
    <3>2. Whole(c)' = lower[c] /\ c # Higher
      BY <1>6, EnoughHelpers DEF Whole
    <3> QED
      BY <1>7, <1>10, <3>1, <3>2 DEF Linked
  <2>4. ASSUME NEW u, NEW i, Place(u, i)'
        PROVE  FrameOK(stack[u][i])' /\ Linked(u, i)'
    <3>1. CASE n # 0 /\ u = t /\ i = n
      BY <1>10, <2>1, <3>1
    <3>2. CASE u = t /\ i = n + 1
      BY <1>10, <2>2, <2>3, <3>2
    <3>3. CASE ~(n # 0 /\ u = t /\ i = n) /\ ~(u = t /\ i = n + 1)
      BY <1>10, <2>4, <3>3, KeptOK
    <3> QED
      BY <3>1, <3>2, <3>3
  <2> QED
    BY <2>4 DEF Calls
<1>15. \A u, i : Place(u, i) => (u # t \/ i # n + 1)
  BY <1>1, <1>8 DEF Place
<1>16. \A u, i : Place(u, i)' /\ Open(stack'[u][i]) =>
           \/ Place(u, i) /\ stack'[u][i] = stack[u][i] /\ (u # t \/ i # n + 1)
           \/ u = t /\ i = n + 1 /\ stack'[u][i] = h
  BY <1>10, <1>11, <1>15
<1>17. ApartCalls'
  <2>1. \A u, i : Place(u, i) /\ Open(stack[u][i]) => \A e \in h.data : e \notin stack[u][i].data
    BY <1>6, <1>7 DEF SortInv, ApartChunks
  <2> QED
    BY <1>16, <2>1 DEF SortInv, ApartCalls, Open
<1>18. ApartChunks'
  <2>1. \A d \in Range(chunks') : \A e \in lower[d] : e \notin h.data
    BY <1>6, <1>7 DEF SortInv, ApartChunks
  <2> QED
    BY <1>6, <1>16, <2>1 DEF SortInv, ApartChunks, Open
<1>19. \A e : NoPivot(e) => NoPivot(e)'
  <2> SUFFICES ASSUME NEW e, NoPivot(e)
               PROVE  NoPivot(e)'
    OBVIOUS
  <2>1. h.chunk # e /\ h.step = "split"
    BY <1>6, <1>7 DEF NoPivot
  <2>2. n # 0 => g.chunk # e /\ Pivot(g) # e
    BY <1>2, <1>9 DEF NoPivot, Waiting
  <2>3. e \notin Range(chunks')
    BY <1>6 DEF NoPivot
  <2> QED
    BY <1>10, <2>1, <2>2, <2>3 DEF NoPivot, Pivot
<1>20. Fresh'
  <2>1. ASSUME NEW u, NEW i, Place(u, i)', Open(stack[u][i])', NEW e \in stack'[u][i].data
        PROVE  NoPivot(e)'
    <3>1. NoPivot(e)
      BY <1>6, <1>7, <1>16, <2>1 DEF SortInv, Fresh, Open
    <3> QED
      BY <1>19, <3>1
  <2>2. ASSUME NEW d \in Range(chunks)', NEW e \in lower'[d]
        PROVE  NoPivot(e)'
    BY <1>6, <1>19 DEF SortInv, Fresh
  <2> QED
    BY <2>1, <2>2 DEF Fresh
<1>21. OnceChunks' /\ OnceTaken' /\ OnceCalls'
  <2>1. \A u, i : Place(u, i)' =>
           \/ Place(u, i) /\ stack'[u][i].chunk = stack[u][i].chunk /\ (u # t \/ i # n + 1)
           \/ u = t /\ i = n + 1 /\ stack'[u][i].chunk = c
    BY <1>2, <1>7, <1>9, <1>10, <1>15
  <2>2. c \notin ready /\ \A u, i : Place(u, i) => stack[u][i].chunk # c
    BY <1>6 DEF SortInv, OnceChunks, OnceTaken
  <2>3. OnceTaken'
    BY <1>6, <2>1, <2>2 DEF SortInv, OnceTaken
  <2>4. OnceCalls'
    BY <2>1, <2>2 DEF SortInv, OnceCalls
  <2>5. OnceChunks'
    BY <1>6 DEF SortInv, OnceChunks
  <2> QED
    BY <2>3, <2>4, <2>5
<1>22. Results'
  BY DEF SortInv, Results, Whole, Sorted
<1>23. NotStarted'
  BY <1>10 DEF SortInv, NotStarted, Thread
<1>24. DoneLast'
  BY DEF SortInv, DoneLast
<1> QED
  BY <1>6, <1>12, <1>14, <1>17, <1>18, <1>20, <1>21, <1>22, <1>23, <1>24 DEF SortInv

-----------------------------------------------------------------------------
(* A call puts its pivot into the result, and makes a chunk of what is less: the     *)
(* chunk waits, or is the next call.                                                  *)

\* The element that becomes a chunk's name is not one yet.
LEMMA ChunkIsAdded ==
    ASSUME SortTypes, NoTwice, NEW p \in Elem, p \notin Range(chunks),
           chunks' = Append(chunks, p)
    PROVE  chunks' \in Seq(Elem) /\ Range(chunks') = Range(chunks) \cup {p} /\ NoTwice'
<1> DEFINE s == chunks
           w == Append(s, p)
           n == Len(s)
<1>1. s \in Seq(Elem) /\ n \in Nat /\ Range(s) = {s[i] : i \in 1 .. n}
      /\ \A i, j \in 1 .. n : i # j => s[i] # s[j]
  BY LenProperties, RangeEquality DEF SortTypes, NoTwice
<1>2. p \notin Range(s) /\ chunks' = w
  OBVIOUS
<1> HIDE DEF s
<1>3. w \in Seq(Elem) /\ Len(w) = n + 1 /\ (\A i \in 1 .. n : w[i] = s[i]) /\ w[n + 1] = p
  BY <1>1, AppendProperties
<1> HIDE DEF w, n
<1>4. Range(w) = {w[i] : i \in 1 .. n + 1}
  BY <1>3, RangeEquality
<1>5. (\A i \in 1 .. n + 1 : i \in 1 .. n \/ i = n + 1) /\ n + 1 \in 1 .. n + 1
      /\ 1 .. n \subseteq 1 .. n + 1
  BY <1>1
<1>6. Range(w) = Range(s) \cup {p}
  BY <1>1, <1>3, <1>4, <1>5
<1>7. \A i \in 1 .. n : s[i] # p
  BY <1>1, <1>2
<1>8. \A i, j \in 1 .. Len(w) : i # j => w[i] # w[j]
  BY <1>1, <1>3, <1>5, <1>7
<1> QED
  BY <1>2, <1>3, <1>6, <1>8 DEF NoTwice, s

\* The call f on top of t's n calls takes p as its pivot and becomes g.  The lower half L
\* is the next call h, if there are then two in the place of f, or else an added chunk.
Partitioned(t, n, f, p, L, g, h, two, added) ==
    /\ n \in Nat \ {0} /\ n = Len(stack[t]) /\ f = stack[t][n] /\ f.step = "split"
    /\ p \in f.data /\ L \in SUBSET f.data /\ L = {e \in f.data : key[e] < key[p]}
    /\ g \in Frames /\ g.chunk = f.chunk /\ g.data = f.data \ (L \cup {p})
    /\ g.result = <<p>> /\ g.step \in Begun
    /\ h \in Frames /\ h = Frame(p, "split", L)
    /\ stack' \in [Thread -> Seq(Frames)] /\ \A u \in Thread \ {t} : stack'[u] = stack[u]
    /\ stack'[t][n] = g /\ (n > 1 => stack'[t][n - 1] = stack[t][n - 1])
    /\ two \in BOOLEAN /\ (two => stack'[t][n + 1] = h)
    /\ \A u, i : Place(u, i)' =>
          \/ /\ Place(u, i) /\ (u # t \/ i # n) /\ stack'[u][i] = stack[u][i]
             /\ i > 1 => stack'[u][i - 1] = stack[u][i - 1]
          \/ u = t /\ i = n /\ stack'[u][i] = g
          \/ two /\ u = t /\ i = n + 1 /\ stack'[u][i] = h
    /\ chunks' \in Seq(Elem) /\ NoTwice'
    /\ added \in SUBSET {p} /\ (two => added = {}) /\ Range(chunks') = Range(chunks) \cup added
    /\ lower' \in [Elem -> SUBSET Elem]
    /\ \A e \in Elem : lower'[e] = IF e = p THEN L ELSE lower[e]
    /\ UNCHANGED <<key, ready, future, started, done>>

LEMMA PartitionKeeps ==
    ASSUME SortInv, NEW t \in Thread, NEW n, NEW f, NEW p, NEW L, NEW g, NEW h, NEW two,
           NEW added, Partitioned(t, n, f, p, L, g, h, two, added)
    PROVE  SortInv'
<1> USE DEF Partitioned
<1>1. Place(t, n) /\ f \in Frames /\ f.data \subseteq Elem /\ stack[t] # <<>>
  <2>1. Place(t, n)
    BY DEF Place
  <2>2. f \in Frames
    BY <2>1, FrameIn
  <2>3. stack[t] # <<>>
    BY EmptySeq DEF SortInv, SortTypes
  <2> QED
    BY <2>1, <2>2, <2>3 DEF Frames
<1>2. p \in Elem /\ p \notin L /\ (\A e \in L : key[e] < key[p])
      /\ (\A e \in g.data : e # p /\ key[p] <= key[e])
  <2>1. key \in [Elem -> Int] /\ p \in Elem /\ key[p] \in Int
    BY <1>1 DEF SortInv, SortTypes
  <2>2. \A e \in f.data : key[e] \in Int
    BY <1>1, <2>1
  <2> QED
    BY <2>1, <2>2
<1>3. FrameOK(f) /\ Linked(t, n) /\ Open(f) /\ f.result = <<>>
  <2>1. FrameOK(f) /\ Linked(t, n)
    BY <1>1 DEF SortInv, Calls
  <2> QED
    BY <2>1 DEF FrameOK, Open
<1>4. \A e \in f.data : NoPivot(e)
  BY <1>1, <1>3 DEF SortInv, Fresh
<1>5. NoPivot(p)
  BY <1>4
<1>6. /\ g.step # "split" /\ g.step \notin Waiting /\ Pivot(g) = p
      /\ h.chunk = p /\ h.step = "split" /\ h.data = L /\ h.result = <<>>
  BY DEF Begun, Waiting, Pivot, Frame
<1>7. \A u, i : Place(u, i)' =>
           \/ /\ Place(u, i) /\ (u # t \/ i # n) /\ stack'[u][i] = stack[u][i]
              /\ i > 1 => stack'[u][i - 1] = stack[u][i - 1]
           \/ u = t /\ i = n /\ stack'[u][i] = g
           \/ two /\ u = t /\ i = n + 1 /\ stack'[u][i] = h
  OBVIOUS
<1>8. Range(chunks') = Range(chunks) \cup added
  OBVIOUS
<1>9. \A e \in Elem : lower'[e] = IF e = p THEN L ELSE lower[e]
  OBVIOUS
<1>10. SortTypes'
  BY DEF SortInv, SortTypes
<1>11. \A c \in Chunk : c # p => Whole(c)' = Whole(c)
  BY <1>9 DEF Whole, Chunk
<1>12. f.chunk # p /\ p # Main /\ p # Higher
  BY <1>1, <1>2, <1>5, EnoughHelpers DEF NoPivot
<1>13. Calls'
  <2>1. FrameOK(g)'
    <3>1. \A e \in g.data : e # p /\ key[p] <= key[e]
      BY <1>2
    <3>2. \A e \in lower'[p] : key[e] < key[p]
      BY <1>2, <1>9
    <3> QED
      BY <1>2, <1>6, <3>1, <3>2 DEF FrameOK
  <2>2. FrameOK(h)'
    BY <1>6 DEF FrameOK, Begun, Waiting
  <2>3. Linked(t, n)'
    <3>1. Total(f) = f.data
      <4>1. Range(<<>>) = {}
        BY DEF Range
      <4> QED
        BY <1>3, <4>1 DEF Total, Waiting
    <3>2. Total(g)' = f.data
      <4>1. Range(<<p>>) = {p}
        BY DEF Range
      <4>2. g.step \notin Waiting /\ lower'[p] = L
        BY <1>2, <1>6, <1>9 DEF Waiting
      <4> QED
        BY <1>2, <1>6, <4>1, <4>2 DEF Total
    <3>3. f.chunk # Higher => Whole(f.chunk)' = Whole(f.chunk)
      BY <1>1, <1>11, <1>12 DEF Frames
    <3> QED
      BY <1>3, <1>6, <1>7, <3>1, <3>2, <3>3 DEF Linked
  <2>4. two => Linked(t, n + 1)'
    <3>1. Total(h)' = L
      <4>1. Range(<<>>) = {}
        BY DEF Range
      <4> QED
        BY <1>6, <4>1 DEF Total, Waiting
    <3>2. Whole(p)' = L
      BY <1>2, <1>9, <1>12 DEF Whole
    <3>3. two => stack'[t][n + 1] = h
      OBVIOUS
    <3>4. ASSUME two
          PROVE  Linked(t, n + 1)'
      <4> HIDE DEF Partitioned
      <4>1. stack'[t][n + 1] = h
        BY <3>3, <3>4
      <4>2. h.chunk # Higher /\ Total(h)' = Whole(h.chunk)'
        BY <1>6, <1>12, <3>1, <3>2
      <4> QED
        BY <4>1, <4>2 DEF Linked
    <3> QED
      BY <3>4
  <2>5. \A e \in Elem : lower'[e] = lower[e] \/ NoPivot(e)
    BY <1>5, <1>9
  <2>6. ASSUME NEW u, NEW i, Place(u, i)'
        PROVE  FrameOK(stack[u][i])' /\ Linked(u, i)'
    <3>1. CASE u = t /\ i = n
      BY <1>7, <2>1, <2>3, <3>1
    <3>2. CASE two /\ u = t /\ i = n + 1
      BY <1>7, <2>2, <2>4, <3>2
    <3>3. CASE ~(u = t /\ i = n) /\ ~(two /\ u = t /\ i = n + 1)
      <4>1. /\ Place(u, i) /\ stack'[u][i] = stack[u][i]
            /\ i > 1 => stack'[u][i - 1] = stack[u][i - 1]
        BY <1>7, <2>6, <3>3
      <4> QED
        BY <2>5, <4>1, KeptOK
    <3> QED
      BY <3>1, <3>2, <3>3
  <2> QED
    BY <2>6 DEF Calls
<1>14. \A u, i : Place(u, i) => (u # t \/ i # n + 1)
  BY <1>1 DEF Place
<1>15. \A u, i : Place(u, i)' /\ Open(stack'[u][i]) =>
           \/ /\ Place(u, i) /\ stack'[u][i] = stack[u][i]
              /\ (u # t \/ i # n) /\ (u # t \/ i # n + 1)
           \/ u = t /\ i = n /\ stack'[u][i] = g
           \/ two /\ u = t /\ i = n + 1 /\ stack'[u][i] = h
  BY <1>7, <1>14
\* What is in the call is in no other, and in no chunk.
<1>16. /\ \A u, i : Place(u, i) /\ (u # t \/ i # n) /\ Open(stack[u][i])
              => \A e \in f.data : e \notin stack[u][i].data
       /\ \A c \in Range(chunks) : \A e \in lower[c] : e \notin f.data
  BY <1>1, <1>3 DEF SortInv, ApartCalls, ApartChunks
<1>17. g.data \subseteq f.data /\ h.data \subseteq f.data /\ \A e \in g.data : e \notin h.data
  BY <1>2, <1>6
<1>18. ApartCalls'
  <2> SUFFICES ASSUME NEW u, NEW v, NEW i, NEW j, Place(u, i)', Place(v, j)', u # v \/ i # j,
                      Open(stack'[u][i]), Open(stack'[v][j]), NEW e \in stack'[u][i].data
               PROVE  e \notin stack'[v][j].data
    BY DEF ApartCalls, Open
  <2> DEFINE Same(w, k) == /\ Place(w, k) /\ stack'[w][k] = stack[w][k] /\ Open(stack[w][k])
                           /\ (w # t \/ k # n) /\ (w # t \/ k # n + 1)
             New(w, k)  == \/ w = t /\ k = n /\ stack'[w][k] = g
                           \/ w = t /\ k = n + 1 /\ stack'[w][k] = h
  <2>1. (Same(u, i) \/ New(u, i)) /\ (Same(v, j) \/ New(v, j))
    BY <1>15 DEF Open
  <2>2. CASE Same(u, i) /\ Same(v, j)
    BY <2>2 DEF SortInv, ApartCalls
  <2>3. CASE New(u, i) /\ New(v, j)
    <3>1. n # n + 1
      OBVIOUS
    <3> QED
      BY <1>17, <2>3, <3>1
  <2>4. CASE Same(u, i) /\ New(v, j)
    BY <1>16, <1>17, <2>4
  <2>5. CASE New(u, i) /\ Same(v, j)
    BY <1>16, <1>17, <2>5
  <2> QED
    BY <2>1, <2>2, <2>3, <2>4, <2>5
<1>19. Range(chunks) \subseteq Elem /\ p \notin Range(chunks)
  BY <1>5, RangeOfSeq DEF SortInv, SortTypes, NoPivot
<1>20. \A c \in Range(chunks') : \/ c \in Range(chunks) /\ lower'[c] = lower[c]
                                 \/ ~two /\ c = p /\ lower'[c] = h.data
  <2> SUFFICES ASSUME NEW c \in Range(chunks')
               PROVE  \/ c \in Range(chunks) /\ lower'[c] = lower[c]
                      \/ ~two /\ c = p /\ lower'[c] = h.data
    OBVIOUS
  <2>1. CASE c \in Range(chunks)
    <3>1. lower'[c] = lower[c]
      BY <1>9, <1>19, <2>1
    <3> QED
      BY <2>1, <3>1
  <2>2. CASE c \notin Range(chunks)
    <3>1. c \in added
      BY <1>8, <2>2
    <3>2. lower'[p] = h.data
      BY <1>2, <1>6, <1>9
    <3> QED
      BY <3>1, <3>2
  <2> QED
    BY <2>1, <2>2
<1>21. ApartChunks'
  <2>1. ASSUME NEW u, NEW i, Place(u, i)', Open(stack'[u][i]), NEW c \in Range(chunks'),
               NEW e \in lower'[c]
        PROVE  e \notin stack'[u][i].data
    <3>1. CASE c \in Range(chunks) /\ lower'[c] = lower[c]
      <4>1. e \in lower[c] /\ e \notin f.data
        BY <1>16, <2>1, <3>1
      <4>2. CASE Place(u, i) /\ stack'[u][i] = stack[u][i]
        <5>1. Open(stack[u][i])
          BY <2>1, <4>2 DEF Open
        <5> QED
          BY <3>1, <4>1, <4>2, <5>1 DEF SortInv, ApartChunks
      <4>3. CASE ~(Place(u, i) /\ stack'[u][i] = stack[u][i])
        <5>1. stack'[u][i] = g \/ stack'[u][i] = h
          BY <1>15, <2>1, <4>3
        <5> QED
          BY <1>17, <4>1, <5>1
      <4> QED
        BY <4>2, <4>3
    <3>2. CASE ~two /\ c = p /\ lower'[c] = h.data
      <4>1. e \in h.data /\ e \in f.data
        BY <1>17, <2>1, <3>2
      <4>2. CASE u = t /\ i = n /\ stack'[u][i] = g
        BY <1>17, <4>1, <4>2
      <4>3. CASE ~(u = t /\ i = n /\ stack'[u][i] = g)
        <5>1. Place(u, i) /\ stack'[u][i] = stack[u][i] /\ (u # t \/ i # n)
          BY <1>15, <2>1, <3>2, <4>3
        <5>2. Open(stack[u][i])
          BY <2>1, <5>1 DEF Open
        <5> QED
          BY <1>16, <4>1, <5>1, <5>2
      <4> QED
        BY <4>2, <4>3
    <3> QED
      BY <1>20, <3>1, <3>2
  <2>2. ASSUME NEW c \in Range(chunks'), NEW d \in Range(chunks'), c # d, NEW e \in lower'[c]
        PROVE  e \notin lower'[d]
    <3>1. CASE /\ c \in Range(chunks) /\ lower'[c] = lower[c]
               /\ d \in Range(chunks) /\ lower'[d] = lower[d]
      BY <2>2, <3>1 DEF SortInv, ApartChunks
    <3>2. CASE /\ c \in Range(chunks) /\ lower'[c] = lower[c]
               /\ d = p /\ lower'[d] = h.data
      <4>1. e \in lower[c] /\ h.data \subseteq f.data
        BY <1>17, <2>2, <3>2
      <4> QED
        BY <1>16, <3>2, <4>1
    <3>3. CASE /\ c = p /\ lower'[c] = h.data
               /\ d \in Range(chunks) /\ lower'[d] = lower[d]
      <4>1. e \in f.data
        BY <1>17, <2>2, <3>3
      <4> QED
        BY <1>16, <3>3, <4>1
    <3> QED
      BY <1>20, <2>2, <3>1, <3>2, <3>3
  <2> QED
    BY <2>1, <2>2 DEF ApartChunks, Open
<1>22. \A e : e # p /\ NoPivot(e) => NoPivot(e)'
  <2> SUFFICES ASSUME NEW e, e # p, NoPivot(e)
               PROVE  NoPivot(e)'
    OBVIOUS
  <2>1. h.chunk # e /\ h.step = "split" /\ Pivot(g) # e
    BY <1>6
  <2>2. g.chunk # e
    BY <1>1, <1>6 DEF NoPivot
  <2>3. e \notin Range(chunks')
    BY <1>8 DEF NoPivot
  <2>4. ASSUME NEW u, NEW i, Place(u, i)'
        PROVE  /\ stack'[u][i].chunk # e
               /\ stack'[u][i].step # "split" => Pivot(stack'[u][i]) # e
    <3>1. CASE stack'[u][i] = g \/ stack'[u][i] = h
      BY <2>1, <2>2, <3>1
    <3>2. CASE Place(u, i) /\ stack'[u][i] = stack[u][i]
      BY <3>2 DEF NoPivot
    <3> QED
      BY <1>7, <2>4, <3>1, <3>2
  <2> QED
    BY <2>3, <2>4 DEF NoPivot, Pivot
<1>23. Fresh'
  <2>1. ASSUME NEW u, NEW i, Place(u, i)', Open(stack[u][i])', NEW e \in stack'[u][i].data
        PROVE  NoPivot(e)'
    <3>1. CASE Place(u, i) /\ stack'[u][i] = stack[u][i] /\ (u # t \/ i # n)
      <4>1. Open(stack[u][i])
        BY <2>1, <3>1 DEF Open
      <4>2. e # p /\ NoPivot(e)
        BY <1>16, <2>1, <3>1, <4>1 DEF SortInv, Fresh
      <4> QED
        BY <1>22, <4>2
    <3>2. CASE ~(Place(u, i) /\ stack'[u][i] = stack[u][i] /\ (u # t \/ i # n))
      <4>1. stack'[u][i] = g \/ stack'[u][i] = h
        BY <1>15, <2>1, <3>2 DEF Open
      <4>2. e # p /\ e \in f.data
        BY <1>2, <1>6, <2>1, <4>1
      <4> QED
        BY <1>4, <1>22, <4>2
    <3> QED
      BY <3>1, <3>2
  <2>2. ASSUME NEW d \in Range(chunks)', NEW e \in lower'[d]
        PROVE  NoPivot(e)'
    <3>1. CASE d \in Range(chunks) /\ lower'[d] = lower[d]
      <4>1. e # p /\ NoPivot(e)
        BY <1>16, <2>2, <3>1 DEF SortInv, Fresh
      <4> QED
        BY <1>22, <4>1
    <3>2. CASE lower'[d] = h.data
      <4>1. e # p /\ e \in f.data
        BY <1>2, <1>6, <2>2, <3>2
      <4> QED
        BY <1>4, <1>22, <4>1
    <3> QED
      BY <1>20, <2>2, <3>1, <3>2
  <2> QED
    BY <2>1, <2>2 DEF Fresh
<1>24. OnceChunks' /\ OnceTaken' /\ OnceCalls'
  <2>1. \A u, i : Place(u, i)' =>
           \/ /\ Place(u, i) /\ stack'[u][i].chunk = stack[u][i].chunk
              /\ (u # t \/ i # n + 1)
           \/ two /\ u = t /\ i = n + 1 /\ stack'[u][i].chunk = p
    BY <1>1, <1>6, <1>7, <1>14
  <2>2. p \notin ready /\ \A u, i : Place(u, i) => stack[u][i].chunk # p
    BY <1>5 DEF NoPivot
  <2>3. OnceTaken'
    BY <1>8, <1>19, <2>1, <2>2 DEF SortInv, OnceTaken
  <2>4. OnceCalls'
    <3> HIDE DEF Partitioned
    <3> QED
      BY <2>1, <2>2 DEF SortInv, OnceCalls
  <2>5. OnceChunks'
    BY <1>8, <2>2 DEF SortInv, OnceChunks
  <2> QED
    BY <2>3, <2>4, <2>5
<1>25. Results'
  <2>1. ASSUME NEW c \in ready
        PROVE  Whole(c)' = Whole(c)
    BY <1>5, <1>11 DEF SortInv, SortTypes, NoPivot
  <2> QED
    BY <2>1 DEF SortInv, Results, Sorted
<1>26. NotStarted'
  BY <1>7 DEF SortInv, NotStarted, Thread
<1>27. DoneLast'
  BY DEF SortInv, DoneLast
<1> QED
  BY <1>10, <1>13, <1>18, <1>21, <1>23, <1>24, <1>25, <1>26, <1>27 DEF SortInv

-----------------------------------------------------------------------------
(* Every step. *)

LEMMA SortInit ==
    ASSUME Init
    PROVE  SortInv
<1>1. Main \in Thread /\ Main \notin Helper /\ Main \notin Elem /\ Main # Higher
  BY EnoughHelpers DEF Thread
<1>2. PICK f : f = Frame(Main, "split", Elem)
  OBVIOUS
<1>3. f \in Frames /\ f.chunk = Main /\ f.step = "split" /\ f.data = Elem /\ f.result = <<>>
  BY <1>2 DEF Frame, Frames, Steps, Chunk
<1>4. stack = [t \in Thread |-> IF t = Main THEN <<f>> ELSE <<>>]
  BY <1>2 DEF Init
<1>5. stack \in [Thread -> Seq(Frames)] /\ \A t \in Thread \ {Main} : stack[t] = <<>>
  BY <1>3, <1>4
<1>6. stack[Main] = <<f>> /\ Len(<<f>>) = 1 /\ <<f>>[1] = f
  BY <1>1, <1>4
<1>7. \A t, i : Place(t, i) => t = Main /\ i = 1 /\ stack[t][i] = f
  <2> SUFFICES ASSUME NEW t, NEW i, Place(t, i)
               PROVE  t = Main /\ i = 1 /\ stack[t][i] = f
    OBVIOUS
  <2>1. t \in Thread /\ i \in 1 .. Len(stack[t])
    BY DEF Place
  <2>2. t = Main
    <3>1. Len(<<>>) = 0 /\ i \notin 1 .. 0
      OBVIOUS
    <3> QED
      BY <1>5, <2>1, <3>1
  <2>3. i \in 1 .. 1
    BY <1>6, <2>1, <2>2
  <2>4. i = 1
    BY <2>3
  <2> QED
    BY <1>6, <2>2, <2>4
<1>8. Range(<<>>) = {} /\ chunks = <<>> /\ ready = {} /\ ~done
  BY DEF Init, Range
<1>9. SortTypes
  <2>1. key \in [Elem -> Int]
    BY EnoughHelpers DEF Init
  <2> QED
    BY <1>5, <2>1 DEF Init, SortTypes, Chunk
<1>10. Calls
  <2>1. FrameOK(f)
    BY <1>3 DEF FrameOK, Begun, Waiting
  <2>2. Total(f) = Elem /\ Whole(Main) = Elem
    BY <1>3, <1>8 DEF Total, Whole, Waiting
  <2> QED
    BY <1>1, <1>3, <1>7, <2>1, <2>2 DEF Calls, Linked
<1>11. ApartCalls /\ ApartChunks /\ OnceChunks /\ OnceTaken /\ OnceCalls
  BY <1>7, <1>8 DEF ApartCalls, ApartChunks, OnceChunks, OnceTaken, OnceCalls
<1>12. Fresh
  <2>1. \A e \in Elem : NoPivot(e)
    BY <1>1, <1>3, <1>7, <1>8 DEF NoPivot
  <2> QED
    BY <1>3, <1>7, <1>8, <2>1 DEF Fresh
<1>13. NoTwice
  <2>1. Len(<<>>) = 0 /\ \A i : i \notin 1 .. 0
    OBVIOUS
  <2> QED
    BY <1>8, <2>1 DEF NoTwice
<1>14. Results /\ NotStarted /\ DoneLast
  BY <1>1, <1>5, <1>8 DEF Results, NotStarted, DoneLast, Thread
<1> QED
  BY <1>9, <1>10, <1>11, <1>12, <1>13, <1>14 DEF SortInv

LEMMA ReturnEmptyKeeps ==
    ASSUME SortInv, NEW t \in Thread, ReturnEmpty(t)
    PROVE  SortInv'
<1>1. PICK r : r = <<>>
  OBVIOUS
<1>2. r \in Seq(Elem) /\ Sorted(r) /\ Range(r) = {} /\ Range(<<>>) = {}
  <2>1. Len(<<>>) = 0 /\ \A i : i \notin 1 .. 0
    OBVIOUS
  <2>2. <<>> \in Seq(Elem)
    OBVIOUS
  <2> QED
    BY <1>1, <2>1, <2>2 DEF Sorted, Range
<1>3. PICK f : f = Top(t)
  OBVIOUS
<1>4. /\ stack[t] # <<>> /\ f.step = "split" /\ f.data = {} /\ Deliver(t, r)
      /\ UNCHANGED <<key, chunks, lower, started, done>>
  BY <1>1, <1>3 DEF ReturnEmpty, At, input, pool, closing
<1>5. f.result = <<>>
  BY <1>3, <1>4, TopIs DEF SortInv, Calls, FrameOK, Place
<1>6. Range(r) = Total(Top(t)) /\ Range(r) \subseteq ready
  BY <1>2, <1>3, <1>4, <1>5 DEF Total, Waiting
<1> QED
  BY <1>2, <1>4, <1>6, DeliverReady, DeliverHigher

\* The lower half, which is ready, goes in front of the pivot and the higher half.
LEMMA FinishKeeps ==
    ASSUME SortInv, NEW t \in Thread, Finish(t)
    PROVE  SortInv'
<1>1. PICK f : f = Top(t)
  OBVIOUS
<1>2. PICK p : p = Pivot(f)
  OBVIOUS
<1>3. PICK a : a = future[p]
  OBVIOUS
<1>4. PICK b : b = f.result
  OBVIOUS
<1>5. PICK r : r = a \o b
  OBVIOUS
<1>6. /\ stack[t] # <<>> /\ f.step = "wait" /\ p \in ready /\ Deliver(t, r)
      /\ UNCHANGED <<key, chunks, lower, started, done>>
  BY <1>1, <1>2, <1>3, <1>4, <1>5 DEF Finish, Splice, At, input, pool, closing
<1>7. Place(t, Len(stack[t])) /\ f = stack[t][Len(stack[t])]
  BY <1>1, <1>6, TopIs DEF SortInv, Place
<1>8. f \in Frames /\ FrameOK(f) /\ p \in Elem /\ p # Main
  BY <1>2, <1>6, <1>7, FrameIn, EnoughHelpers DEF SortInv, Calls
<1>9. a \in Seq(Elem) /\ Sorted(a) /\ Range(a) = lower[p] /\ Range(a) \subseteq ready
  <2>1. a \in Seq(Elem)
    BY <1>3, <1>8 DEF SortInv, SortTypes, Chunk
  <2> QED
    BY <1>3, <1>6, <1>8, <2>1 DEF SortInv, Results, Whole
<1>10. /\ b \in Seq(Elem) /\ Sorted(b) /\ Len(b) >= 1 /\ b[1] = p
       /\ \A i \in 2 .. Len(b) : b[i] \in ready
       /\ \A e \in lower[p] : key[e] < key[p]
  BY <1>2, <1>4, <1>6, <1>8 DEF FrameOK, Waiting, Pivot, Frames
<1>11. Range(b) = {b[i] : i \in 1 .. Len(b)} /\ Len(b) \in Nat
  BY <1>10, RangeEquality, LenProperties
<1>12. ASSUME NEW e \in Range(b)
       PROVE  e \in ready /\ key[p] <= key[e]
  <2>1. PICK i \in 1 .. Len(b) : e = b[i]
    BY <1>11
  <2>2. CASE i = 1
    <3>1. key[p] \in Int
      BY <1>8 DEF SortInv, SortTypes
    <3> QED
      BY <1>6, <1>10, <2>1, <2>2, <3>1
  <2>3. CASE i # 1
    <3>1. i \in 2 .. Len(b) /\ 1 \in 1 .. Len(b) /\ 1 < i
      BY <1>11, <2>3
    <3> QED
      BY <1>10, <2>1, <3>1 DEF Sorted
  <2> QED
    BY <2>2, <2>3
<1>13. ASSUME NEW d \in Range(a), NEW e \in Range(b)
       PROVE  key[d] <= key[e] /\ d # e
  <2>1. key[d] < key[p] /\ key[p] <= key[e]
    BY <1>9, <1>10, <1>12
  <2>2. d \in Elem /\ e \in Elem
    BY <1>9, <1>10, RangeOfSeq
  <2>3. key[d] \in Int /\ key[e] \in Int /\ key[p] \in Int
    BY <1>8, <2>2 DEF SortInv, SortTypes
  <2> QED
    BY <2>1, <2>3
<1>14. r \in Seq(Elem) /\ Sorted(r) /\ Range(r) = Range(a) \cup Range(b)
  BY <1>5, <1>9, <1>10, <1>13, SortedConcat DEF SortInv, SortTypes
<1>15. Range(r) = Total(f) /\ Range(r) \subseteq ready
  BY <1>2, <1>4, <1>6, <1>9, <1>12, <1>14 DEF Total, Waiting
<1> QED
  BY <1>1, <1>6, <1>14, <1>15, DeliverReady, DeliverHigher

\* The lower half is a chunk that waits.
LEMMA SplitKeeps ==
    ASSUME SortInv, NEW t \in Thread, NEW p \in Elem, Split(t, p)
    PROVE  SortInv'
<1>1. PICK n : n = Len(stack[t])
  OBVIOUS
<1>2. PICK f : f = Top(t)
  OBVIOUS
<1>3. PICK L : L = Low(t, p)
  OBVIOUS
<1>4. PICK s : s = IF version = "pool" THEN "spawn" ELSE "higher"
  OBVIOUS
<1>5. PICK g : g = Rest(t, p, s)
  OBVIOUS
<1>6. PICK h : h = Frame(p, "split", L)
  OBVIOUS
<1>7. /\ stack[t] # <<>> /\ f.step = "split" /\ p \in f.data
      /\ lower' = [lower EXCEPT ![p] = L] /\ chunks' = Append(chunks, p) /\ Become(t, g)
      /\ UNCHANGED <<key, ready, future, started, done>>
  BY <1>2, <1>3, <1>4, <1>5 DEF Split, Partition, At, input, pool, closing
<1>8. n \in Nat \ {0} /\ f = stack[t][n] /\ f \in Frames /\ Place(t, n)
  BY <1>1, <1>2, <1>7, TopIs DEF SortInv, Place
<1>9. L = {e \in f.data : key[e] < key[p]} /\ L \in SUBSET f.data /\ L \in SUBSET Elem
      /\ g = [f EXCEPT !.data = @ \ (L \cup {p}), !.result = <<p>>, !.step = s]
      /\ s \in {"spawn", "higher"}
  BY <1>2, <1>3, <1>4, <1>5, <1>8 DEF Low, Rest, Frames
<1>10. /\ g \in Frames /\ g.chunk = f.chunk /\ g.data = f.data \ (L \cup {p})
       /\ g.result = <<p>> /\ g.step \in Begun /\ h \in Frames
  <2>1. g = [chunk |-> f.chunk, step |-> s, data |-> f.data \ (L \cup {p}), result |-> <<p>>]
    BY <1>8, <1>9 DEF Frames
  <2>2. <<p>> \in Seq(Elem) /\ s \in Steps /\ s \in Begun
    BY <1>9 DEF Steps, Begun
  <2>3. f.chunk \in Chunk \cup {Higher} /\ f.data \ (L \cup {p}) \in SUBSET Elem
    BY <1>8 DEF Frames
  <2>4. h \in Frames
    BY <1>6, <1>9 DEF Frames, Steps, Chunk, Frame
  <2> QED
    BY <2>1, <2>2, <2>3, <2>4 DEF Frames
<1>11. Replaced(t, n - 1, <<g>>)
  BY <1>1, <1>7, <1>10, BecomeIs DEF SortInv
<1>12. /\ stack' \in [Thread -> Seq(Frames)]
       /\ \A u \in Thread \ {t} : stack'[u] = stack[u]
       /\ stack'[t][n] = g /\ (n > 1 => stack'[t][n - 1] = stack[t][n - 1])
       /\ \A u, i : Place(u, i)' =>
            \/ /\ Place(u, i) /\ (u # t \/ i # n) /\ stack'[u][i] = stack[u][i]
               /\ i > 1 => stack'[u][i - 1] = stack[u][i - 1]
            \/ u = t /\ i = n /\ stack'[u][i] = g
  <2>1. SortTypes
    BY DEF SortInv
  <2>2. stack' \in [Thread -> Seq(Frames)] /\ \A u \in Thread \ {t} : stack'[u] = stack[u]
    BY <1>11 DEF Replaced
  <2> QED
    BY <1>1, <1>8, <1>11, <2>1, <2>2, OnTop
<1>13. chunks' \in Seq(Elem) /\ Range(chunks') = Range(chunks) \cup {p} /\ NoTwice'
  <2>1. NoPivot(p)
    BY <1>7, <1>8 DEF SortInv, Fresh, Open
  <2>2. SortTypes /\ NoTwice /\ p \notin Range(chunks)
    BY <2>1 DEF SortInv, NoPivot
  <2> QED
    BY <1>7, <2>2, ChunkIsAdded
<1>14. /\ lower' \in [Elem -> SUBSET Elem]
       /\ \A e \in Elem : lower'[e] = IF e = p THEN L ELSE lower[e]
  BY <1>7, <1>9 DEF SortInv, SortTypes
<1>15. PICK two \in BOOLEAN : two = FALSE
  OBVIOUS
<1>16. PICK added \in SUBSET {p} : added = {p}
  OBVIOUS
<1>17. /\ SortInv /\ n \in Nat \ {0} /\ n = Len(stack[t])
       /\ f = stack[t][n] /\ f.step = "split"
       /\ p \in f.data /\ L \in SUBSET f.data /\ L = {e \in f.data : key[e] < key[p]}
       /\ g \in Frames /\ g.chunk = f.chunk /\ g.data = f.data \ (L \cup {p})
       /\ g.result = <<p>> /\ g.step \in Begun
       /\ h \in Frames /\ h = Frame(p, "split", L)
       /\ stack' \in [Thread -> Seq(Frames)] /\ \A u \in Thread \ {t} : stack'[u] = stack[u]
  BY <1>1, <1>6, <1>7, <1>8, <1>9, <1>10, <1>12
<1>18. /\ stack'[t][n] = g /\ (n > 1 => stack'[t][n - 1] = stack[t][n - 1])
       /\ two => stack'[t][n + 1] = h
       /\ \A u, i : Place(u, i)' =>
             \/ /\ Place(u, i) /\ (u # t \/ i # n) /\ stack'[u][i] = stack[u][i]
                /\ i > 1 => stack'[u][i - 1] = stack[u][i - 1]
             \/ u = t /\ i = n /\ stack'[u][i] = g
             \/ two /\ u = t /\ i = n + 1 /\ stack'[u][i] = h
  BY <1>12, <1>15
<1>19. /\ chunks' \in Seq(Elem) /\ NoTwice' /\ (two => added = {})
       /\ Range(chunks') = Range(chunks) \cup added
       /\ lower' \in [Elem -> SUBSET Elem]
       /\ \A e \in Elem : lower'[e] = IF e = p THEN L ELSE lower[e]
       /\ UNCHANGED <<key, ready, future, started, done>>
  BY <1>7, <1>13, <1>14, <1>15, <1>16
<1>20. Partitioned(t, n, f, p, L, g, h, two, added)
  BY <1>17, <1>18, <1>19 DEF Partitioned
<1> QED
  BY <1>20, PartitionKeeps

\* The lower half is the next call.
LEMMA SortLowerKeeps ==
    ASSUME SortInv, NEW t \in Thread, NEW p \in Elem, SortLower(t, p)
    PROVE  SortInv'
<1>1. PICK n : n = Len(stack[t])
  OBVIOUS
<1>2. PICK f : f = Top(t)
  OBVIOUS
<1>3. PICK L : L = Low(t, p)
  OBVIOUS
<1>4. PICK s : s = "higher"
  OBVIOUS
<1>5. PICK g : g = Rest(t, p, s)
  OBVIOUS
<1>6. PICK h : h = Frame(p, "split", L)
  OBVIOUS
<1>7. /\ stack[t] # <<>> /\ f.step = "split" /\ p \in f.data
      /\ lower' = [lower EXCEPT ![p] = L] /\ stack' = [stack EXCEPT ![t] = Below(t) \o <<g, h>>]
      /\ UNCHANGED <<key, chunks, ready, future, started, done>>
  BY <1>2, <1>3, <1>4, <1>5, <1>6 DEF SortLower, Partition, At, input, pool, closing
<1>8. n \in Nat \ {0} /\ f = stack[t][n] /\ f \in Frames /\ Place(t, n)
  BY <1>1, <1>2, <1>7, TopIs DEF SortInv, Place
<1>9. L = {e \in f.data : key[e] < key[p]} /\ L \in SUBSET f.data /\ L \in SUBSET Elem
      /\ g = [f EXCEPT !.data = @ \ (L \cup {p}), !.result = <<p>>, !.step = s]
  BY <1>2, <1>3, <1>5, <1>8 DEF Low, Rest, Frames
<1>10. /\ g \in Frames /\ g.chunk = f.chunk /\ g.data = f.data \ (L \cup {p})
       /\ g.result = <<p>> /\ g.step \in Begun /\ h \in Frames
  <2>1. g = [chunk |-> f.chunk, step |-> s, data |-> f.data \ (L \cup {p}), result |-> <<p>>]
    BY <1>8, <1>9 DEF Frames
  <2>2. <<p>> \in Seq(Elem) /\ s \in Steps /\ s \in Begun
    BY <1>4 DEF Steps, Begun
  <2>3. f.chunk \in Chunk \cup {Higher} /\ f.data \ (L \cup {p}) \in SUBSET Elem
    BY <1>8 DEF Frames
  <2>4. h \in Frames
    BY <1>6, <1>9 DEF Frames, Steps, Chunk, Frame
  <2> QED
    BY <2>1, <2>2, <2>3, <2>4 DEF Frames
<1>11. Replaced(t, n - 1, <<g, h>>)
  BY <1>1, <1>7, <1>10, CallIs DEF SortInv
<1>12. /\ stack' \in [Thread -> Seq(Frames)]
       /\ \A u \in Thread \ {t} : stack'[u] = stack[u]
       /\ stack'[t][n] = g /\ (n > 1 => stack'[t][n - 1] = stack[t][n - 1])
       /\ stack'[t][n + 1] = h
       /\ \A u, i : Place(u, i)' =>
            \/ /\ Place(u, i) /\ (u # t \/ i # n) /\ stack'[u][i] = stack[u][i]
               /\ i > 1 => stack'[u][i - 1] = stack[u][i - 1]
            \/ u = t /\ i = n /\ stack'[u][i] = g
            \/ u = t /\ i = n + 1 /\ stack'[u][i] = h
  <2>1. SortTypes
    BY DEF SortInv
  <2>2. stack' \in [Thread -> Seq(Frames)] /\ \A u \in Thread \ {t} : stack'[u] = stack[u]
    BY <1>11 DEF Replaced
  <2> QED
    BY <1>1, <1>8, <1>11, <2>1, <2>2, OnTopTwo
<1>13. chunks' \in Seq(Elem) /\ NoTwice'
  BY <1>7 DEF SortInv, SortTypes, NoTwice
<1>14. /\ lower' \in [Elem -> SUBSET Elem]
       /\ \A e \in Elem : lower'[e] = IF e = p THEN L ELSE lower[e]
  BY <1>7, <1>9 DEF SortInv, SortTypes
<1>15. PICK two \in BOOLEAN : two = TRUE
  OBVIOUS
<1>16. PICK added \in SUBSET {p} : added = {}
  OBVIOUS
<1>17. Range(chunks') = Range(chunks) \cup added
  BY <1>7, <1>16
<1>18. /\ SortInv /\ n \in Nat \ {0} /\ n = Len(stack[t])
       /\ f = stack[t][n] /\ f.step = "split"
       /\ p \in f.data /\ L \in SUBSET f.data /\ L = {e \in f.data : key[e] < key[p]}
       /\ g \in Frames /\ g.chunk = f.chunk /\ g.data = f.data \ (L \cup {p})
       /\ g.result = <<p>> /\ g.step \in Begun
       /\ h \in Frames /\ h = Frame(p, "split", L)
       /\ stack' \in [Thread -> Seq(Frames)] /\ \A u \in Thread \ {t} : stack'[u] = stack[u]
  BY <1>1, <1>6, <1>7, <1>8, <1>9, <1>10, <1>12
<1>19. /\ stack'[t][n] = g /\ (n > 1 => stack'[t][n - 1] = stack[t][n - 1])
       /\ two => stack'[t][n + 1] = h
       /\ \A u, i : Place(u, i)' =>
             \/ /\ Place(u, i) /\ (u # t \/ i # n) /\ stack'[u][i] = stack[u][i]
                /\ i > 1 => stack'[u][i - 1] = stack[u][i - 1]
             \/ u = t /\ i = n /\ stack'[u][i] = g
             \/ two /\ u = t /\ i = n + 1 /\ stack'[u][i] = h
  BY <1>12, <1>15
<1>20. /\ chunks' \in Seq(Elem) /\ NoTwice' /\ (two => added = {})
       /\ Range(chunks') = Range(chunks) \cup added
       /\ lower' \in [Elem -> SUBSET Elem]
       /\ \A e \in Elem : lower'[e] = IF e = p THEN L ELSE lower[e]
       /\ UNCHANGED <<key, ready, future, started, done>>
  BY <1>7, <1>13, <1>14, <1>15, <1>16, <1>17
<1>21. Partitioned(t, n, f, p, L, g, h, two, added)
  BY <1>18, <1>19, <1>20 DEF Partitioned
<1> QED
  BY <1>21, PartitionKeeps

\* Nothing changes in the calls, the chunks and the futures.
LEMMA SameKeeps ==
    ASSUME SortInv, UNCHANGED <<key, stack, work, started>>, done' => Main \in ready
    PROVE  SortInv'
<1>1. UNCHANGED <<key, stack, chunks, lower, ready, future, started>>
  BY DEF work
<1>2. SortTypes'
  BY <1>1 DEF SortInv, SortTypes
<1>3. \A t, i : Place(t, i)' <=> Place(t, i)
  BY <1>1 DEF Place
<1>4. Calls'
  <2>1. ASSUME NEW t, NEW i, Place(t, i)
        PROVE  FrameOK(stack[t][i])' /\ Linked(t, i)'
    BY <1>1, <2>1, KeptOK
  <2> QED
    BY <1>3, <2>1 DEF Calls
<1>5. ApartCalls' /\ ApartChunks'
  BY <1>1, <1>3 DEF SortInv, ApartCalls, ApartChunks, Open
<1>6. \A e : NoPivot(e) => NoPivot(e)'
  BY <1>1, <1>3 DEF NoPivot, Pivot
<1>7. Fresh'
  BY <1>1, <1>3, <1>6 DEF SortInv, Fresh, Open
<1>8. OnceChunks' /\ OnceTaken' /\ OnceCalls' /\ NoTwice'
  BY <1>1, <1>3 DEF SortInv, OnceChunks, OnceTaken, OnceCalls, NoTwice
<1>9. Results' /\ NotStarted' /\ DoneLast'
  BY <1>1 DEF SortInv, Results, Sorted, Whole, NotStarted, DoneLast
<1> QED
  BY <1>2, <1>4, <1>5, <1>7, <1>8, <1>9 DEF SortInv

LEMMA SortStep ==
    ASSUME SortInv, NEW t \in Thread, Step(t)
    PROVE  SortInv'
<1>1. CASE ReturnEmpty(t)
  BY <1>1, ReturnEmptyKeeps
<1>2. ASSUME NEW p \in Elem, Split(t, p) \/ SortLower(t, p)
      PROVE  SortInv'
  BY <1>2, SplitKeeps, SortLowerKeeps
<1>3. CASE CheckSize(t)
  <2>1. stack[t] # <<>> /\ Top(t).step = "spawn"
        /\ UNCHANGED <<key, chunks, lower, ready, future, done>>
    BY <1>3 DEF CheckSize, At, input, work, closing
  <2>2. started \subseteq Helper
    BY DEF SortInv, SortTypes
  <2>3. CASE \E h \in Helper \ started : started' = started \cup {h} /\ Goto(t, "push_back")
    <3>1. Goto(t, "push_back") /\ started \subseteq started' /\ started' \subseteq Helper
      BY <2>2, <2>3
    <3> QED
      BY <2>1, <3>1, StepKeeps
  <2>4. CASE Goto(t, "higher") /\ UNCHANGED started
    BY <2>1, <2>2, <2>4, StepKeeps
  <2> QED
    BY <1>3, <2>3, <2>4 DEF CheckSize
<1>4. CASE PushBack(t)
  <2>1. /\ stack[t] # <<>> /\ Top(t).step = "push_back" /\ Goto(t, "higher")
        /\ UNCHANGED <<key, chunks, lower, ready, future, started, done>>
    BY <1>4 DEF PushBack, At, input, work, closing
  <2>2. started \subseteq Helper
    BY DEF SortInv, SortTypes
  <2> QED
    BY <2>1, <2>2, StepKeeps
<1>5. CASE CallHigher(t)
  BY <1>5, CallHigherKeeps
<1>6. CASE Finish(t)
  BY <1>6, FinishKeeps
<1>7. CASE Poll(t) \/ HelpNone(t)
  <2>1. /\ stack[t] # <<>> /\ UNCHANGED <<key, chunks, lower, ready, future, started, done>>
    BY <1>7 DEF Poll, HelpNone, At, input, work, pool, closing
  <2>2. PICK s \in Waiting : Goto(t, s)
    BY <1>7 DEF Poll, HelpNone, Waiting
  <2>3. Top(t).step \in Waiting
    BY <1>7 DEF Poll, HelpNone, At, Waiting
  <2>4. started \subseteq Helper /\ {Top(t).step, s} \subseteq Waiting
    BY <2>2, <2>3 DEF SortInv, SortTypes
  <2> QED
    BY <2>1, <2>2, <2>4, StepKeeps
<1>8. CASE Help(t) \/ SortChunk(t)
  <2>1. /\ TakeChunk(t, Len(chunks)) /\ chunks # <<>>
        /\ UNCHANGED <<key, lower, ready, future, started, done>>
    BY <1>8 DEF Help, SortChunk, input, pool, closing
  <2>2. stack[t] = <<>> => t \in started'
    BY <1>8, <2>1 DEF Help, SortChunk, At
  <2>3. stack[t] # <<>> => Top(t).step \in Waiting
    BY <1>8 DEF Help, SortChunk, At, Waiting
  <2>4. Len(chunks) \in DOMAIN chunks /\ started \subseteq Helper
    <3>1. chunks \in Seq(Elem) /\ started \subseteq Helper
      BY DEF SortInv, SortTypes
    <3>2. Len(chunks) \in Nat /\ Len(chunks) # 0 /\ DOMAIN chunks = 1 .. Len(chunks)
      BY <2>1, <3>1, EmptySeq, LenProperties
    <3> QED
      BY <3>1, <3>2
  <2> QED
    BY <2>1, <2>2, <2>3, <2>4, TakeChunkKeeps
<1>9. ASSUME NEW i \in DOMAIN chunks, Deferred(t, i)
      PROVE  SortInv'
  <2>1. /\ TakeChunk(t, i) /\ stack[t] # <<>> /\ Top(t).step \in Waiting
        /\ UNCHANGED <<key, lower, ready, future, started, done>>
    BY <1>9 DEF Deferred, At, Waiting, input, pool, closing
  <2>2. started \subseteq Helper
    BY DEF SortInv, SortTypes
  <2> QED
    BY <2>1, <2>2, TakeChunkKeeps
<1>10. CASE LeaveLoop(t)
  <2>1. UNCHANGED <<key, stack, work, started, done>>
    BY <1>10 DEF LeaveLoop, input, pool
  <2>2. done' => Main \in ready
    BY <2>1 DEF SortInv, DoneLast
  <2> QED
    BY <2>1, <2>2, SameKeeps
<1> QED
  BY <1>1, <1>2, <1>3, <1>4, <1>5, <1>6, <1>7, <1>8, <1>9, <1>10 DEF Step

LEMMA SortNextKeeps ==
    ASSUME SortInv, [Next]_vars
    PROVE  SortInv'
<1>1. ASSUME NEW t \in Thread, Step(t)
      PROVE  SortInv'
  BY <1>1, SortStep
<1>2. ASSUME NEW h \in Helper, NEW i \in DOMAIN chunks, AsyncStarts(h, i)
      PROVE  SortInv'
  <2>1. /\ TakeChunk(h, i) /\ h \notin started /\ started' = started \cup {h}
        /\ UNCHANGED <<key, lower, ready, future, done>>
    BY <1>2 DEF AsyncStarts, input, closing
  <2>2. h \in Thread /\ stack[h] = <<>> /\ started \subseteq Helper
    BY <2>1 DEF SortInv, SortTypes, NotStarted, Thread
  <2>3. h \in started' /\ started \subseteq started' /\ started' \subseteq Helper
    BY <2>1, <2>2
  <2> QED
    BY <2>1, <2>2, <2>3, TakeChunkKeeps
<1>3. CASE EndData \/ JoinAll \/ Stopped \/ UNCHANGED vars
  <2>1. UNCHANGED <<key, stack, work, started>>
    BY <1>3 DEF EndData, JoinAll, Stopped, vars, input, pool
  <2>2. done' => Main \in ready
    BY <1>3 DEF EndData, JoinAll, Stopped, vars, closing, SortInv, DoneLast
  <2> QED
    BY <2>1, <2>2, SameKeeps
<1> QED
  BY <1>1, <1>2, <1>3 DEF Next

\* Once the whole input is ready every element has been a pivot whose chunk is ready: no
\* chunk waits and none is in a call.
LEMMA SortInvMeans ==
    ASSUME SortInv
    PROVE  SortsInput
<1> SUFFICES ASSUME done
             PROVE  LET r == future[Main]
                    IN  /\ Len(r) = Cardinality(Elem) /\ {r[i] : i \in DOMAIN r} = Elem
                        /\ \A i \in 1 .. Len(r) - 1 : key[r[i]] <= key[r[i + 1]]
                        /\ chunks = <<>>
                        /\ \A t \in Thread : stack[t] = <<>>
  BY DEF SortsInput
<1>1. PICK r : r = future[Main]
  OBVIOUS
<1>2. Main \in ready /\ Sorted(r) /\ Range(r) = Elem /\ Elem \subseteq ready
  BY <1>1 DEF SortInv, DoneLast, Results, Whole
<1>3. r \in Seq(Elem)
  BY <1>1 DEF SortInv, SortTypes, Chunk
<1>4. Len(r) \in Nat /\ DOMAIN r = 1 .. Len(r) /\ r \in [1 .. Len(r) -> Elem]
      /\ Range(r) = {r[i] : i \in 1 .. Len(r)}
  BY <1>3, LenProperties, RangeEquality
<1>5. \A i, j \in 1 .. Len(r) : i # j => r[i] # r[j]
  <2> SUFFICES ASSUME NEW i \in 1 .. Len(r), NEW j \in 1 .. Len(r), i # j
               PROVE  r[i] # r[j]
    OBVIOUS
  <2>1. i < j \/ j < i
    OBVIOUS
  <2> QED
    BY <1>2, <2>1 DEF Sorted
<1>6. Len(r) = Cardinality(Elem)
  <2>1. r \in Bijection(1 .. Len(r), Elem)
    BY <1>2, <1>4, <1>5 DEF Bijection, Injection, Surjection, IsInjective
  <2>2. Cardinality(Elem) = Len(r)
    BY <1>4, <2>1, FS_CountingElements DEF ExistsBijection
  <2> QED
    BY <2>2
<1>7. ASSUME NEW i \in 1 .. Len(r) - 1
      PROVE  key[r[i]] <= key[r[i + 1]]
  <2>1. i \in 1 .. Len(r) /\ i + 1 \in 1 .. Len(r) /\ i < i + 1
    BY <1>4
  <2> QED
    BY <1>2, <2>1 DEF Sorted
<1>8. chunks = <<>>
  <2>1. chunks \in Seq(Elem) /\ OnceChunks
    BY DEF SortInv, SortTypes
  <2>2. Range(chunks) = {}
    BY <1>2, <2>1, RangeOfSeq DEF OnceChunks
  <2>3. Range(chunks) = {chunks[i] : i \in 1 .. Len(chunks)} /\ Len(chunks) \in Nat
    BY <2>1, RangeEquality, LenProperties
  <2>4. 1 \notin 1 .. Len(chunks)
    BY <2>2, <2>3
  <2>5. Len(chunks) = 0
    BY <2>3, <2>4
  <2> QED
    BY <2>1, <2>5, EmptySeq
<1>9. ASSUME NEW t \in Thread, stack[t] # <<>>
      PROVE  FALSE
  <2>1. Len(stack[t]) \in Nat \ {0}
    BY <1>9, TopIs DEF SortInv
  <2>2. Place(t, 1)
    BY <2>1 DEF Place
  <2>3. stack[t][1].chunk # Higher
    BY <2>2 DEF SortInv, Calls, Linked
  <2>4. stack[t][1].chunk \in ready
    <3>1. stack[t][1] \in Frames
      BY <2>2, FrameIn
    <3> QED
      BY <1>2, <2>3, <3>1 DEF Frames, Chunk
  <2> QED
    BY <2>2, <2>4 DEF SortInv, OnceTaken
<1> QED
  BY <1>1, <1>2, <1>4, <1>6, <1>7, <1>8, <1>9

-----------------------------------------------------------------------------
(* Quick sort, for every set of elements, their keys, and number of threads. *)

\* Every call returns the elements it was made for, in order, and every element still to be
\* partitioned and every chunk is in one place only.
THEOREM SortInvariant == SafeSpec => []SortInv
<1>1. BothInit => SortInv
  BY SortInit DEF BothInit
<1>2. SortInv /\ [SortNext \/ AccumulateNext]_BothVars => SortInv'
  <2>1. [SortNext \/ AccumulateNext]_BothVars => [Next]_vars
    BY DEF SortNext, AccumulateNext, BothVars
  <2> QED
    BY <2>1, SortNextKeeps
<1> QED
  BY <1>1, <1>2, PTL DEF SafeSpec

\* What the call returns is its input, in order, and when it returns no chunk waits and no
\* thread is in a call: whoever has sorted which chunk on top of which calls, with a pool
\* of threads, with std::async, and alone.
THEOREM InputIsSorted == SafeSpec => []SortsInput
<1>1. SortInv => SortsInput
  BY SortInvMeans
<1> QED
  BY <1>1, SortInvariant, PTL
===============================================================================
