------------------------- MODULE ParallelAccumulate -------------------------
(***************************************************************************)
(* The three parallel versions of std::accumulate: "results", of "choose num  *)
(* threads at run time.cpp", whose threads write to a vector; and the two of    *)
(* "Chapter 8 - parallel of accumulate with packaged task for exception.cpp":   *)
(* "futures", and "joiner", which joins its threads in a destructor.            *)
(*                                                                          *)
(* The elements are 1 .. length.  What is added up is the sequence of them, so   *)
(* that their order shows; an addition may throw, and so may the constructor of   *)
(* a thread.  `for (T const& fut : futures)` and `joiner (futures)` do not        *)
(* compile: they stand for the futures' own type and for `joiner (threads)`.      *)
(***************************************************************************)
EXTENDS Integers, Sequences

CONSTANTS MaxLength,  \* the longest range
          PerThread,  \* min_per_thread, 25 in the code
          Hardware    \* what hardware_concurrency() may return, 0 for unknown

\* What is assumed of them.
BoundsPositive == /\ MaxLength \in Nat /\ PerThread \in Nat \ {0}
                  /\ Hardware \subseteq Nat

VARIABLES version, length, hardware,
          faulty,       \* the elements whose addition throws
          pc,           \* where the caller is in the function
          block,        \* i, the number of threads started
          block_start,  \* the elements up to this one are in a block
          worker,       \* the state of each thread
          range,        \* the block of each thread: elements after the first, up to
                        \* the second
          out,          \* what each thread has computed: result, or its future's state
          last_result,
          sum,          \* the result, initially init
          got           \* how many partial results are in it

input  == <<version, length, hardware, faulty>>
blocks == <<block, block_start, range>>
vars   == <<input, pc, blocks, worker, out, last_result, sum, got>>

CeilDiv(a, b)  == (a + b - 1) \div b
Smaller(a, b)  == IF a < b THEN a ELSE b
Versions       == {"results", "futures", "joiner"}

\* "results" does without a limit by the length when the hardware is unknown.
num_threads == LET max_threads == CeilDiv(length, PerThread)
               IN  IF hardware # 0 THEN Smaller(hardware, max_threads)
                   ELSE IF version = "results" THEN 2 ELSE Smaller(2, max_threads)

block_size == length \div num_threads

Block(r)  == [i \in 1 .. r[2] - r[1] |-> r[1] + i]
Throws(r) == \E e \in faulty : r[1] < e /\ e <= r[2]

Init == /\ version \in Versions
        /\ length \in 0 .. MaxLength
        /\ hardware \in Hardware
        /\ faulty \in SUBSET (1 .. length)
        /\ pc = "enter"
        /\ block = 0 /\ block_start = 0
        /\ worker = <<>> /\ range = <<>> /\ out = <<>>
        /\ last_result = <<>> /\ sum = <<>> /\ got = 0

\* An empty range: init, or a division by zero if num_threads is.
Enter == /\ pc = "enter"
         /\ pc' = IF length = 0 /\ version # "results" THEN "returned"
                  ELSE IF num_threads = 0 THEN "crashed" ELSE "spawn"
         /\ UNCHANGED <<input, blocks, worker, out, last_result, sum, got>>

-----------------------------------------------------------------------------
\* An exception leaves the function: the joiner's destructor runs first, if there is
\* one; the destructor of a vector with a thread that is joinable ends the program.
\* Mutant: the joiner is declared where the threads have been started.
Joinable(k) == worker[k] # "joined"

UnwindFrom(inLoop) == IF version = "joiner" /\ ~inLoop THEN "unwind"
                      ELSE IF \E k \in DOMAIN worker : Joinable(k) THEN "terminated" ELSE "threw"
JoinedLate == UnwindFrom(pc = "spawn")
Unwind     == UnwindFrom(FALSE)

\* The thread for the next block.
Spawn == /\ pc = "spawn" /\ block < num_threads - 1
         /\ worker' = Append(worker, "running")
         /\ range' = Append(range, <<block_start, block_start + block_size>>)
         /\ out' = Append(out, <<>>)
         /\ block' = block + 1
         /\ block_start' = block_start + block_size
         /\ UNCHANGED <<input, pc, last_result, sum, got>>

SpawnFails == /\ pc = "spawn" /\ block < num_threads - 1
              /\ pc' = Unwind
              /\ UNCHANGED <<input, blocks, worker, out, last_result, sum, got>>

\* The last block.  Mutant: it is as long as the others.
EvenBlock == <<block_start, block_start + block_size>>
LastBlock == <<block_start, length>>

\* The caller's own block.
AccumulateLast ==
    /\ pc = "spawn" /\ block = num_threads - 1
    /\ IF Throws(LastBlock)
         THEN pc' = Unwind /\ UNCHANGED last_result
         ELSE /\ last_result' = Block(LastBlock)
              /\ pc' = IF version = "joiner" THEN "sum" ELSE "join"
    /\ UNCHANGED <<input, blocks, worker, out, sum, got>>

\* A thread goes through its block.  An exception ends the program if no packaged_task
\* catches it.
Accumulate(k) ==
    /\ worker[k] = "running" /\ pc # "terminated"
    /\ IF Throws(range[k])
         THEN /\ worker' = [worker EXCEPT ![k] = "threw"]
              /\ pc' = IF version = "results" THEN "terminated" ELSE pc
              /\ UNCHANGED out
         ELSE /\ worker' = [worker EXCEPT ![k] = "done"]
              /\ out' = [out EXCEPT ![k] = Block(range[k])]
              /\ UNCHANGED pc
    /\ UNCHANGED <<input, blocks, last_result, sum, got>>

\* One thread is joined: by the caller, or by ~join_threads().
Join(k) ==
    /\ pc \in {"join", "unwind"}
    /\ Joinable(k) /\ \A j \in 1 .. k - 1 : ~Joinable(j)
    /\ worker[k] # "running"
    /\ worker' = [worker EXCEPT ![k] = "joined"]
    /\ UNCHANGED <<input, pc, blocks, out, last_result, sum, got>>

AllJoined ==
    /\ pc \in {"join", "unwind"}
    /\ ~\E k \in DOMAIN worker : Joinable(k)
    /\ pc' = IF pc = "unwind" THEN "threw" ELSE IF version = "joiner" THEN "returned" ELSE "sum"
    /\ UNCHANGED <<input, blocks, worker, out, last_result, sum, got>>

\* result += fut.get(), which waits for the thread, and throws what the thread threw.
Get(k) ==
    /\ pc = "sum" /\ got = k - 1
    /\ worker[k] # "running"
    /\ IF Throws(range[k])
         THEN pc' = Unwind /\ UNCHANGED <<sum, got>>
         ELSE sum' = sum \o out[k] /\ got' = k /\ UNCHANGED pc
    /\ UNCHANGED <<input, blocks, worker, out, last_result>>

AddLast ==
    /\ pc = "sum" /\ got = num_threads - 1
    /\ sum' = sum \o last_result
    /\ pc' = IF version = "joiner" THEN "join" ELSE "returned"
    /\ UNCHANGED <<input, blocks, worker, out, last_result, got>>

\* Adding a partial result throws.
AddFails == /\ pc = "sum"
            /\ pc' = Unwind
            /\ UNCHANGED <<input, blocks, worker, out, last_result, sum, got>>

Ended == pc \in {"returned", "threw", "terminated", "crashed"} /\ UNCHANGED vars

Next == \/ Enter \/ Spawn \/ SpawnFails \/ AccumulateLast \/ AllJoined \/ AddLast \/ AddFails
        \/ Ended
        \/ \E k \in DOMAIN worker : Accumulate(k) \/ Join(k) \/ Get(k)

Spec == Init /\ [][Next]_vars

-----------------------------------------------------------------------------
(* Properties *)

\* The blocks make up the range, however it divides: a sum returned is that of every
\* element, each once and in order, and it is only returned if no addition threw.
SumIsWhole == pc = "returned" => sum = Block(<<0, length>>) /\ faulty = {}

\* "joiner would call destructor and join all threads here" (line 123): when a call
\* has ended, by whatever exception, none of its threads is left to read the caller's
\* range; and with join_threads an exception never ends the program.
EndsAlone == /\ pc \in {"returned", "threw"} => \A k \in DOMAIN worker : worker[k] = "joined"
             /\ version = "joiner" => pc # "terminated"
=============================================================================
