----------------------------- MODULE CppThreads -----------------------------
(***************************************************************************)
(* What C++ promises the small programs of chapters 3, 4 and 5 about atomics,  *)
(* fences, plain variables, mutexes and joins, as far as they use it.          *)
(*                                                                          *)
(* A location has a log of its writes, and a plain one of its reads too; an     *)
(* event <<l, i>> is an entry of it.  known[t] is what happens before thread    *)
(* t's next step.  An atomic load may return any write that is not older than    *)
(* one t knows of.  A write carries the events it releases; a load that acquires  *)
(* takes them over, and so does a fence after a load that does not.  Writes of one *)
(* location are ordered as they are done, and so are all the sequentially consistent *)
(* operations: such a load returns nothing older than one before it has seen.         *)
(* Two accesses to a plain location, one of them a write, of which neither happens     *)
(* before the other, are a data race; what such a read returns is as for an atomic.     *)
(*                                                                                  *)
(* A turn of a waiting loop that does not end it is left out: it only takes choices   *)
(* away.                                                                              *)
(***************************************************************************)
EXTENDS Integers, Sequences, FiniteSets

CONSTANTS Program,    \* the names of the programs
          Code,       \* Code[p][t]: the instructions of thread t of program p
          Initial     \* Initial[p][l]: what location l of program p holds at first

VARIABLES prog,       \* the program that runs
          pc,         \* the instruction each thread is at
          reg,        \* the value it has read last
          log,        \* the events of each location
          known,      \* per thread, the events that happen before its next one
          pending,    \* what its loads have read without acquiring it
          fenced,     \* what it knew at its last release fence
          total,      \* the writes sequentially consistent operations have made or read
          failed,     \* the locations an assert has failed about
          raced,      \* two accesses to a plain location were not ordered
          terminated  \* std::terminate has been called

vars == <<prog, pc, reg, log, known, pending, fenced, total, failed, raced, terminated>>

Threads   == DOMAIN Code[prog]
Locations == DOMAIN Initial[prog]

Ended(t) == pc[t] > Len(Code[prog][t])
At(t, o) == t \in Threads /\ ~terminated /\ ~Ended(t) /\ Code[prog][t][pc[t]].op = o
In(t)    == Code[prog][t][pc[t]]

Write(v, released) == [kind |-> "write", value |-> v, released |-> released]
ReadEntry          == [kind |-> "read", value |-> 0, released |-> {}]

\* The initial values are known to every thread.
Init == \E p \in Program :
   /\ prog = p
   /\ pc = [t \in DOMAIN Code[p] |-> 1]
   /\ reg = [t \in DOMAIN Code[p] |-> 0]
   /\ log = [l \in DOMAIN Initial[p] |-> <<Write(Initial[p][l], {})>>]
   /\ known = [t \in DOMAIN Code[p] |-> {<<l, 1>> : l \in DOMAIN Initial[p]}]
   /\ pending = [t \in DOMAIN Code[p] |-> {}]
   /\ fenced = [t \in DOMAIN Code[p] |-> {}]
   /\ total = {}
   /\ failed = {} /\ raced = FALSE /\ terminated = FALSE

-----------------------------------------------------------------------------
Step(t) == /\ pc' = [pc EXCEPT ![t] = @ + 1]
           /\ UNCHANGED prog

Acquires(order) == order \in {"acquire", "acq_rel", "seq_cst"}
Releases(order) == order \in {"release", "acq_rel", "seq_cst"}
Total(order)    == IF order = "seq_cst" THEN total ELSE {}
Tell(e, order)  == total' = IF order = "seq_cst" THEN total \cup {e} ELSE total

Writes(l) == {i \in DOMAIN log[l] : log[l][i].kind = "write"}

\* The writes a read may return: none older than one in k.
Readable(k, l) == {i \in Writes(l) : \A j \in Writes(l) : <<l, j>> \in k => j <= i}

\* t has read write i of l: it takes over what that released, now or at its next fence.
TakesOver(t, l, i, order) ==
    LET released == log[l][i].released
    IN  IF Acquires(order)
        THEN /\ known' = [known EXCEPT ![t] = @ \cup {<<l, i>>} \cup released]
             /\ UNCHANGED pending
        ELSE /\ known' = [known EXCEPT ![t] = @ \cup {<<l, i>>}]
             /\ pending' = [pending EXCEPT ![t] = @ \cup released]

\* What a write of t releases, if t knows k.
Released(t, order, k) == IF Releases(order) THEN k ELSE fenced[t]

LoadStep(t) ==
    /\ At(t, "load")
    /\ LET l == In(t).loc
       IN  \E i \in Readable(known[t] \cup Total(In(t).order), l) :
              /\ log[l][i].value \in In(t).from
              /\ reg' = [reg EXCEPT ![t] = log[l][i].value]
              /\ TakesOver(t, l, i, In(t).order)
              /\ Tell(<<l, i>>, In(t).order)
    /\ Step(t)
    /\ UNCHANGED <<log, fenced, failed, raced, terminated>>

StoreStep(t) ==
    /\ At(t, "store")
    /\ LET l == In(t).loc
           e == <<l, Len(log[l]) + 1>>
       IN  /\ known' = [known EXCEPT ![t] = @ \cup {e}]
           /\ log' = [log EXCEPT ![l] = Append(@, Write(In(t).value,
                                {e} \cup Released(t, In(t).order, known[t])))]
           /\ Tell(e, In(t).order)
    /\ Step(t)
    /\ UNCHANGED <<reg, pending, fenced, failed, raced, terminated>>

\* It reads the latest write, and keeps what that one released.
ModifyStep(t) ==
    /\ At(t, "modify")
    /\ LET l == In(t).loc
           n == Len(log[l])
           old == log[l][n].value
           e == <<l, n + 1>>
       IN  /\ old \in DOMAIN In(t).f
           /\ reg' = [reg EXCEPT ![t] = old]
           /\ TakesOver(t, l, n, In(t).order)
           /\ log' = [log EXCEPT ![l] = Append(@, Write(In(t).f[old],
                          {e} \cup log[l][n].released \cup Released(t, In(t).order, known'[t])))]
           /\ Tell(e, In(t).order)
    /\ Step(t)
    /\ UNCHANGED <<fenced, failed, raced, terminated>>

FenceStep(t) ==
    /\ At(t, "fence")
    /\ known' = [known EXCEPT ![t] = IF Acquires(In(t).order) THEN @ \cup pending[t] ELSE @]
    /\ fenced' = [fenced EXCEPT ![t] = IF Releases(In(t).order) THEN known'[t] ELSE @]
    /\ Step(t)
    /\ UNCHANGED <<reg, log, pending, total, failed, raced, terminated>>

-----------------------------------------------------------------------------
\* Thread t adds entry to plain location l; from then on it knows `more`.  It races with
\* those of the events `others` that do not happen before.
Touch(t, l, entry, k, others, more) ==
    /\ log' = [log EXCEPT ![l] = Append(@, entry)]
    /\ known' = [known EXCEPT ![t] = @ \cup more \cup {<<l, Len(log[l]) + 1>>}]
    /\ raced' = (raced \/ \E i \in others : <<l, i>> \notin k)
    /\ Step(t)
    /\ UNCHANGED <<pending, fenced, total, failed, terminated>>

GetStep(t) ==
    /\ At(t, "get")
    /\ LET l == In(t).loc
           k == IF In(t).dependent THEN known[t] \cup pending[t] ELSE known[t]
       IN  \E i \in Readable(k, l) :
              /\ reg' = [reg EXCEPT ![t] = log[l][i].value]
              /\ Touch(t, l, ReadEntry, k, Writes(l), {<<l, i>>})

PutStep(t) ==
    /\ At(t, "put")
    /\ LET l == In(t).loc
       IN  Touch(t, l, Write(In(t).value, {}), known[t], DOMAIN log[l], {})
    /\ UNCHANGED reg

-----------------------------------------------------------------------------
\* A mutex holds 0 while it is free.
LockStep(t) ==
    /\ At(t, "lock")
    /\ LET ms == In(t).locs
           n(m) == Len(log[m])
           events == {<<m, n(m) + 1>> : m \in ms}
       IN  /\ \A m \in ms : log[m][n(m)].value = 0
           /\ known' = [known EXCEPT ![t] = @ \cup events \cup
                                            UNION {log[m][n(m)].released : m \in ms}]
           /\ log' = [l \in Locations |-> IF l \in ms THEN Append(log[l], Write(1, events))
                                                      ELSE log[l]]
    /\ Step(t)
    /\ UNCHANGED <<reg, pending, fenced, total, failed, raced, terminated>>

BranchStep(t) ==
    /\ At(t, "branch")
    /\ pc' = [pc EXCEPT ![t] = IF reg[t] \in In(t).from THEN In(t).to ELSE @ + 1]
    /\ UNCHANGED <<prog, reg, log, known, pending, fenced, total, failed, raced, terminated>>

CheckStep(t) ==
    /\ At(t, "check")
    /\ failed' = IF reg[t] \in In(t).from THEN failed ELSE failed \cup {In(t).loc}
    /\ Step(t)
    /\ UNCHANGED <<reg, log, known, pending, fenced, total, raced, terminated>>

JoinStep(t) ==
    /\ At(t, "join")
    /\ \A u \in Threads \ {t} : Ended(u)
    /\ known' = [known EXCEPT ![t] = UNION {known[u] : u \in Threads}]
    /\ Step(t)
    /\ UNCHANGED <<reg, log, pending, fenced, total, failed, raced, terminated>>

ThrowStep(t) ==
    /\ At(t, "throw")
    /\ terminated' = TRUE
    /\ UNCHANGED <<prog, pc, reg, log, known, pending, fenced, total, failed, raced>>

Proceed(t) == \/ LoadStep(t) \/ StoreStep(t) \/ ModifyStep(t) \/ FenceStep(t)
              \/ GetStep(t) \/ PutStep(t) \/ LockStep(t)
              \/ BranchStep(t) \/ CheckStep(t) \/ JoinStep(t) \/ ThrowStep(t)

Next == \E t \in Threads : Proceed(t)

Spec == Init /\ [][Next]_vars
=============================================================================
