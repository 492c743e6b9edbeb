---------------------- MODULE MCAlgorithmsAndPrograms ----------------------
(* One of the two algorithms of MCParallelAlgorithms, or one of the programs of      *)
(* SmallPrograms: the variables of the others stay as they are initially.             *)
EXTENDS MCParallelAlgorithms

VARIABLES small,    \* a small program runs
          prog, at, reg, log, known, pending, fenced, total, failed, races, terminated

Small  == INSTANCE SmallPrograms
Code   == Small!Programs
Starts == Small!Starts

Cpp == INSTANCE CppThreads WITH Program <- DOMAIN Code, Initial <- Starts,
                                pc <- at, raced <- races

smallVars == <<prog, at, reg, log, known, pending, fenced, total, failed, races, terminated>>

\* While a small program runs the input of the algorithms is the simplest.
EveryInit ==
    /\ small \in BOOLEAN
    /\ BothInit /\ Cpp!Init
    /\ small => /\ algorithm = "accumulate"
                /\ accVersion = "joiner" /\ length = 0 /\ accHardware = 0
    /\ ~small => prog = CHOOSE p \in DOMAIN Code : TRUE

AlgorithmsNext == ~small /\ (SortNext \/ AccumulateNext) /\ UNCHANGED <<small, smallVars>>
SmallNext      == small /\ Cpp!Next /\ UNCHANGED <<small, BothVars>>

\* Every thread of an algorithm is given processor time.  Of a small program, some thread
\* that can go on does: it has finitely many steps, as its loops that wait are one step,
\* so nothing more is asked of the scheduler than that writes become visible in the end.
EverySpec ==
    /\ EveryInit
    /\ [][AlgorithmsNext \/ SmallNext]_<<small, BothVars, smallVars>>
    /\ \A t \in Thread : WF_vars(algorithm = "sort" /\ Step(t))
    /\ WF_vars(algorithm = "sort" /\ (EndData \/ JoinAll))
    /\ WF_accVars(~small /\ algorithm = "accumulate" /\ Accumulate!Next)
    /\ WF_smallVars(small /\ Cpp!Next)

-----------------------------------------------------------------------------
(* Properties: those of the algorithms that are invariants are in MCParallelAlgorithms. *)

\* Every call of the algorithms ends: a sorting thread that waits for a half helps with
\* any chunk, on top of the calls it has, and no two ever wait for what lies below the
\* other's (until they meet at the vector of threads); no thread that accumulates is
\* joined, or its future waited for, by a caller it needs.
CallEnded == IF algorithm = "sort" THEN done \/ raced
             ELSE pc \in {"returned", "threw", "terminated", "crashed"}
CallsEnd  == <>[](small \/ CallEnded)

\* In every execution the memory model allows, whatever a thread of a small program reads
\* through a flag, a fence, a lock, a future or once_flag is what was written before the
\* other side gave its signal: no assert fails but those the file itself gives up, and the
\* misprint.
AssertionsHold ==
    small => failed \subseteq (IF prog \in DOMAIN Small!MayFail THEN Small!MayFail[prog] ELSE {})

\* The accesses to every variable that is not atomic are ordered by a mutex, a flag, a
\* fence or a future, in any interleaving, but for the misuses.
RaceFree == small /\ races => prog \in Small!Unprotected

\* However many threads come to a lazy initialisation at once, by whatever means, the
\* resource is created once: so it is even with double-checked locking, whose first test
\* is a race.
Created  == {i \in Cpp!Writes("resource") : log["resource"][i].value = 1}
OnceOnly == small /\ "resource" \in Cpp!Locations => Cardinality(Created) <= 1

\* Every thread of a small program ends, or its program is ended by an exception: none
\* waits for a signal that does not come, no two wait for each other's mutex, every future
\* becomes ready.  All but the threads that are Endless as they are written.
MustEnd == IF prog \in DOMAIN Small!Endless THEN Cpp!Threads \ Small!Endless[prog]
                                            ELSE Cpp!Threads
ThreadsEnded    == IF prog \in Small!Escaping THEN terminated
                   ELSE \A t \in MustEnd : Cpp!Ended(t)
EveryThreadEnds == <>[](small => ThreadsEnded)
=============================================================================
