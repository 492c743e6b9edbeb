------------------------ MODULE MCParallelAlgorithms ------------------------
(* The two algorithms that divide their input among threads, one or the other:      *)
(* quick sort, of three elements on one or two processors or an unknown number of    *)
(* them, and accumulate, of up to nine elements on up to four processors.             *)
EXTENDS ParallelQuickSort

CONSTANTS MaxLength, PerThread, Processors

VARIABLES algorithm,
          accVersion, length, accHardware, faulty, pc, block, block_start, worker,
          range, out, last_result, sum, got

Accumulate == INSTANCE ParallelAccumulate
                 WITH Hardware <- Processors, version <- accVersion, hardware <- accHardware

ASSUME Bounds == Accumulate!BoundsPositive

accVars == <<accVersion, length, accHardware, faulty, pc, block, block_start, worker,
             range, out, last_result, sum, got>>

\* The input of the algorithm that does not run is its simplest.
BothInit ==
    /\ algorithm \in {"sort", "accumulate"}
    /\ Init /\ Accumulate!Init
    /\ algorithm = "sort" => /\ accVersion = "joiner" /\ length = 0 /\ accHardware = 0
    /\ algorithm = "accumulate" => /\ version = "sequential" /\ hardware = 0
                                   /\ \A e \in Elem : key[e] = 1

SortNext       == algorithm = "sort" /\ Next /\ UNCHANGED <<algorithm, accVars>>
AccumulateNext == algorithm = "accumulate" /\ Accumulate!Next /\ UNCHANGED <<algorithm, vars>>

BothVars == <<algorithm, vars, accVars>>
SafeSpec == BothInit /\ [][SortNext \/ AccumulateNext]_BothVars

-----------------------------------------------------------------------------
\* Those of accumulate; SortsInput is in ParallelQuickSort.
SumIsWhole == Accumulate!SumIsWhole
EndsAlone  == Accumulate!EndsAlone

MCHardware   == 0 .. 2
MCProcessors == 0 .. 4
MCKey        == 1 .. 3
=============================================================================
