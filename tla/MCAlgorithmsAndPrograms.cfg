\* Every program of SmallPrograms as the files write it, except that the queue of the
\* release sequence has 3 of its 20 items, and that its consumers and gui_thread stop at a
\* bound.
CONSTANTS
    Elem = {e1, e2, e3}
    Key <- MCKey
    Hardware <- MCHardware
    Helper = {h1, h2, h3}
    Main = main
    MaxLength = 9
    PerThread = 2
    Processors <- MCProcessors
SPECIFICATION EverySpec
INVARIANTS SortsInput SumIsWhole EndsAlone AssertionsHold RaceFree OnceOnly
PROPERTIES CallsEnd EveryThreadEnds
\* A program stops when its threads have ended.
CHECK_DEADLOCK FALSE
