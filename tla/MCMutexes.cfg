CONSTANTS
  Thread = {t1, t2, t3}
  Mutex <- MCMutex
  Level <- MCLevel
  MaxLevel = 4
  NoThread = NoThread
  NoMutex = NoMutex
  MaxCalls = 3
  Prep = {t1}
  Value = {v1, v2}
  LastChunk = {v2}
  DefaultValue = v0
  MaxItems = 2
SPECIFICATION AnySpec
\* The threads stop after their last locks.
CHECK_DEADLOCK FALSE
INVARIANTS LocalIsLowest NoDeadlock
PROPERTIES UnlocksInOrder LocksReturn IsFifo WaitersServed
