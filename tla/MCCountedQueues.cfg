CONSTANTS
  t1 = t1
  t2 = t2
  t3 = t3
  Thread = {t1, t2, t3}
  Casts <- MCCasts
  Node = {n1, n2, n3, n4}
  Value = {v1, v2}
  NoNode = NoNode
  NoValue = NoValue
  FreshData = {NoValue, Leftover}
  MaxCount = 4
SPECIFICATION BothSpec
SYMMETRY Symmetry
INVARIANTS TypeOK NoUseAfterFree CountsBalance NoLeak TailIsClaimed HelpLeavesNoTrace
PROPERTY IsFifo
CHECK_DEADLOCK FALSE
