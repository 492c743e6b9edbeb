CONSTANTS
  Thread = {t1, t2, t3}
  Casts <- MCCasts
  Node = {n1, n2, n3}
  Value = {v1}
  NoNode = NoNode
  NoValue = NoValue
  FreshData = {NoValue}
  MaxCount = 4
SPECIFICATION Spec
SYMMETRY Symmetry
INVARIANT TailIsClaimed
CHECK_DEADLOCK FALSE
