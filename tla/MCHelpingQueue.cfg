CONSTANTS
  t1 = t1
  t2 = t2
  t3 = t3
  Thread = {t1, t2, t3}
  Casts <- MCProducers
  Node = {n1, n2, n3, n4}
  Value = {v1}
  NoNode = NoNode
  NoValue = NoValue
  FreshData = {NoValue}
  MaxCount = 4
SPECIFICATION Spec
SYMMETRY AllAlike
INVARIANT NoUseAfterFree
CHECK_DEADLOCK FALSE
