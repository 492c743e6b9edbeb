CONSTANTS
  Thread = {t1, t2, t3}
  Node = {n1, n2}
  Value = {v1, v2}
  NoNode = NoNode
  NoValue = NoValue
  MaxCount = 3
SPECIFICATION OrderedSpec
SYMMETRY Symmetry
INVARIANT ReadsBeforeDelete
CHECK_DEADLOCK FALSE
