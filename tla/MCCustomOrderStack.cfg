CONSTANTS
  Thread = {t1, t2, t3}
  Node = {n1, n2}
  Value = {v1, v2}
  NoNode = NoNode
  NoValue = NoValue
  MaxCount = 3
SPECIFICATION OrderedSpec
SYMMETRY Symmetry
INVARIANTS NoUseAfterFree NoLeak NodesAreVisible SwapBeforeDelete
PROPERTY IsLifo
CHECK_DEADLOCK FALSE
