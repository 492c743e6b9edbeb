CONSTANTS
  Thread = {t1, t2, t3}
  Node = {n1, n2, n3}
  Value = {v1, v2}
  NoNode = NoNode
  NoValue = NoValue
  NoThread = NoThread
  Outsider = Outsider
  MaxHazard = 3
  Elsewhere = {1}
SPECIFICATION AnySpec
SYMMETRY Symmetry
INVARIANTS TypesOK NoUseAfterDelete NoLostNodes
PROPERTY AreLifo
\* The stack that counts stops when a pop of the empty stack has written through nullptr.
CHECK_DEADLOCK FALSE
