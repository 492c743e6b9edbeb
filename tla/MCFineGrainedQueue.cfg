CONSTANTS
  Thread = {t1, t2, t3}
  Node = {n1,n2,n3,n4,n5}
  Value = {v1, v2}
  NoThread = NoThread
  NoNode = NoNode
  NoValue = NoValue
SPECIFICATION Spec
SYMMETRY Symmetry
INVARIANTS ListIntact PoppedHasData NothingLost
PROPERTY IsFifo
