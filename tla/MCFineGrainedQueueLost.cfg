CONSTANTS
  Thread = {t1, t2, t3}
  Node = {n1, n2, n3, n4}
  Value = {v1}
  NoThread = NoThread
  NoNode = NoNode
  NoValue = NoValue
  MaxCalls = 1
SPECIFICATION LiveSpec
CHECK_DEADLOCK FALSE
PROPERTY WaitersServed
