CONSTANTS
  Thread = {t1, t2, t3}
  Value = {v1, v2}
  k1 = k1
  k2 = k2
  k3 = k3
  Key = {k1, k2, k3}
  NumBuckets = 2
  Hasher <- MCHasher
  Default = Default
  NoThread = NoThread
  NoKey = NoKey
  NoValue = NoValue
SPECIFICATION Spec
SYMMETRY Symmetry
INVARIANT OneEntryPerKey
PROPERTY IsMap
