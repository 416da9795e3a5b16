CONSTANTS
  k1 = k1
  k2 = k2
  k3 = k3
  v1 = v1
  v2 = v2
  Nothing = Nothing
  Keys <- ThreeKeys
  Values <- TwoValues
  MaxSize = 2
  TTL = 2
  MaxTime = 4
SYMMETRY KeySymmetry
SPECIFICATION Spec
INVARIANTS
  TypeOK
  Bounded
  RecentKept
PROPERTIES
  ImplementsMap
CHECK_DEADLOCK FALSE
