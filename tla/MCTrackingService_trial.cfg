CONSTANTS
  r1 = r1
  r2 = r2
  r3 = r3
  r4 = r4
  a = a
  b = b
  Requests <- ThreeRequests
  Refs <- OneRef
  MaxVersion = 1
  MaxTime = 2
  HasFallback = FALSE
  Threshold = 1
  Cooldown = 1
  MaxSize = 1
  TTL = 1
SYMMETRY Symmetry
SPECIFICATION Spec
INVARIANTS
  OneTrial
CHECK_DEADLOCK FALSE
