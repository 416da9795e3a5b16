CONSTANTS
  t1 = t1
  r1 = r1
  r2 = r2
  r3 = r3
  Stranger = Stranger
  NoBearer = NoBearer
  Tokens <- OneToken
  Requests <- TwoRequests
  Limit <- LimitOne
  MaxSlot = 2
SYMMETRY RequestSymmetry
SPECIFICATION Spec
INVARIANTS
  StoreFailureIsClean
CHECK_DEADLOCK FALSE
