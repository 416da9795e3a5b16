CONSTANTS
  t1 = t1
  t2 = t2
  r1 = r1
  r2 = r2
  r3 = r3
  Stranger = Stranger
  NoBearer = NoBearer
  Tokens <- TwoTokens
  Requests <- ThreeRequests
  Limit <- Uneven
  MaxSlot = 2
SYMMETRY RequestSymmetry
SPECIFICATION Spec
INVARIANTS
  IInv
  MeterExact
  Countdown
  RefusalEarned
PROPERTIES
  ImplementsGate
CHECK_DEADLOCK FALSE
