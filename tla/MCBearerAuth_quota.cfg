CONSTANTS
  t1 = t1
  r1 = r1
  r2 = r2
  r3 = r3
  Stranger = Stranger
  NoBearer = NoBearer
  Tokens <- OneToken
  Requests <- ThreeRequests
  Limit <- LimitTwo
  MaxSlot = 3
SYMMETRY RequestSymmetry
VIEW View
SPECIFICATION Spec
INVARIANTS
  TypeOK
  IInv
  QuotaRespected
  RemainingDistinct
  NoEarlyRefusal
  LeakOnlyByLoss
  RevocationHolds
PROPERTIES
  ImplementsGate
CHECK_DEADLOCK FALSE
