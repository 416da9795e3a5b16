CONSTANTS
  r1 = r1
  r2 = r2
  r3 = r3
  r4 = r4
  a = a
  b = b
  Requests <- ThreeRequests
  Refs <- OneRef
  MaxVersion = 2
  MaxTime = 2
  HasFallback = TRUE
  Threshold = 2
  Cooldown = 2
  MaxSize = 2
  TTL = 2
SPECIFICATION FairSpec
INVARIANTS
  TypeOK
  FreshAnswers
  RecoveryCloses
PROPERTIES
  CacheAbsorbs
  Shielded
  ImplementsLookup
  Answered
CHECK_DEADLOCK FALSE
