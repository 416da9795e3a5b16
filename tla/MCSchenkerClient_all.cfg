CONSTANTS
  c1 = c1
  c2 = c2
  c3 = c3
  c4 = c4
  Calls <- FourCalls
  MaxConcurrency = 2
  MaxCookie = 2
SPECIFICATION FairSpec
INVARIANTS
  TypeOK
  LoadBounded
  NothingLeaks
  PrimedOnce
PROPERTIES
  Completed
CHECK_DEADLOCK FALSE
