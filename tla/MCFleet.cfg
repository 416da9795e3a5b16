CONSTANTS
  p1 = p1
  p2 = p2
  r1 = r1
  r2 = r2
  r3 = r3
  a = a
  Pods <- TwoPods
  Release <- TwoReleases
  Requests <- ThreeRequests
  Refs <- OneRef
  MaxVersion = 2
  MaxTime = 1
  TTL = 1
SYMMETRY Symmetry
VIEW View
SPECIFICATION Spec
INVARIANTS
  TypeOK
  LeftOpenOnlyByFailure
PROPERTIES
  OnlyTheGoneEscape
  ImplementsLookup
CHECK_DEADLOCK FALSE
