CONSTANTS
  c1 = c1
  c2 = c2
  c3 = c3
  c4 = c4
  Calls <- TwoCalls
  MaxConcurrency = 1
  MaxCookie = 2
SYMMETRY CallSymmetry
SPECIFICATION Spec
INVARIANTS
  ExpiredCookieRefreshed
CHECK_DEADLOCK FALSE
