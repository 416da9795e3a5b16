-------------------------- MODULE MCTrackingService --------------------------
(* Small instances of TrackingService for TLC. *)
EXTENDS TrackingService, TLC

CONSTANTS r1, r2, r3, r4, a, b

TwoRequests   == {r1, r2}
ThreeRequests == {r1, r2, r3}
FourRequests  == {r1, r2, r3, r4}
OneRef  == {a}
TwoRefs == {a, b}

(* Requests are alike, and so are references. *)
Symmetry == Permutations(Requests) \cup Permutations(Refs)
=============================================================================
