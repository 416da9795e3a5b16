--------------------------- MODULE MCResponseCache ---------------------------
(* A small instance of ResponseCache for TLC. *)
EXTENDS ResponseCache, TLC

CONSTANTS k1, k2, k3, v1, v2

ThreeKeys == {k1, k2, k3}
TwoValues == {v1, v2}
KeySymmetry == Permutations(ThreeKeys) \cup Permutations(TwoValues)
=============================================================================
