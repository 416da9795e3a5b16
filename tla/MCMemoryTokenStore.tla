------------------------ MODULE MCMemoryTokenStore ------------------------
(* A small instance of MemoryTokenStore for TLC. *)
EXTENDS MemoryTokenStore, TLC

CONSTANTS t1, t2, r1, r2, r3

TwoTokens     == {t1, t2}
ThreeRequests == {r1, r2, r3}

Uneven == [t \in Tokens |-> IF t = t1 THEN 2 ELSE 1]

RequestSymmetry == Permutations(Requests)
=============================================================================
