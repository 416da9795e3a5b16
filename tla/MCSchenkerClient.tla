-------------------------- MODULE MCSchenkerClient --------------------------
(* Small instances of SchenkerClient for TLC. *)
EXTENDS SchenkerClient, TLC

CONSTANTS c1, c2, c3, c4

TwoCalls   == {c1, c2}
ThreeCalls == {c1, c2, c3}
FourCalls  == {c1, c2, c3, c4}

CallSymmetry == Permutations(Calls)
=============================================================================
