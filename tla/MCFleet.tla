------------------------------- MODULE MCFleet -------------------------------
(* A small instance of Fleet for TLC: an old release and a new one. *)
EXTENDS Fleet, TLC

CONSTANTS p1, p2, r1, r2, r3, a

TwoPods == {p1, p2}
TwoReleases == [p \in TwoPods |-> IF p = p1 THEN 1 ELSE 2]
TwoRequests   == {r1, r2}
ThreeRequests == {r1, r2, r3}
OneRef == {a}

(* Requests are alike; the processes are not. *)
Symmetry == Permutations(Requests)

(* How a request failed, and which version an answered one was shown, is of
   no use to what follows. *)
View ==
  <<now, world, store, ref, pod, late, gone, phase, open,
    [r \in Requests |-> IF pc[r] \in Ends \ {"shipment"} THEN "error" ELSE pc[r]],
    [r \in Requests |-> IF pc[r] = "saving" \/ r \in late THEN version[r] ELSE 0]>>
=============================================================================
