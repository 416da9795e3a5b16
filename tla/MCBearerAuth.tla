---------------------------- MODULE MCBearerAuth ----------------------------
(* Small instances of BearerAuth for TLC. *)
EXTENDS BearerAuth, TLC

CONSTANTS t1, r1, r2, r3

OneToken      == {t1}
TwoRequests   == {r1, r2}
ThreeRequests == {r1, r2, r3}

LimitOne == [t \in Tokens |-> 1]
LimitTwo == [t \in Tokens |-> 2]

(* Requests are alike, and no property singles one out. *)
RequestSymmetry == Permutations(Requests)

(* The half day a request came in is of no more use once it is answered. *)
View == <<now, admin, quota, pc, cred, day, ticket, drawn, barred,
          [r \in Requests |-> IF pc[r] \in InFlight THEN arrived[r] ELSE 0]>>
=============================================================================
