----------------------------- MODULE ExpiringMap -----------------------------
(***************************************************************************)
(* What a response cache promises: a get answers the value of the latest   *)
(* set of that key, and only while that set is less than TTL old.  It may  *)
(* forget any key at any time, so a miss is always allowed.                *)
(***************************************************************************)
EXTENDS Integers

CONSTANTS Keys, Values, TTL, MaxTime, Nothing

VARIABLES now, stored, reply

vars == <<now, stored, reply>>

Init ==
  /\ now = 0
  /\ stored = [k \in Keys |-> Nothing]
  /\ reply = Nothing

Forgotten(m) == {n \in [Keys -> {m[k] : k \in Keys} \cup {Nothing}] :
                   \A k \in Keys : n[k] \in {m[k], Nothing}}

Get(k) ==
  /\ \/ reply' = Nothing
     \/ /\ stored[k] # Nothing
        /\ now < stored[k].since + TTL
        /\ reply' = [key |-> k, value |-> stored[k].value]
  /\ stored' \in Forgotten(stored)
  /\ UNCHANGED now

Set(k, v) ==
  /\ stored' \in Forgotten([stored EXCEPT ![k] = [since |-> now, value |-> v]])
  /\ reply' = Nothing
  /\ UNCHANGED now

Tick ==
  /\ now < MaxTime
  /\ now' = now + 1
  /\ UNCHANGED <<stored, reply>>

Next == (\E k \in Keys : Get(k) \/ \E v \in Values : Set(k, v)) \/ Tick

Spec == Init /\ [][Next]_vars
=============================================================================
