---------------------------- MODULE ShipmentLookup ----------------------------
(***************************************************************************)
(* What get_shipment promises, whichever cache is behind it: a shipment    *)
(* shown to a caller was read from upstream while that caller was waiting, *)
(* or is a copy that some caller's request read and put on a shelf less    *)
(* than TTL before.  Copies may be shelved late, twice or never, and       *)
(* forgotten at any time; a request may always fail.                       *)
(***************************************************************************)
EXTENDS Integers

CONSTANTS Requests, Refs, MaxVersion, MaxTime, TTL

VARIABLES
  now,
  world,    \* upstream's version of each shipment, 0 when it has none
  ref,      \* the reference each request asks for
  stage,    \* how far each request is
  version,  \* the version it holds or has shown
  shelf     \* the copies made, with the time of making

vars == <<now, world, ref, stage, version, shelf>>

Stages == {"idle", "asking", "holding", "shown", "failed"}

Init ==
  /\ now = 0
  /\ world \in [Refs -> 0..MaxVersion]
  /\ ref \in [Requests -> Refs]
  /\ stage = [r \in Requests |-> "idle"]
  /\ version = [r \in Requests |-> 0]
  /\ shelf = {}

To(r, s, v) ==
  /\ stage' = [stage EXCEPT ![r] = s]
  /\ version' = [version EXCEPT ![r] = v]
  /\ UNCHANGED <<now, world, ref>>

Copy(r) == [ref |-> ref[r], version |-> version[r], since |-> now]

(* A copy may push others off the shelf.                                    *)
Put(r) == shelf' \subseteq shelf \cup {Copy(r)}

Ask(r) == stage[r] = "idle" /\ To(r, "asking", 0) /\ UNCHANGED shelf

Read(r) ==
  /\ stage[r] = "asking" /\ world[ref[r]] > 0
  /\ To(r, "holding", world[ref[r]])
  /\ UNCHANGED shelf

(* What was read turned out unusable; it may be read again another way.     *)
Lose(r) == stage[r] = "holding" /\ To(r, "asking", 0) /\ UNCHANGED shelf

Show(r) ==
  /\ stage[r] = "holding"
  /\ To(r, "shown", version[r])
  /\ Put(r)

Shelve(r) ==
  /\ stage[r] \in {"holding", "shown"}
  /\ Put(r)
  /\ UNCHANGED <<now, world, ref, stage, version>>

Reuse(r) ==
  /\ stage[r] \in {"idle", "asking"}
  /\ \E c \in shelf :
       /\ c.ref = ref[r] /\ now < c.since + TTL
       /\ To(r, "shown", c.version)
  /\ UNCHANGED shelf

(* Requests fail, several at once when their process dies.                  *)
Fail(R) ==
  /\ \A r \in R : stage[r] \in {"idle", "asking", "holding"}
  /\ stage' = [r \in Requests |-> IF r \in R THEN "failed" ELSE stage[r]]
  /\ version' = [r \in Requests |-> IF r \in R THEN 0 ELSE version[r]]
  /\ UNCHANGED <<now, world, ref, shelf>>

Publish(k) ==
  /\ world[k] < MaxVersion
  /\ world' = [world EXCEPT ![k] = @ + 1]
  /\ UNCHANGED <<now, ref, stage, version, shelf>>

Tick ==
  /\ now < MaxTime
  /\ now' = now + 1
  /\ UNCHANGED <<world, ref, stage, version, shelf>>

Next ==
  \/ \E r \in Requests : Ask(r) \/ Read(r) \/ Lose(r) \/ Show(r) \/ Shelve(r) \/ Reuse(r)
  \/ \E R \in SUBSET Requests : Fail(R)
  \/ \E k \in Refs : Publish(k)
  \/ Tick

Spec == Init /\ [][Next]_vars
=============================================================================
