---------------------------- MODULE ResponseCache ----------------------------
(***************************************************************************)
(* The in-process response cache used by any caller in any order: the      *)
(* operations of TTLCache as steps, with the history needed to say what a  *)
(* least-recently-used cache may forget.                                   *)
(***************************************************************************)
EXTENDS TTLCache, FiniteSets

CONSTANTS Keys, Values, MaxTime, Nothing

ASSUME RunAssumption ==
  /\ MaxTime \in Nat
  /\ Nothing \notin [since : Nat, value : Values] \cup [key : Keys, value : Values]

VARIABLES
  reply,   \* what the latest get answered, Nothing for a miss
  latest,  \* history: the latest set of each key
  since    \* history: the other keys used since each key was last used

vars == <<now, data, reply, latest, since>>

Entries == [key : Keys, expires : 0..(MaxTime + TTL), value : Values]

TypeOK ==
  /\ now \in 0..MaxTime
  /\ data \in Seq(Entries)
  /\ reply \in [key : Keys, value : Values] \cup {Nothing}
  /\ latest \in [Keys -> [since : 0..MaxTime, value : Values] \cup {Nothing}]
  /\ since \in [Keys -> SUBSET Keys]

Init ==
  /\ now = 0
  /\ data = <<>>
  /\ reply = Nothing
  /\ latest = [k \in Keys |-> Nothing]
  /\ since = [k \in Keys |-> {}]

Using(k) == since' = [j \in Keys |-> IF j = k THEN {} ELSE since[j] \cup {k}]

Get(k) ==
  /\ data' = AfterGet(k)
  /\ reply' = IF Hit(k) THEN [key |-> k, value |-> EntryOf(k).value] ELSE Nothing
  /\ IF Hit(k) THEN Using(k) ELSE UNCHANGED since
  /\ UNCHANGED <<now, latest>>

Set(k, v) ==
  /\ data' = AfterSet(k, v)
  /\ reply' = Nothing
  /\ latest' = [latest EXCEPT ![k] = [since |-> now, value |-> v]]
  /\ Using(k)
  /\ UNCHANGED now

Tick ==
  /\ now < MaxTime
  /\ now' = now + 1
  /\ UNCHANGED <<data, reply, latest, since>>

Next == (\E k \in Keys : Get(k) \/ \E v \in Values : Set(k, v)) \/ Tick

Spec == Init /\ [][Next]_vars

-----------------------------------------------------------------------------
(* The dictionary never exceeds its bound and holds a key once, whatever
   mixture of hits, expiries and overwrites came before.                   *)
Bounded ==
  /\ Len(data) <= MaxSize
  /\ \A i, j \in DOMAIN data : data[i].key = data[j].key => i = j

(* Eviction is least recently used: a key set less than TTL ago is missing
   only when at least MaxSize other keys were set or hit since it was.     *)
RecentKept ==
  \A k \in Keys :
    latest[k] # Nothing /\ now < latest[k].since + TTL /\ ~Holds(k)
      => MaxSize <= Cardinality(since[k])

Stored == [k \in Keys |-> IF Holds(k) THEN latest[k] ELSE Nothing]

Map == INSTANCE ExpiringMap WITH stored <- Stored

(* Every behaviour of the cache is one the expiring map allows: a hit is the
   latest value set for that key, less than TTL old.                       *)
ImplementsMap == Map!Spec
=============================================================================
