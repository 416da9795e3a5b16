------------------------------ MODULE TTLCache ------------------------------
(***************************************************************************)
(* shared/cache.py: a bounded in-process cache.  The OrderedDict is the    *)
(* sequence of its entries, least recently used first.                     *)
(***************************************************************************)
EXTENDS Integers, Sequences

CONSTANTS MaxSize, TTL

ASSUME CacheAssumption == MaxSize \in Nat /\ TTL \in Nat

VARIABLES now,  \* time.monotonic()
          data  \* _data

Holds(k) == \E i \in DOMAIN data : data[i].key = k
PlaceOf(k) == CHOOSE i \in DOMAIN data : data[i].key = k
EntryOf(k) == data[PlaceOf(k)]

Without(k) ==
  IF Holds(k) THEN SubSeq(data, 1, PlaceOf(k) - 1) \o SubSeq(data, PlaceOf(k) + 1, Len(data))
  ELSE data

FaultyHit(k) == Holds(k)
Hit(k) == Holds(k) /\ now < EntryOf(k).expires

(* A hit moves to the recent end; an expired entry is dropped.             *)
AfterGet(k) == IF Hit(k) THEN Append(Without(k), EntryOf(k)) ELSE Without(k)

(* Entries that expired unread are not looked for: they take room until
   they are the least recently used.                                       *)
FaultyTrim(s) == SubSeq(s, 1, IF Len(s) > MaxSize THEN MaxSize ELSE Len(s))
Trim(s) == IF Len(s) > MaxSize THEN SubSeq(s, Len(s) - MaxSize + 1, Len(s)) ELSE s

FaultyAfterSet(k, v) ==
  Trim(Append(Without(k), [key |-> k, expires |-> now + TTL + TTL, value |-> v]))
EagerAfterSet(k, v) ==
  Append(Trim(Without(k)), [key |-> k, expires |-> now + TTL, value |-> v])
AfterSet(k, v) ==
  Trim(Append(Without(k), [key |-> k, expires |-> now + TTL, value |-> v]))
=============================================================================
