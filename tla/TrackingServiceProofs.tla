------------------------ MODULE TrackingServiceProofs ------------------------
(***************************************************************************)
(* Proofs about TrackingService for any number of requests and references, *)
(* any threshold, cooldown and cache size, and any run length.             *)
(***************************************************************************)
EXTENDS TrackingService, SequenceLemmas, FiniteSetTheorems

USE TrackingAssumption

(* The count is the number of failures since the primary last answered.     *)
CountIsStreak == failures = streak /\ Breaker!Consistent

(* The breaker's variables have their types, and its count is the streak.   *)
BreakerInv ==
  /\ now \in Nat
  /\ failures \in Nat
  /\ openedAt \in Nat \cup {Breaker!Never}
  /\ pc \in [Requests -> {"idle"} \cup OnPrimary \cup OnFallback \cup Outcomes]
  /\ CountIsStreak

(* A step that leaves the breaker and the history of its count alone.        *)
Untouched ==
  /\ UNCHANGED <<breaker, streak>>
  /\ now' \in Nat
  /\ pc' \in [Requests -> {"idle"} \cup OnPrimary \cup OnFallback \cup Outcomes]

(* Such a step keeps the invariant.                                         *)
LEMMA BreakerUntouched == BreakerInv /\ Untouched => BreakerInv'
BY DEF BreakerInv, Untouched, breaker, CountIsStreak, Breaker!Consistent, Breaker!Tripped,
       Breaker!Never

(* The inductive invariant of the service's breaker: only three steps touch
   it, and each moves the history of the upstream's health along with it.   *)
LEMMA BreakerInvariant == Spec => []BreakerInv
<1> USE DEF BreakerInv, Goto, Finish, Deliver, FallbackOrFail, OnPrimary, OnFallback, Outcomes
<1>1. ASSUME BreakerInv, NEW r \in Requests, NotFound(r) \/ Land(r)
      PROVE  BreakerInv'
  BY <1>1 DEF NotFound, Land, PrimaryAnswered, Breaker!RecordSuccess, CountIsStreak,
       Breaker!Consistent, Breaker!Tripped, Breaker!Never
<1>2. ASSUME BreakerInv, NEW r \in Requests, PrimaryFails(r)
      PROVE  BreakerInv'
  BY <1>2 DEF PrimaryFails, Breaker!RecordFailure, CountIsStreak,
       Breaker!Consistent, Breaker!Tripped, Breaker!Never
<1>3. ASSUME BreakerInv, NEW r \in Requests,
             \/ Start(r) \/ Resolve(r) \/ ReadDetail(r) \/ Escape(r)
             \/ Scrape(r) \/ LandScrape(r) \/ ScrapeFails(r)
      PROVE  Untouched
  BY <1>3 DEF Untouched, breaker, Start, Resolve, ReadDetail, Escape, Scrape, LandScrape, ScrapeFails
<1>4. BreakerInv /\ (Tick \/ (\E k \in Refs : Publish(k)) \/ UNCHANGED vars) => Untouched
  BY DEF Untouched, breaker, Tick, Publish, vars
<1>5. BreakerInv /\ [Next]_vars => BreakerInv'
  <2>1. ASSUME BreakerInv, NEW r \in Requests, Start(r) \/ Progress(r) \/ Escape(r)
        PROVE  BreakerInv'
    BY <1>1, <1>2, <1>3, <2>1, BreakerUntouched DEF Progress
  <2> QED
    BY <1>4, <2>1, BreakerUntouched DEF Next
<1> QED
  <2>1. Init => BreakerInv
    BY DEF Init, Breaker!BreakerInit, CountIsStreak, Breaker!Consistent, Breaker!Tripped,
         Breaker!Never
  <2> QED
    BY <1>5, <2>1, PTL DEF Spec

(* No request goes to the primary during the cooldown of a tripped breaker. *)
THEOREM PrimaryIsShielded == Spec => Shielded
<1>1. BreakerInv /\ [Next]_vars =>
        [\A r \in Requests :
           pc[r] = "idle" /\ pc'[r] = "resolving" =>
             streak < Threshold \/ now >= openedAt + Cooldown]_vars
  <2> SUFFICES ASSUME BreakerInv, Next, NEW r \in Requests,
                      pc[r] = "idle", pc'[r] = "resolving"
               PROVE  streak < Threshold \/ now >= openedAt + Cooldown
    BY DEF vars
  <2> USE DEF BreakerInv, Goto, Finish, Deliver, FallbackOrFail, OnPrimary, OnFallback, Outcomes
  <2>1. ASSUME NEW s \in Requests, Start(s)
        PROVE  ~Breaker!Open
    BY <2>1 DEF Start
  <2>2. ASSUME NEW s \in Requests, Progress(s) \/ Escape(s)
        PROVE  FALSE
    BY <2>2 DEF Progress, Resolve, ReadDetail, NotFound, Land, PrimaryFails, Escape, Scrape,
                LandScrape, ScrapeFails
  <2>3. ~Breaker!Open
    BY <2>1, <2>2 DEF Next, Publish, Tick
  <2> QED
    BY <2>3 DEF Breaker!Open, Breaker!State, Breaker!Tripped, Breaker!CooledDown,
                CountIsStreak, Breaker!Consistent
<1>2. QED
  BY <1>1, BreakerInvariant, PTL DEF Spec, Shielded

-----------------------------------------------------------------------------
(* The cache keeps, moves and drops entries; only set adds one.              *)
LEMMA WithoutKeeps ==
  ASSUME NEW S, data \in Seq(S), NEW STATE k
  PROVE  /\ Cache!Without(k) \in Seq(S)
         /\ \A j \in DOMAIN Cache!Without(k) : \E i \in DOMAIN data : Cache!Without(k)[j] = data[i]
<1>1. CASE Cache!Holds(k)
  <2> DEFINE p == Cache!PlaceOf(k)
  <2>1. p \in 1..Len(data)
    BY <1>1 DEF Cache!Holds, Cache!PlaceOf
  <2>2. Cache!Without(k) = Drop(data, p)
    BY <1>1 DEF Cache!Without, Drop
  <2> HIDE DEF p
  <2>3. /\ Drop(data, p) \in Seq(S) /\ Len(Drop(data, p)) = Len(data) - 1
        /\ \A j \in 1..(p - 1) : Drop(data, p)[j] = data[j]
        /\ \A j \in p..(Len(data) - 1) : Drop(data, p)[j] = data[j + 1]
    BY <2>1, DropElements
  <2> DEFINE d == Drop(data, p)
  <2>4. d \in Seq(S) /\ Len(d) = Len(data) - 1 /\ Cache!Without(k) = d
    BY <2>2, <2>3
  <2>5. \A j \in 1..(Len(data) - 1) : d[j] = data[IF j < p THEN j ELSE j + 1]
    BY <2>1, <2>3
  <2> HIDE DEF d
  <2>6. ASSUME NEW j \in DOMAIN d
        PROVE  \E i \in DOMAIN data : d[j] = data[i]
    <3>1. j \in 1..(Len(data) - 1)
      BY <2>4
    <3>2. (IF j < p THEN j ELSE j + 1) \in DOMAIN data
      BY <2>1, <3>1
    <3> QED
      BY <2>5, <3>1, <3>2
  <2> QED
    BY <2>4, <2>6
<1>2. CASE ~Cache!Holds(k)
  BY <1>2 DEF Cache!Without
<1> QED
  BY <1>1, <1>2

(* A read adds nothing either.                                              *)
LEMMA GetKeeps ==
  ASSUME NEW S, data \in Seq(S), NEW STATE k
  PROVE  /\ Cache!AfterGet(k) \in Seq(S)
         /\ \A j \in DOMAIN Cache!AfterGet(k) : \E i \in DOMAIN data : Cache!AfterGet(k)[j] = data[i]
<1> DEFINE w == Cache!Without(k)
<1>1. w \in Seq(S) /\ \A j \in DOMAIN w : \E i \in DOMAIN data : w[j] = data[i]
  BY WithoutKeeps
<1> HIDE DEF w
<1>2. CASE Cache!Hit(k)
  <2>1. Cache!PlaceOf(k) \in DOMAIN data
    BY <1>2 DEF Cache!Hit, Cache!Holds, Cache!PlaceOf
  <2>2. Cache!EntryOf(k) \in S
    BY <2>1 DEF Cache!EntryOf
  <2>3. Cache!AfterGet(k) = Append(w, Cache!EntryOf(k))
    BY <1>2 DEF Cache!AfterGet, w
  <2>4. Cache!EntryOf(k) = data[Cache!PlaceOf(k)]
    BY DEF Cache!EntryOf
  <2> DEFINE e == Cache!EntryOf(k)
  <2> HIDE DEF e
  <2>5. \A j \in DOMAIN Append(w, e) : (j \in DOMAIN w /\ Append(w, e)[j] = w[j]) \/ Append(w, e)[j] = e
    BY <1>1, <2>2 DEF e
  <2>6. \E i \in DOMAIN data : e = data[i]
    BY <2>1, <2>4 DEF e
  <2>7. Append(w, e) \in Seq(S)
    BY <1>1, <2>2 DEF e
  <2> QED
    BY <1>1, <2>3, <2>5, <2>6, <2>7 DEF e
<1>3. CASE ~Cache!Hit(k)
  BY <1>1, <1>3 DEF Cache!AfterGet, w
<1> QED
  BY <1>2, <1>3

(* The only new entry a write adds is the one it is called with.            *)
LEMMA SetKeeps ==
  ASSUME NEW S, data \in Seq(S), NEW STATE k, NEW STATE v,
         [key |-> k, expires |-> now + TTL, value |-> v] \in S
  PROVE  /\ Cache!AfterSet(k, v) \in Seq(S)
         /\ \A j \in DOMAIN Cache!AfterSet(k, v) :
              \/ \E i \in DOMAIN data : Cache!AfterSet(k, v)[j] = data[i]
              \/ Cache!AfterSet(k, v)[j] = [key |-> k, expires |-> now + TTL, value |-> v]
<1> DEFINE w == Cache!Without(k)
           e == [key |-> k, expires |-> now + TTL, value |-> v]
           a == Append(w, e)
<1>1. w \in Seq(S) /\ \A j \in DOMAIN w : \E i \in DOMAIN data : w[j] = data[i]
  BY WithoutKeeps
<1>2. Cache!AfterSet(k, v) = Cache!Trim(a)
  BY DEF Cache!AfterSet
<1> HIDE DEF w, e
<1>3. a \in Seq(S) /\ \A j \in DOMAIN a : (\E i \in DOMAIN data : a[j] = data[i]) \/ a[j] = e
  BY <1>1 DEF e
<1> HIDE DEF a
<1>4. CASE Len(a) > MaxSize
  <2> DEFINE t == SubSeq(a, Len(a) - MaxSize + 1, Len(a))
  <2>1. Cache!AfterSet(k, v) = t
    BY <1>2, <1>4 DEF Cache!Trim
  <2>2. t \in Seq(S) /\ Len(t) = MaxSize
        /\ \A j \in 1..MaxSize : t[j] = a[j + (Len(a) - MaxSize)]
    BY <1>3, <1>4, LastElements
  <2> HIDE DEF t
  <2>3. \A j \in 1..MaxSize : j + (Len(a) - MaxSize) \in DOMAIN a
    BY <1>3, <1>4
  <2>4. DOMAIN t = 1..MaxSize
    BY <2>2
  <2> QED
    <3>1. ASSUME NEW j \in DOMAIN t
          PROVE  (\E i \in DOMAIN data : t[j] = data[i]) \/ t[j] = e
      <4>1. j + (Len(a) - MaxSize) \in DOMAIN a /\ t[j] = a[j + (Len(a) - MaxSize)]
        BY <2>2, <2>3, <2>4
      <4> QED
        BY <1>3, <4>1
    <3> QED
      BY <2>1, <2>2, <3>1 DEF e
<1>5. CASE ~(Len(a) > MaxSize)
  BY <1>2, <1>3, <1>5 DEF Cache!Trim, e
<1> QED
  BY <1>4, <1>5

-----------------------------------------------------------------------------
(* Lookups *)

Entry == [key : Refs, expires : Nat, value : Nat]

LookupTypes ==
  /\ now \in Nat
  /\ data \in Seq(Entry)
  /\ world \in [Refs -> Nat]
  /\ pc \in [Requests -> {"idle"} \cup OnPrimary \cup OnFallback \cup Outcomes]
  /\ ref \in [Requests -> Refs]
  /\ version \in [Requests -> Nat]
  /\ via \in [Requests -> {Nowhere, "cache", "json", "html"}]
  /\ ended \in [Requests -> Nat]

(* The fetch that a cache entry is a copy of.                                *)
Made(s, e) ==
  /\ Fetched(s) /\ ref[s] = e.key /\ version[s] = e.value
  /\ ended[s] + TTL = e.expires /\ ended[s] <= now

(* Every entry of the cache is the copy of a fetch that has ended, with its
   life counted from that end.                                              *)
Backed == \A i \in DOMAIN data : \E s \in Requests : Made(s, data[i])

Located == \A r \in Requests : pc[r] = "detail" => world[ref[r]] > 0

LookupInv == LookupTypes /\ Backed /\ Located /\ FreshAnswers

(* A step leaves the requests that have been answered alone.                *)
Settled ==
  /\ ref' = ref /\ now' >= now
  /\ \A q \in Requests : pc[q] = "shipment" =>
       pc'[q] = "shipment" /\ via'[q] = via[q] /\ version'[q] = version[q] /\ ended'[q] = ended[q]

(* Entries stay backed while answers stay as they are and new entries are
   backed.                                                                  *)
LEMMA BackedKept ==
  ASSUME LookupTypes, LookupTypes', Settled, Backed,
         \A j \in DOMAIN data' : \/ \E i \in DOMAIN data : data'[j] = data[i]
                                \/ \E s \in Requests : Made(s, data[j])'
  PROVE  Backed'
<1> SUFFICES ASSUME NEW j \in DOMAIN data'
             PROVE  \E s \in Requests : Made(s, data[j])'
  BY DEF Backed
<1> SUFFICES ASSUME NEW i \in DOMAIN data, data'[j] = data[i]
             PROVE  \E s \in Requests : Made(s, data[j])'
  OBVIOUS
<1>2. PICK s \in Requests : Made(s, data[i])
  BY DEF Backed
<1>3. Made(s, data[i]) => Made(s, data[j])'
  BY DEF Made, Fetched, Settled, LookupTypes
<1> QED
  BY <1>2, <1>3

(* A step that answers nobody from the cache cannot spoil freshness.        *)
LEMMA FreshKept ==
  ASSUME LookupTypes, LookupTypes', Settled, FreshAnswers,
         \A r \in Requests : pc'[r] = "shipment" /\ via'[r] = "cache" =>
                               pc[r] = "shipment" /\ via[r] = "cache"
  PROVE  FreshAnswers'
<1> SUFFICES ASSUME NEW r \in Requests, pc'[r] = "shipment" /\ via'[r] = "cache"
             PROVE  \E s \in Requests :
                      /\ Fetched(s)' /\ ref'[s] = ref'[r] /\ version'[s] = version'[r]
                      /\ ended'[s] <= ended'[r] /\ ended'[r] < ended'[s] + TTL
  BY DEF FreshAnswers
<1>1. pc[r] = "shipment" /\ via[r] = "cache"
  OBVIOUS
<1>2. PICK s \in Requests :
         /\ Fetched(s) /\ ref[s] = ref[r] /\ version[s] = version[r]
         /\ ended[s] <= ended[r] /\ ended[r] < ended[s] + TTL
  BY <1>1 DEF FreshAnswers
<1>3. /\ Fetched(s)' /\ ref'[s] = ref'[r] /\ version'[s] = version'[r]
      /\ ended'[s] = ended[s] /\ ended'[r] = ended[r]
  BY <1>1, <1>2 DEF Settled, Fetched
<1> QED
  BY <1>2, <1>3

(* A hit finds its fetch behind the entry it returns; a miss answers nobody. *)
LEMMA LookupStart ==
  ASSUME LookupInv, NEW r \in Requests, Start(r)
  PROVE  LookupInv'
<1> USE DEF LookupInv
<1>1. /\ data' \in Seq(Entry)
      /\ \A j \in DOMAIN data' : \E i \in DOMAIN data : data'[j] = data[i]
  <2>1. data' = Cache!AfterGet(ref[r]) /\ data \in Seq(Entry)
    BY DEF Start, LookupTypes
  <2> QED
    BY <2>1, GetKeeps
<1>2. CASE Cache!Hit(ref[r])
  <2> DEFINE e == Cache!EntryOf(ref[r])
  <2>1. Cache!PlaceOf(ref[r]) \in DOMAIN data /\ e = data[Cache!PlaceOf(ref[r])]
        /\ e.key = ref[r] /\ now < e.expires
    BY <1>2 DEF Cache!Hit, Cache!Holds, Cache!PlaceOf, Cache!EntryOf
  <2>2. e \in Entry
    BY <2>1 DEF LookupTypes
  <2>3. PICK s \in Requests : Made(s, e)
    BY <2>1 DEF Backed
  <2>4. /\ pc[r] = "idle"
        /\ pc' = [pc EXCEPT ![r] = "shipment"]
        /\ version' = [version EXCEPT ![r] = e.value]
        /\ via' = [via EXCEPT ![r] = "cache"]
        /\ ended' = [ended EXCEPT ![r] = now]
        /\ UNCHANGED <<now, world, ref>>
    BY <1>2 DEF Start, Finish, Goto
  <2> HIDE DEF e
  <2>5. e.value \in Nat
    BY <2>2 DEF Entry
  <2>6. LookupTypes'
    BY <1>1, <2>4, <2>5 DEF LookupTypes, OnPrimary, OnFallback, Outcomes
  <2>7. Settled
    BY <2>4 DEF Settled, LookupTypes
  <2>8. Backed'
    BY <1>1, <2>6, <2>7, BackedKept
  <2>9. Located'
    BY <2>4 DEF Located, LookupTypes
  <2>10. FreshAnswers'
    <3>1. ASSUME NEW q \in Requests, q # r, pc'[q] = "shipment", via'[q] = "cache"
          PROVE  pc[q] = "shipment" /\ via[q] = "cache" /\ version'[q] = version[q] /\ ended'[q] = ended[q]
      BY <2>4, <3>1 DEF LookupTypes
    <3>2. s # r /\ Fetched(s)' /\ version'[s] = version[s] /\ ended'[s] = ended[s] /\ ref' = ref
      BY <2>3, <2>4 DEF Made, Fetched, LookupTypes
    <3>3. version'[r] = e.value /\ ended'[r] = now
      BY <2>4 DEF LookupTypes
    <3>4. /\ ref[s] = ref[r] /\ version'[s] = version'[r]
          /\ ended'[s] <= ended'[r] /\ ended'[r] < ended'[s] + TTL
      BY <2>1, <2>3, <3>2, <3>3 DEF Made
    <3>5. ASSUME NEW q \in Requests, q # r, pc'[q] = "shipment", via'[q] = "cache"
          PROVE  \E t \in Requests :
                   /\ Fetched(t)' /\ ref'[t] = ref'[q] /\ version'[t] = version'[q]
                   /\ ended'[t] <= ended'[q] /\ ended'[q] < ended'[t] + TTL
      <4>1. PICK t \in Requests :
               /\ Fetched(t) /\ ref[t] = ref[q] /\ version[t] = version[q]
               /\ ended[t] <= ended[q] /\ ended[q] < ended[t] + TTL
        BY <3>1, <3>5 DEF FreshAnswers
      <4>2. Fetched(t)' /\ version'[t] = version[t] /\ ended'[t] = ended[t]
        BY <2>7, <4>1 DEF Settled, Fetched
      <4> QED
        BY <3>1, <3>2, <3>5, <4>1, <4>2
    <3> QED
      BY <3>2, <3>4, <3>5 DEF FreshAnswers
  <2> QED
    BY <2>6, <2>8, <2>9, <2>10
<1>3. CASE ~Cache!Hit(ref[r])
  <2>1. /\ pc[r] = "idle"
        /\ \E p \in {"resolving", "scraping", "unavailable"} : pc' = [pc EXCEPT ![r] = p]
        /\ UNCHANGED <<now, world, ref, version, via, ended>>
    BY <1>3 DEF Start, FallbackOrFail, Goto, answer
  <2>2. LookupTypes'
    BY <1>1, <2>1 DEF LookupTypes, OnPrimary, OnFallback, Outcomes
  <2>3. Settled /\ \A q \in Requests : pc'[q] = "shipment" => pc[q] = "shipment"
    BY <2>1 DEF Settled, LookupTypes
  <2>4. Backed' /\ FreshAnswers'
    BY <1>1, <2>1, <2>2, <2>3, BackedKept, FreshKept
  <2>5. Located'
    BY <2>1 DEF Located, LookupTypes
  <2> QED
    BY <2>2, <2>4, <2>5
<1> QED
  BY <1>2, <1>3

(* An answer that is delivered backs the entry it puts in the cache.        *)
LEMMA LookupDeliver ==
  ASSUME LookupInv, NEW r \in Requests, Land(r) \/ LandScrape(r)
  PROVE  LookupInv'
<1> USE DEF LookupInv
<1> DEFINE new == [key |-> ref[r], expires |-> now + TTL, value |-> version[r]]
<1>1. new \in Entry
  BY TrackingAssumption DEF LookupTypes, Entry
<1>2. /\ data' \in Seq(Entry)
      /\ \A j \in DOMAIN data' : (\E i \in DOMAIN data : data'[j] = data[i]) \/ data'[j] = new
  <2>1. data' = Cache!AfterSet(ref[r], version[r]) /\ data \in Seq(Entry)
    BY DEF Land, LandScrape, Deliver, LookupTypes
  <2> QED
    BY <1>1, <2>1, SetKeeps
<1>3. PICK w \in {"json", "html"} :
        /\ pc[r] \in {"landing", "scraped"}
        /\ pc' = [pc EXCEPT ![r] = "shipment"]
        /\ via' = [via EXCEPT ![r] = w]
        /\ ended' = [ended EXCEPT ![r] = now]
        /\ UNCHANGED <<now, world, ref, version>>
  BY DEF Land, LandScrape, Deliver, Finish, Goto
<1> HIDE DEF new
<1>4. LookupTypes'
  BY <1>2, <1>3 DEF LookupTypes, OnPrimary, OnFallback, Outcomes
<1>5. Settled
  BY <1>3 DEF Settled, LookupTypes
<1>6. /\ Fetched(r)' /\ ref'[r] = new.key /\ version'[r] = new.value
      /\ ended'[r] + TTL = new.expires /\ ended'[r] <= now'
  BY <1>3 DEF Fetched, new, LookupTypes
<1>7. Backed'
  <2>1. ASSUME NEW j \in DOMAIN data', data'[j] = new
        PROVE  Made(r, data[j])'
    BY <1>6, <2>1 DEF Made
  <2> QED
    BY <1>2, <1>4, <1>5, <2>1, BackedKept
<1>8. \A q \in Requests : pc'[q] = "shipment" /\ via'[q] = "cache" =>
                            pc[q] = "shipment" /\ via[q] = "cache"
  BY <1>3 DEF LookupTypes
<1>9. FreshAnswers'
  BY <1>4, <1>5, <1>8, FreshKept
<1>10. Located'
  BY <1>3 DEF Located, LookupTypes
<1> QED
  BY <1>4, <1>7, <1>9, <1>10

(* Everything between asking and answering leaves cache and answers alone.  *)
LEMMA LookupUpstream ==
  ASSUME LookupInv, NEW r \in Requests,
         Resolve(r) \/ ReadDetail(r) \/ NotFound(r) \/ PrimaryFails(r) \/ Escape(r)
           \/ Scrape(r) \/ ScrapeFails(r)
  PROVE  LookupInv'
<1> USE DEF LookupInv
<1>1. /\ pc[r] \in OnPrimary \cup OnFallback
      /\ \E p \in OnPrimary \cup OnFallback \cup {"not_found", "unavailable", "escaped"} :
           /\ pc' = [pc EXCEPT ![r] = p]
           /\ p = "detail" => world[ref[r]] > 0
      /\ UNCHANGED <<now, data, world, ref, via, ended>>
  BY DEF Resolve, ReadDetail, NotFound, PrimaryFails, FallbackOrFail, Escape, Scrape,
         ScrapeFails, Goto, answer, OnPrimary, OnFallback
<1>2. PICK v \in Nat : version' = [version EXCEPT ![r] = v]
  <2>1. version = [version EXCEPT ![r] = version[r]] /\ version[r] \in Nat /\ world[ref[r]] \in Nat
    BY DEF LookupTypes
  <2> QED
    BY <2>1 DEF Resolve, ReadDetail, NotFound, PrimaryFails, Escape, Scrape, ScrapeFails
<1>3. LookupTypes'
  BY <1>1, <1>2 DEF LookupTypes, OnPrimary, OnFallback, Outcomes
<1>4. Settled /\ \A q \in Requests : pc'[q] = "shipment" => pc[q] = "shipment"
  BY <1>1, <1>2 DEF Settled, LookupTypes, OnPrimary, OnFallback
<1>5. Backed' /\ FreshAnswers'
  BY <1>1, <1>3, <1>4, BackedKept, FreshKept
<1>6. Located'
  BY <1>1 DEF Located, LookupTypes
<1> QED
  BY <1>3, <1>5, <1>6

(* So do time and upstream's updates, which never take a shipment away.     *)
LEMMA LookupOutside ==
  ASSUME LookupInv, Tick \/ (\E k \in Refs : Publish(k)) \/ UNCHANGED vars
  PROVE  LookupInv'
<1> USE DEF LookupInv
<1>1. UNCHANGED <<data, pc, ref, version, via, ended>>
  BY DEF Tick, Publish, answer, vars
<1>2. now' \in Nat /\ now' >= now
  BY DEF Tick, Publish, answer, vars, LookupTypes
<1>3. world' \in [Refs -> Nat] /\ \A k \in Refs : world'[k] >= world[k]
  <2>1. CASE UNCHANGED world
    BY <2>1 DEF LookupTypes
  <2>2. ASSUME NEW k \in Refs, Publish(k)
        PROVE  world' \in [Refs -> Nat] /\ \A j \in Refs : world'[j] >= world[j]
    BY <2>2 DEF Publish, LookupTypes
  <2> QED
    BY <2>1, <2>2 DEF Tick, vars
<1>4. LookupTypes' /\ Settled
  BY <1>1, <1>2, <1>3 DEF LookupTypes, Settled
<1>5. Backed' /\ FreshAnswers'
  BY <1>1, <1>4, BackedKept, FreshKept
<1>6. Located'
  BY <1>1, <1>3 DEF Located, LookupTypes
<1> QED
  BY <1>4, <1>5, <1>6

(* The cache and the answers of any run of the service.                     *)
LEMMA LookupInvariant == Spec => []LookupInv
<1>1. Init => LookupInv
  BY DEF Init, LookupInv, LookupTypes, Backed, Located, FreshAnswers
<1>2. LookupInv /\ [Next]_vars => LookupInv'
  BY LookupStart, LookupDeliver, LookupUpstream, LookupOutside DEF Next, Progress
<1>3. QED
  BY <1>1, <1>2, PTL DEF Spec

(* A cached answer is a copy, less than TTL old, of an answer that some
   request fetched for the same reference.                                  *)
THEOREM CachedAnswersAreFresh == Spec => []FreshAnswers
  BY LookupInvariant, PTL DEF LookupInv

(* What the types say beyond LookupTypes: the run's bounds, and that an answer
   on its way or given has a version.                                       *)
Limits ==
  /\ now <= MaxTime /\ openedAt <= now
  /\ \A k \in Refs : world[k] <= MaxVersion
  /\ \A r \in Requests :
       /\ version[r] <= MaxVersion /\ ended[r] <= now
       /\ pc[r] \in {"landing", "scraped", "shipment"} => version[r] > 0
  /\ trials \subseteq Requests

LEMMA LimitsInvariant == Spec => []Limits
<1> USE DEF LookupTypes, OnPrimary, OnFallback, Outcomes
<1>1. Init => Limits
  BY DEF Init, Limits, Breaker!BreakerInit, Breaker!Never
<1>2. LookupInv /\ BreakerInv /\ Limits /\ [Next]_vars => Limits'
  <2> SUFFICES ASSUME LookupInv, BreakerInv, Limits, [Next]_vars
               PROVE  Limits'
    OBVIOUS
  <2>0. LookupTypes /\ Backed /\ Located
    BY DEF LookupInv
  <2>1. ASSUME NEW r \in Requests, Start(r)
        PROVE  Limits'
    <3>1. CASE Cache!Hit(ref[r])
      <4> DEFINE e == Cache!EntryOf(ref[r])
      <4>1. Cache!PlaceOf(ref[r]) \in DOMAIN data /\ e = data[Cache!PlaceOf(ref[r])]
        BY <3>1 DEF Cache!Hit, Cache!Holds, Cache!PlaceOf, Cache!EntryOf
      <4>2. PICK s \in Requests : Made(s, e)
        BY <2>0, <4>1 DEF Backed
      <4>3. e.value <= MaxVersion /\ e.value > 0
        BY <4>2 DEF Made, Fetched, Limits
      <4>4. /\ pc' = [pc EXCEPT ![r] = "shipment"]
            /\ version' = [version EXCEPT ![r] = e.value]
            /\ ended' = [ended EXCEPT ![r] = now]
            /\ UNCHANGED <<now, openedAt, world, trials>>
        BY <2>1, <3>1 DEF Start, Finish, Goto, breaker
      <4> HIDE DEF e
      <4> QED
        BY <2>0, <4>3, <4>4 DEF Limits
    <3>2. CASE ~Cache!Hit(ref[r])
      BY <2>0, <2>1, <3>2 DEF Start, FallbackOrFail, Goto, breaker, answer, Limits
    <3> QED
      BY <3>1, <3>2
  <2>2. ASSUME NEW r \in Requests, Land(r) \/ LandScrape(r)
        PROVE  Limits'
    BY <2>0, <2>2 DEF Land, LandScrape, Deliver, Finish, Goto, PrimaryAnswered,
         Breaker!RecordSuccess, Breaker!Never, breaker, Limits
  <2>3. ASSUME NEW r \in Requests, ReadDetail(r) \/ Scrape(r)
        PROVE  Limits'
    <3>1. world[ref[r]] > 0 /\ world[ref[r]] <= MaxVersion
      BY <2>0, <2>3 DEF ReadDetail, Scrape, Located, Limits
    <3> QED
      BY <2>0, <2>3, <3>1 DEF ReadDetail, Scrape, Goto, breaker, answer, Limits
  <2>4. ASSUME NEW r \in Requests, Resolve(r) \/ Escape(r) \/ ScrapeFails(r)
        PROVE  Limits'
    BY <2>0, <2>4 DEF Resolve, Escape, ScrapeFails, Goto, breaker, answer, Limits
  <2>5. ASSUME NEW r \in Requests, NotFound(r)
        PROVE  Limits'
    BY <2>0, <2>5 DEF NotFound, PrimaryAnswered, Breaker!RecordSuccess, Breaker!Never, Goto,
                      answer, Limits
  <2>6. ASSUME NEW r \in Requests, PrimaryFails(r)
        PROVE  Limits'
    <3>1. openedAt' \in {openedAt, now}
      BY <2>6 DEF PrimaryFails, Breaker!RecordFailure
    <3> QED
      BY <2>0, <2>6, <3>1 DEF PrimaryFails, FallbackOrFail, Goto, answer, Limits
  <2>7. ASSUME NEW k \in Refs, Publish(k)
        PROVE  Limits'
    BY <2>0, <2>7 DEF Publish, breaker, answer, Limits
  <2>8. CASE Tick
    BY <2>0, <2>8 DEF Tick, breaker, answer, Limits, BreakerInv, Breaker!Never
  <2>9. CASE UNCHANGED vars
    BY <2>9 DEF vars, Limits
  <2> QED
    BY <2>1, <2>2, <2>3, <2>4, <2>5, <2>6, <2>7, <2>8, <2>9 DEF Next, Progress
<1> QED
  BY <1>1, <1>2, LookupInvariant, BreakerInvariant, PTL DEF Spec

(* Every variable of the service keeps its type; the cache's entries have
   theirs because each is the copy of an answer.                            *)
THEOREM TypeCorrect == Spec => []TypeOK
<1> USE DEF LookupTypes, OnPrimary, OnFallback, Outcomes
<1>1. LookupInv /\ BreakerInv /\ Limits => TypeOK
  <2> SUFFICES ASSUME LookupInv, BreakerInv, Limits
               PROVE  TypeOK
    OBVIOUS
  <2> DEFINE Typed == [key : Refs, expires : 0..(MaxTime + TTL), value : 1..MaxVersion]
  <2>1. \A i \in DOMAIN data : data[i] \in Typed
    <3> SUFFICES ASSUME NEW i \in DOMAIN data
                 PROVE  data[i] \in Typed
      OBVIOUS
    <3>1. data[i] \in Entry
      BY DEF LookupInv
    <3>2. PICK s \in Requests : Made(s, data[i])
      BY DEF LookupInv, Backed
    <3>3. data[i].value \in 1..MaxVersion
      BY <3>2 DEF LookupInv, Made, Fetched, Limits
    <3>4. data[i].expires \in 0..(MaxTime + TTL)
      BY <3>2 DEF LookupInv, Made, Limits
    <3> QED
      BY <3>1, <3>3, <3>4 DEF Entry
  <2>2. data \in Seq(Typed)
    <3>1. data \in Seq(Entry)
      BY DEF LookupInv
    <3>2. Len(data) \in Nat /\ DOMAIN data = 1..Len(data) /\ data = [i \in 1..Len(data) |-> data[i]]
      BY <3>1
    <3> HIDE DEF Typed
    <3>3. data \in [1..Len(data) -> Typed]
      BY <2>1, <3>2
    <3> QED BY <3>2, <3>3
  <2>3. version \in [Requests -> 0..MaxVersion] /\ ended \in [Requests -> 0..MaxTime]
        /\ world \in [Refs -> 0..MaxVersion] /\ now \in 0..MaxTime
    BY DEF LookupInv, Limits
  <2>4. openedAt \in 0..MaxTime \cup {Breaker!Never} /\ failures \in Nat /\ streak \in Nat
    BY <2>3 DEF BreakerInv, CountIsStreak, Limits
  <2> QED
    BY <2>2, <2>3, <2>4 DEF TypeOK, LookupInv, Limits
<1> QED
  BY <1>1, LookupInvariant, BreakerInvariant, LimitsInvariant, PTL

-----------------------------------------------------------------------------
(* Recovery *)

(* The primary has delivered nothing since the breaker tripped.             *)
Quiet ==
  Breaker!Tripped =>
    \A r \in Requests : pc[r] = "shipment" /\ via[r] = "json" => ended[r] <= openedAt

(* A step that shows no shipment of the primary leaves the answers of the
   primary as they are.                                                     *)
LEMMA QuietKept ==
  ASSUME LookupTypes, Quiet, UNCHANGED breaker,
         NEW r \in Requests,
         \/ Start(r) \/ Resolve(r) \/ ReadDetail(r) \/ Escape(r)
         \/ Scrape(r) \/ LandScrape(r) \/ ScrapeFails(r)
  PROVE  Quiet'
<1>1. ASSUME NEW q \in Requests, pc'[q] = "shipment", via'[q] = "json"
      PROVE  pc[q] = "shipment" /\ via[q] = "json" /\ ended'[q] = ended[q]
  BY <1>1 DEF LookupTypes, Start, Resolve, ReadDetail, Escape, Scrape, LandScrape, ScrapeFails,
       Deliver, Finish, FallbackOrFail, Goto, answer, OnPrimary, OnFallback
<1> QED
  BY <1>1 DEF Quiet, breaker, Breaker!Tripped

(* An answer of the primary closes the breaker, whenever it was asked for:
   no tripped breaker has seen one since it tripped.                        *)
THEOREM RecoveryClosesBreaker == Spec => []RecoveryCloses
<1>1. Init => Quiet
  BY DEF Init, Quiet
<1>2. LookupInv /\ BreakerInv /\ Limits /\ Quiet /\ [Next]_vars => Quiet'
  <2> SUFFICES ASSUME LookupInv, BreakerInv, Limits, Quiet, [Next]_vars
               PROVE  Quiet'
    OBVIOUS
  <2>1. LookupTypes
    BY DEF LookupInv
  <2>2. ASSUME NEW r \in Requests, Land(r) \/ NotFound(r)
        PROVE  Quiet'
    BY <2>2 DEF Land, NotFound, PrimaryAnswered, Breaker!RecordSuccess, Breaker!Tripped, Quiet
  <2>3. ASSUME NEW r \in Requests, PrimaryFails(r)
        PROVE  Quiet'
    <3>1. /\ openedAt' = IF Breaker!Tripped THEN openedAt ELSE openedAt'
          /\ openedAt' \in {openedAt, now}
          /\ UNCHANGED <<via, ended>>
      BY <2>3 DEF PrimaryFails, Breaker!RecordFailure, answer
    <3>2. \A q \in Requests : pc'[q] = "shipment" => pc[q] = "shipment" /\ ended[q] <= now
      BY <2>1, <2>3 DEF PrimaryFails, FallbackOrFail, Goto, LookupTypes, Limits
    <3>3. CASE Breaker!Tripped
      BY <3>1, <3>2, <3>3 DEF Quiet
    <3>4. CASE ~Breaker!Tripped
      BY <3>1, <3>2, <3>4 DEF Quiet, Breaker!Tripped
    <3> QED
      BY <3>3, <3>4
  <2>4. ASSUME NEW r \in Requests,
               \/ Start(r) \/ Resolve(r) \/ ReadDetail(r) \/ Escape(r)
               \/ Scrape(r) \/ LandScrape(r) \/ ScrapeFails(r)
        PROVE  Quiet'
    <3>1. UNCHANGED breaker
      BY <2>4 DEF Start, Resolve, ReadDetail, Escape, Scrape, LandScrape, ScrapeFails, breaker
    <3> QED
      BY <2>1, <2>4, <3>1, QuietKept
  <2>5. CASE Tick \/ (\E k \in Refs : Publish(k)) \/ UNCHANGED vars
    BY <2>5 DEF Tick, Publish, vars, breaker, answer, Quiet, Breaker!Tripped
  <2> QED
    BY <2>2, <2>3, <2>4, <2>5 DEF Next, Progress
<1>3. BreakerInv /\ Quiet => RecoveryCloses
  BY DEF BreakerInv, CountIsStreak, Quiet, RecoveryCloses
<1> QED
  BY <1>1, <1>2, <1>3, LookupInvariant, BreakerInvariant, LimitsInvariant, PTL DEF Spec

-----------------------------------------------------------------------------
(* The cache carries through an outage *)

(* No key has two entries in s.                                             *)
Apart(s) == \A i, j \in DOMAIN s : s[i].key = s[j].key => i = j

(* The copy of every fetch that is less than TTL old is in the cache.       *)
Sheltered ==
  \A s \in Requests : Fetched(s) =>
    /\ ended[s] <= now
    /\ now < ended[s] + TTL =>
         \E i \in DOMAIN data : data[i].key = ref[s] /\ ended[s] + TTL <= data[i].expires

ShelterInv == LookupInv /\ Apart(data) /\ Sheltered

(* Without a key, the other entries are there.                              *)
LEMMA WithoutOthers ==
  ASSUME NEW S, data \in Seq(S), Apart(data), NEW STATE k
  PROVE  /\ Cache!Without(k) \in Seq(S) /\ Apart(Cache!Without(k))
         /\ \A j \in DOMAIN Cache!Without(k) : Cache!Without(k)[j].key # k
         /\ \A i \in DOMAIN data : data[i].key # k =>
              \E j \in DOMAIN Cache!Without(k) : Cache!Without(k)[j] = data[i]
<1>1. CASE Cache!Holds(k)
  <2> DEFINE p == Cache!PlaceOf(k)
             d == Drop(data, p)
  <2>1. p \in DOMAIN data /\ data[p].key = k
    BY <1>1 DEF Cache!Holds, Cache!PlaceOf
  <2>2. Cache!Without(k) = d
    BY <1>1 DEF Cache!Without, Drop
  <2> HIDE DEF p
  <2>3. Len(data) \in Nat /\ DOMAIN data = 1..Len(data) /\ p \in 1..Len(data)
    BY <2>1
  <2>4. /\ d \in Seq(S) /\ Len(d) = Len(data) - 1
        /\ \A j \in 1..(p - 1) : d[j] = data[j]
        /\ \A j \in p..(Len(data) - 1) : d[j] = data[j + 1]
    BY <2>3, DropElements
  <2> HIDE DEF d
  <2>5. DOMAIN d = 1..(Len(data) - 1)
    BY <2>3, <2>4
  <2> DEFINE at(j) == IF j < p THEN j ELSE j + 1
  <2>6. \A j \in DOMAIN d : at(j) \in DOMAIN data /\ at(j) # p /\ d[j] = data[at(j)]
    BY <2>3, <2>4, <2>5
  <2>7. \A i, j \in DOMAIN d : at(i) = at(j) => i = j
    BY <2>3, <2>5
  <2>8. \A i \in DOMAIN data : i # p => \E j \in DOMAIN d : at(j) = i
    <3> SUFFICES ASSUME NEW i \in DOMAIN data, i # p
                 PROVE  \E j \in DOMAIN d : at(j) = i
      OBVIOUS
    <3> DEFINE j == IF i < p THEN i ELSE i - 1
    <3>1. j \in DOMAIN d /\ at(j) = i
      BY <2>3, <2>5
    <3> QED
      BY <3>1
  <2> HIDE DEF at
  <2>9. Apart(d)
    BY <2>6, <2>7 DEF Apart
  <2>10. \A j \in DOMAIN d : d[j].key # k
    BY <2>1, <2>6 DEF Apart
  <2>11. \A i \in DOMAIN data : data[i].key # k => \E j \in DOMAIN d : d[j] = data[i]
    BY <2>1, <2>6, <2>8
  <2> QED
    BY <2>2, <2>4, <2>9, <2>10, <2>11
<1>2. CASE ~Cache!Holds(k)
  <2>1. Cache!Without(k) = data
    BY <1>2 DEF Cache!Without
  <2> QED
    BY <1>2, <2>1 DEF Cache!Holds
<1> QED
  BY <1>1, <1>2

(* An entry of a key that s does not have may be appended to s.             *)
LEMMA AppendApart ==
  ASSUME NEW S, NEW s \in Seq(S), NEW e \in S, Apart(s), \A j \in DOMAIN s : s[j].key # e.key
  PROVE  /\ Apart(Append(s, e))
         /\ \A j \in DOMAIN s : \E i \in DOMAIN Append(s, e) : Append(s, e)[i] = s[j]
         /\ \E i \in DOMAIN Append(s, e) : Append(s, e)[i] = e
<1> DEFINE a == Append(s, e)
           n == Len(s)
<1>1. /\ n \in Nat /\ DOMAIN s = 1..n /\ DOMAIN a = 1..(n + 1)
      /\ \A j \in 1..n : a[j] = s[j]
      /\ a[n + 1] = e
  OBVIOUS
<1> HIDE DEF a, n
<1>2. Apart(a)
  <2> SUFFICES ASSUME NEW i \in 1..(n + 1), NEW j \in 1..(n + 1), a[i].key = a[j].key
               PROVE  i = j
    BY <1>1 DEF Apart
  <2>1. CASE i = n + 1 /\ j # n + 1
    BY <1>1, <2>1
  <2>2. CASE i # n + 1 /\ j = n + 1
    BY <1>1, <2>2
  <2>3. CASE i # n + 1 /\ j # n + 1
    BY <1>1, <2>3 DEF Apart
  <2> QED
    BY <2>1, <2>2, <2>3
<1>3. \A j \in DOMAIN s : \E i \in DOMAIN a : a[i] = s[j]
  BY <1>1
<1>4. \E i \in DOMAIN a : a[i] = e
  BY <1>1
<1> QED
  BY <1>2, <1>3, <1>4 DEF a

(* A read drops nothing that is alive.                                      *)
LEMMA GetShelters ==
  ASSUME data \in Seq(Entry), Apart(data), NEW STATE k
  PROVE  /\ Apart(Cache!AfterGet(k))
         /\ \A i \in DOMAIN data : data[i].key # k \/ now < data[i].expires =>
              \E j \in DOMAIN Cache!AfterGet(k) : Cache!AfterGet(k)[j] = data[i]
<1> DEFINE w == Cache!Without(k)
           e == Cache!EntryOf(k)
<1>1. /\ w \in Seq(Entry) /\ Apart(w) /\ \A j \in DOMAIN w : w[j].key # k
      /\ \A i \in DOMAIN data : data[i].key # k => \E j \in DOMAIN w : w[j] = data[i]
  BY WithoutOthers
<1>2. \A i \in DOMAIN data : data[i].key = k => Cache!Holds(k) /\ e = data[i]
  <2> SUFFICES ASSUME NEW i \in DOMAIN data, data[i].key = k
               PROVE  Cache!Holds(k) /\ e = data[i]
    OBVIOUS
  <2>1. Cache!Holds(k)
    BY DEF Cache!Holds
  <2>2. Cache!PlaceOf(k) \in DOMAIN data /\ data[Cache!PlaceOf(k)].key = k
    BY DEF Cache!PlaceOf
  <2>3. Cache!PlaceOf(k) = i
    BY <2>2 DEF Apart
  <2> QED
    BY <2>1, <2>3 DEF Cache!EntryOf
<1>3. CASE Cache!Hit(k)
  <2>1. e \in Entry /\ e.key = k
    <3>1. Cache!PlaceOf(k) \in DOMAIN data /\ data[Cache!PlaceOf(k)].key = k
      BY <1>3 DEF Cache!Hit, Cache!Holds, Cache!PlaceOf
    <3> QED
      BY <3>1 DEF Cache!EntryOf
  <2>2. Cache!AfterGet(k) = Append(w, e)
    BY <1>3 DEF Cache!AfterGet
  <2> HIDE DEF w, e
  <2>3. w \in Seq(Entry) /\ e \in Entry /\ Apart(w) /\ \A j \in DOMAIN w : w[j].key # e.key
    BY <1>1, <2>1
  <2>4. /\ Apart(Append(w, e))
        /\ \A j \in DOMAIN w : \E i \in DOMAIN Append(w, e) : Append(w, e)[i] = w[j]
        /\ \E i \in DOMAIN Append(w, e) : Append(w, e)[i] = e
    BY <2>3, AppendApart
  <2> DEFINE a == Append(w, e)
  <2> HIDE DEF a
  <2>5. \A i \in DOMAIN data : \E j \in DOMAIN a : a[j] = data[i]
    BY <1>1, <1>2, <2>4 DEF a
  <2> QED
    BY <2>2, <2>4, <2>5 DEF a
<1>4. CASE ~Cache!Hit(k)
  <2>1. Cache!AfterGet(k) = w
    BY <1>4 DEF Cache!AfterGet
  <2>2. \A i \in DOMAIN data : data[i].key = k => ~(now < data[i].expires)
    BY <1>2, <1>4 DEF Cache!Hit
  <2> HIDE DEF w
  <2> QED
    BY <1>1, <2>1, <2>2
<1> QED
  BY <1>3, <1>4

(* With room for every reference a write evicts nothing.                    *)
LEMMA SetShelters ==
  ASSUME IsFiniteSet(Refs), Cardinality(Refs) <= MaxSize,
         data \in Seq(Entry), Apart(data), NEW STATE k, NEW STATE v,
         [key |-> k, expires |-> now + TTL, value |-> v] \in Entry
  PROVE  /\ Apart(Cache!AfterSet(k, v))
         /\ \A i \in DOMAIN data : data[i].key # k =>
              \E j \in DOMAIN Cache!AfterSet(k, v) : Cache!AfterSet(k, v)[j] = data[i]
         /\ \E j \in DOMAIN Cache!AfterSet(k, v) :
              Cache!AfterSet(k, v)[j] = [key |-> k, expires |-> now + TTL, value |-> v]
<1> DEFINE w == Cache!Without(k)
           e == [key |-> k, expires |-> now + TTL, value |-> v]
           a == Append(w, e)
<1>1. /\ w \in Seq(Entry) /\ Apart(w) /\ \A j \in DOMAIN w : w[j].key # k
      /\ \A i \in DOMAIN data : data[i].key # k => \E j \in DOMAIN w : w[j] = data[i]
  BY WithoutOthers
<1>2. e \in Entry /\ e.key = k
  OBVIOUS
<1>3. Cache!AfterSet(k, v) = Cache!Trim(a)
  BY DEF Cache!AfterSet
<1> HIDE DEF w, e
<1>4. w \in Seq(Entry) /\ e \in Entry /\ Apart(w) /\ \A j \in DOMAIN w : w[j].key # e.key
  BY <1>1, <1>2
<1>5. /\ Apart(a)
      /\ \A j \in DOMAIN w : \E i \in DOMAIN a : a[i] = w[j]
      /\ \E i \in DOMAIN a : a[i] = e
  BY <1>4, AppendApart
<1>6. a \in Seq(Entry)
  BY <1>4
<1> HIDE DEF a
<1>7. Len(a) <= MaxSize
  <2> DEFINE n == Len(a)
             keys == [j \in 1..n |-> a[j].key]
  <2>1. n \in Nat /\ DOMAIN a = 1..n /\ \A j \in 1..n : a[j] \in Entry
    BY <1>6
  <2>2. \A j \in 1..n : keys[j] \in Refs
    BY <2>1 DEF Entry
  <2>3. \A i, j \in 1..n : keys[i] = keys[j] => i = j
    BY <1>5, <2>1 DEF Apart
  <2>4. keys \in Injection(1..n, Refs)
    BY <2>2, <2>3 DEF Injection, IsInjective
  <2>5. Cardinality(1..n) <= Cardinality(Refs)
    BY <2>4, FS_Injection
  <2> HIDE DEF n
  <2>6. Cardinality(1..n) = n
    <3>1. Cardinality(1..n) = IF 1 > n THEN 0 ELSE n - 1 + 1
      BY <2>1, FS_Interval
    <3> QED
      BY <2>1, <3>1
  <2>7. Cardinality(Refs) \in Nat /\ MaxSize \in Nat
    BY FS_CardinalityType, TrackingAssumption
  <2>8. n <= MaxSize
    BY <2>1, <2>5, <2>6, <2>7
  <2> QED
    BY <2>8 DEF n
<1>8. Cache!AfterSet(k, v) = a
  <2>1. Len(a) \in Nat /\ MaxSize \in Nat
    BY <1>6, TrackingAssumption
  <2> QED
    BY <1>3, <1>7, <2>1 DEF Cache!Trim
<1>9. \A i \in DOMAIN data : data[i].key # k => \E j \in DOMAIN a : a[j] = data[i]
  BY <1>1, <1>5
<1> QED
  BY <1>5, <1>8, <1>9 DEF e

(* Fetches that stay as they are stay sheltered while live entries stay in
   the cache, and new ones are when their entry is put there.               *)
LEMMA ShelteredKept ==
  ASSUME LookupTypes, LookupTypes', Settled, Sheltered,
         \A i \in DOMAIN data : now < data[i].expires =>
           \E j \in DOMAIN data' : data'[j].key = data[i].key /\ data[i].expires <= data'[j].expires,
         \A s \in Requests : Fetched(s)' /\ ~Fetched(s) =>
           /\ ended'[s] <= now'
           /\ \E j \in DOMAIN data' :
                data'[j].key = ref'[s] /\ ended'[s] + TTL <= data'[j].expires
  PROVE  Sheltered'
<1> SUFFICES ASSUME NEW s \in Requests, Fetched(s)', Fetched(s)
             PROVE  /\ ended'[s] <= now'
                    /\ now' < ended'[s] + TTL =>
                         \E j \in DOMAIN data' :
                           data'[j].key = ref'[s] /\ ended'[s] + TTL <= data'[j].expires
  BY DEF Sheltered
<1>1. ended'[s] = ended[s] /\ ref'[s] = ref[s] /\ now <= now'
  BY DEF Settled, Fetched
<1>2. ended[s] \in Nat /\ now \in Nat /\ now' \in Nat /\ TTL \in Nat
  BY TrackingAssumption DEF LookupTypes
<1>3. /\ ended[s] <= now
      /\ now < ended[s] + TTL =>
           \E i \in DOMAIN data : data[i].key = ref[s] /\ ended[s] + TTL <= data[i].expires
  BY DEF Sheltered
<1>4. ASSUME now' < ended[s] + TTL
      PROVE  \E j \in DOMAIN data' : data'[j].key = ref[s] /\ ended[s] + TTL <= data'[j].expires
  <2>1. PICK i \in DOMAIN data : data[i].key = ref[s] /\ ended[s] + TTL <= data[i].expires
    BY <1>1, <1>2, <1>3, <1>4
  <2>2. data[i].expires \in Nat
    <3>1. data[i] \in Entry
      BY DEF LookupTypes
    <3> QED
      BY <3>1 DEF Entry
  <2>3. now < data[i].expires
    BY <1>1, <1>2, <1>4, <2>1, <2>2
  <2>4. PICK j \in DOMAIN data' : data'[j].key = data[i].key /\ data[i].expires <= data'[j].expires
    BY <2>3
  <2>5. data'[j].expires \in Nat
    <3>1. data'[j] \in Entry
      BY DEF LookupTypes
    <3> QED
      BY <3>1 DEF Entry
  <2> QED
    BY <1>2, <2>1, <2>2, <2>4, <2>5
<1> QED
  BY <1>1, <1>2, <1>3, <1>4

LEMMA ShelterStart ==
  ASSUME ShelterInv, LookupInv', NEW r \in Requests, Start(r)
  PROVE  Apart(data)' /\ Sheltered'
<1> USE DEF ShelterInv
<1>1. LookupTypes /\ LookupTypes' /\ data \in Seq(Entry)
  BY DEF LookupInv, LookupTypes
<1>2. data' = Cache!AfterGet(ref[r]) /\ pc[r] = "idle"
  BY DEF Start
<1>3. /\ Apart(data')
      /\ \A i \in DOMAIN data : data[i].key # ref[r] \/ now < data[i].expires =>
           \E j \in DOMAIN data' : data'[j] = data[i]
  BY <1>1, <1>2, GetShelters
<1>4. Settled /\ \A s \in Requests : Fetched(s)' => Fetched(s)
  <2>1. \E p : pc' = [pc EXCEPT ![r] = p] /\ (p = "shipment" => via' = [via EXCEPT ![r] = "cache"])
    BY DEF Start, Finish, FallbackOrFail, Goto
  <2>2. /\ UNCHANGED <<now, ref>>
        /\ \A q \in Requests \ {r} : /\ pc'[q] = pc[q] /\ via'[q] = via[q]
                                     /\ version'[q] = version[q] /\ ended'[q] = ended[q]
    BY <1>1 DEF Start, Finish, FallbackOrFail, Goto, answer, LookupTypes
  <2>3. ~Fetched(r) /\ ~Fetched(r)'
    BY <1>1, <1>2, <2>1 DEF Fetched, LookupTypes
  <2>4. \A s \in Requests : Fetched(s)' => Fetched(s)
    BY <2>2, <2>3 DEF Fetched
  <2>5. Settled
    BY <1>1, <1>2, <2>2 DEF Settled, LookupTypes
  <2> QED
    BY <2>4, <2>5
<1>5. \A i \in DOMAIN data : now < data[i].expires =>
        \E j \in DOMAIN data' : data'[j].key = data[i].key /\ data[i].expires <= data'[j].expires
  <2> SUFFICES ASSUME NEW i \in DOMAIN data, now < data[i].expires
               PROVE  \E j \in DOMAIN data' :
                        data'[j].key = data[i].key /\ data[i].expires <= data'[j].expires
    OBVIOUS
  <2>1. PICK j \in DOMAIN data' : data'[j] = data[i]
    BY <1>3
  <2>2. data[i].expires \in Nat
    <3>1. data[i] \in Entry
      BY <1>1
    <3> QED
      BY <3>1 DEF Entry
  <2> QED
    BY <2>1, <2>2
<1>6. Sheltered'
  BY <1>1, <1>4, <1>5, ShelteredKept
<1> QED
  BY <1>3, <1>6

LEMMA ShelterDeliver ==
  ASSUME IsFiniteSet(Refs), Cardinality(Refs) <= MaxSize,
         ShelterInv, LookupInv', NEW r \in Requests, Land(r) \/ LandScrape(r)
  PROVE  Apart(data)' /\ Sheltered'
<1> DEFINE new == [key |-> ref[r], expires |-> now + TTL, value |-> version[r]]
<1> USE DEF ShelterInv
<1>1. LookupTypes /\ LookupTypes' /\ data \in Seq(Entry)
  BY DEF LookupInv, LookupTypes
<1>2. new \in Entry /\ new.key = ref[r] /\ new.expires = now + TTL /\ now + TTL \in Nat
  BY <1>1, TrackingAssumption DEF LookupTypes, Entry
<1>3. PICK w \in {"json", "html"} :
        /\ pc[r] \in {"landing", "scraped"}
        /\ pc' = [pc EXCEPT ![r] = "shipment"]
        /\ via' = [via EXCEPT ![r] = w]
        /\ ended' = [ended EXCEPT ![r] = now]
        /\ UNCHANGED <<now, world, ref, version>>
        /\ data' = Cache!AfterSet(ref[r], version[r])
  BY DEF Land, LandScrape, Deliver, Finish, Goto
<1>4. /\ Apart(data')
      /\ \A i \in DOMAIN data : data[i].key # ref[r] => \E j \in DOMAIN data' : data'[j] = data[i]
      /\ \E j \in DOMAIN data' : data'[j] = new
  BY <1>1, <1>2, <1>3, SetShelters
<1> HIDE DEF new
<1>5. Settled /\ \A s \in Requests : Fetched(s)' /\ ~Fetched(s) => s = r
  BY <1>1, <1>3 DEF Settled, Fetched, LookupTypes
<1>6. PICK n \in DOMAIN data' : data'[n] = new
  BY <1>4
<1>7. ended'[r] = now /\ now' = now /\ ref'[r] = ref[r] /\ now \in Nat
  BY <1>1, <1>3 DEF LookupTypes
<1>8. \A i \in DOMAIN data : data[i].key = ref[r] => data[i].expires <= now + TTL
  <2> SUFFICES ASSUME NEW i \in DOMAIN data
               PROVE  data[i].expires <= now + TTL
    OBVIOUS
  <2>1. PICK s \in Requests : Made(s, data[i])
    BY DEF LookupInv, Backed
  <2>2. ended[s] \in Nat /\ TTL \in Nat
    BY <1>1, TrackingAssumption DEF LookupTypes
  <2> QED
    BY <1>7, <2>1, <2>2 DEF Made
<1>9. \A i \in DOMAIN data : now < data[i].expires =>
        \E j \in DOMAIN data' : data'[j].key = data[i].key /\ data[i].expires <= data'[j].expires
  <2> SUFFICES ASSUME NEW i \in DOMAIN data
               PROVE  \E j \in DOMAIN data' :
                        data'[j].key = data[i].key /\ data[i].expires <= data'[j].expires
    OBVIOUS
  <2>1. CASE data[i].key = ref[r]
    BY <1>2, <1>6, <1>8, <2>1
  <2>2. CASE data[i].key # ref[r]
    <3>1. PICK j \in DOMAIN data' : data'[j] = data[i]
      BY <1>4, <2>2
    <3>2. data[i].expires \in Nat
      <4>1. data[i] \in Entry
        BY <1>1
      <4> QED
        BY <4>1 DEF Entry
    <3> QED
      BY <3>1, <3>2
  <2> QED
    BY <2>1, <2>2
<1>10. /\ ended'[r] <= now'
       /\ data'[n].key = ref'[r] /\ ended'[r] + TTL <= data'[n].expires
  BY <1>2, <1>6, <1>7
<1>11. Sheltered'
  BY <1>1, <1>5, <1>9, <1>10, ShelteredKept
<1> QED
  BY <1>4, <1>11

(* The other steps leave the cache and what was fetched alone.              *)
LEMMA ShelterOther ==
  ASSUME ShelterInv, LookupInv', UNCHANGED <<data, ref, via, ended>>, now' >= now,
         \A q \in Requests : pc'[q] = "shipment" <=> pc[q] = "shipment"
  PROVE  Apart(data)' /\ Sheltered'
<1> USE DEF ShelterInv
<1>1. LookupTypes /\ LookupTypes'
  BY DEF LookupInv
<1>2. \A s \in Requests : ended[s] \in Nat /\ TTL \in Nat
  BY <1>1, TrackingAssumption DEF LookupTypes
<1>3. now \in Nat /\ now' \in Nat
  BY <1>1 DEF LookupTypes
<1>4. \A s \in Requests : Fetched(s)' <=> Fetched(s)
  BY DEF Fetched
<1>5. Sheltered'
  BY <1>2, <1>3, <1>4 DEF Sheltered
<1> QED
  BY <1>5

LEMMA ShelterInvariant ==
  ASSUME IsFiniteSet(Refs), Cardinality(Refs) <= MaxSize
  PROVE  Spec => []ShelterInv
<1>1. Init => ShelterInv
  BY DEF Init, ShelterInv, Apart, Sheltered, Fetched,
         LookupInv, LookupTypes, Backed, Located, FreshAnswers
<1>2. ShelterInv /\ LookupInv' /\ [Next]_vars => ShelterInv'
  <2> SUFFICES ASSUME ShelterInv, LookupInv', [Next]_vars
               PROVE  Apart(data)' /\ Sheltered'
    BY DEF ShelterInv
  <2>1. LookupTypes
    BY DEF ShelterInv, LookupInv
  <2>2. ASSUME NEW r \in Requests, Start(r)
        PROVE  Apart(data)' /\ Sheltered'
    BY <2>2, ShelterStart
  <2>3. ASSUME NEW r \in Requests, Land(r) \/ LandScrape(r)
        PROVE  Apart(data)' /\ Sheltered'
    BY <2>3, ShelterDeliver
  <2>4. ASSUME NEW r \in Requests,
               Resolve(r) \/ ReadDetail(r) \/ NotFound(r) \/ PrimaryFails(r) \/ Escape(r)
                 \/ Scrape(r) \/ ScrapeFails(r)
        PROVE  Apart(data)' /\ Sheltered'
    <3>1. /\ pc[r] \in OnPrimary \cup OnFallback
          /\ \E p \in OnPrimary \cup OnFallback \cup {"not_found", "unavailable", "escaped"} :
               pc' = [pc EXCEPT ![r] = p]
          /\ UNCHANGED <<now, data, ref, via, ended>>
      BY <2>4 DEF Resolve, ReadDetail, NotFound, PrimaryFails, FallbackOrFail, Escape, Scrape,
                  ScrapeFails, Goto, answer, OnPrimary, OnFallback
    <3>2. \A q \in Requests : pc'[q] = "shipment" <=> pc[q] = "shipment"
      BY <2>1, <3>1 DEF LookupTypes, OnPrimary, OnFallback
    <3>3. now' >= now
      BY <2>1, <3>1 DEF LookupTypes
    <3> QED
      BY <3>1, <3>2, <3>3, ShelterOther
  <2>5. CASE Tick \/ (\E k \in Refs : Publish(k)) \/ UNCHANGED vars
    <3>1. UNCHANGED <<data, pc, ref, via, ended>> /\ now' >= now
      BY <2>1, <2>5 DEF Tick, Publish, answer, vars, LookupTypes
    <3> QED
      BY <3>1, ShelterOther
  <2> QED
    BY <2>2, <2>3, <2>4, <2>5 DEF Next, Progress
<1> QED
  BY <1>1, <1>2, LookupInvariant, PTL DEF Spec

(* With room for every reference in use, no request for a reference that was
   fetched less than TTL ago goes upstream.                                 *)
THEOREM CacheCarriesOutages ==
  ASSUME IsFiniteSet(Refs), Cardinality(Refs) <= MaxSize
  PROVE  Spec => CacheAbsorbs
<1>1. ShelterInv /\ [Next]_vars =>
        [\A r \in Requests :
           /\ pc[r] = "idle" /\ pc'[r] # "idle"
           /\ \E s \in Requests : Fetched(s) /\ ref[s] = ref[r] /\ now < ended[s] + TTL
           => pc'[r] = "shipment"]_vars
  <2> SUFFICES ASSUME ShelterInv, Next, NEW r \in Requests, pc[r] = "idle", pc'[r] # "idle",
                      NEW s \in Requests, Fetched(s), ref[s] = ref[r], now < ended[s] + TTL
               PROVE  pc'[r] = "shipment"
    BY DEF vars
  <2>1. LookupTypes
    BY DEF ShelterInv, LookupInv
  <2>2. Start(r)
    <3>1. ASSUME NEW q \in Requests, Start(q)
          PROVE  q = r
      BY <2>1, <3>1 DEF Start, Finish, FallbackOrFail, Goto, LookupTypes
    <3>2. ASSUME NEW q \in Requests, Progress(q) \/ Escape(q)
          PROVE  FALSE
      BY <2>1, <3>2 DEF Progress, Resolve, ReadDetail, NotFound, Land, PrimaryFails, Escape,
           Scrape, LandScrape, ScrapeFails, Deliver, Finish, FallbackOrFail, Goto,
           OnPrimary, OnFallback, LookupTypes
    <3> QED
      BY <3>1, <3>2 DEF Next, Publish, Tick
  <2>3. PICK i \in DOMAIN data : data[i].key = ref[r] /\ ended[s] + TTL <= data[i].expires
    BY DEF ShelterInv, Sheltered
  <2>4. now < data[i].expires
    <3>1. data[i] \in Entry
      BY <2>1 DEF LookupTypes
    <3>2. data[i].expires \in Nat /\ now \in Nat /\ ended[s] \in Nat /\ TTL \in Nat
      BY <2>1, <3>1, TrackingAssumption DEF Entry, LookupTypes
    <3> QED
      BY <2>3, <3>2
  <2>5. Cache!Holds(ref[r]) /\ Cache!EntryOf(ref[r]) = data[i]
    <3>1. Cache!Holds(ref[r])
      BY <2>3 DEF Cache!Holds
    <3>2. Cache!PlaceOf(ref[r]) \in DOMAIN data /\ data[Cache!PlaceOf(ref[r])].key = ref[r]
      BY <2>3 DEF Cache!PlaceOf
    <3>3. Cache!PlaceOf(ref[r]) = i
      BY <2>3, <3>2 DEF ShelterInv, Apart
    <3> QED
      BY <3>1, <3>3 DEF Cache!EntryOf
  <2>6. Cache!Hit(ref[r])
    BY <2>4, <2>5 DEF Cache!Hit
  <2> QED
    BY <2>1, <2>2, <2>6 DEF Start, Finish, Goto, LookupTypes
<1> QED
  BY <1>1, ShelterInvariant, PTL DEF Spec, CacheAbsorbs

-----------------------------------------------------------------------------
(* The refinement *)

Carries(p) == StageOf(p) \in {"holding", "shown"}

(* What a step that moves one request is for the abstract specification.    *)
LEMMA StageMoves ==
  ASSUME LookupTypes, NEW r \in Requests, NEW p, pc' = [pc EXCEPT ![r] = p],
         \A q \in Requests \ {r} : version'[q] = version[q]
  PROVE  /\ Stage' = [Stage EXCEPT ![r] = StageOf(p)]
         /\ Version' = [Version EXCEPT ![r] = IF Carries(p) THEN version'[r] ELSE 0]
<1>1. pc'[r] = p /\ \A q \in Requests \ {r} : pc'[q] = pc[q]
  BY DEF LookupTypes
<1>2. /\ \A q \in Requests : Stage[q] = StageOf(pc[q]) /\ Stage'[q] = StageOf(pc'[q])
      /\ \A q \in Requests : Version[q] = IF Carries(pc[q]) THEN version[q] ELSE 0
      /\ \A q \in Requests : Version'[q] = IF Carries(pc'[q]) THEN version'[q] ELSE 0
  BY DEF Stage, Version, Carries
<1>3. /\ Stage = [q \in Requests |-> Stage[q]] /\ Stage' = [q \in Requests |-> Stage'[q]]
      /\ Version = [q \in Requests |-> Version[q]] /\ Version' = [q \in Requests |-> Version'[q]]
  BY DEF Stage, Version
<1> HIDE DEF Stage, Version, Carries, StageOf
<1>4. Stage' = [Stage EXCEPT ![r] = StageOf(p)]
  BY <1>1, <1>2, <1>3
<1>5. Version' = [Version EXCEPT ![r] = IF Carries(p) THEN version'[r] ELSE 0]
  BY <1>1, <1>2, <1>3
<1> QED
  BY <1>4, <1>5

(* A step that completes no fetch leaves the shelf as it is.                *)
LEMMA ShelfSame ==
  ASSUME ref' = ref,
         \A q \in Requests : /\ Fetched(q)' <=> Fetched(q)
                             /\ Fetched(q) => version'[q] = version[q] /\ ended'[q] = ended[q]
  PROVE  Shelf' = Shelf
BY DEF Shelf

(* A step that completes one adds its copy.                                 *)
LEMMA ShelfGrows ==
  ASSUME ref' = ref, NEW r \in Requests, Fetched(r)', ended'[r] = now, version'[r] = version[r],
         ~Fetched(r),
         \A q \in Requests \ {r} : /\ Fetched(q)' <=> Fetched(q)
                                   /\ Fetched(q) => version'[q] = version[q] /\ ended'[q] = ended[q]
  PROVE  Shelf' = Shelf \cup {[ref |-> ref[r], version |-> version[r], since |-> now]}
BY DEF Shelf

(* Start is an abstract Reuse, Ask or Fail.                                 *)
LEMMA StartMaps ==
  ASSUME LookupInv, NEW r \in Requests, Start(r)
  PROVE  Lookup!Next
<1> USE DEF LookupInv
<1>1. pc[r] = "idle" /\ Stage[r] = "idle" /\ UNCHANGED <<now, world, ref>>
  BY DEF Start, Stage, StageOf
<1>2. CASE Cache!Hit(ref[r])
  <2> DEFINE e == Cache!EntryOf(ref[r])
  <2>1. Cache!PlaceOf(ref[r]) \in DOMAIN data /\ e = data[Cache!PlaceOf(ref[r])]
        /\ e.key = ref[r] /\ now < e.expires
    BY <1>2 DEF Cache!Hit, Cache!Holds, Cache!PlaceOf, Cache!EntryOf
  <2>2. PICK s \in Requests : Made(s, e)
    BY <2>1 DEF Backed
  <2>3. /\ pc' = [pc EXCEPT ![r] = "shipment"]
        /\ version' = [version EXCEPT ![r] = e.value]
        /\ via' = [via EXCEPT ![r] = "cache"]
        /\ ended' = [ended EXCEPT ![r] = now]
    BY <1>2 DEF Start, Finish, Goto
  <2> HIDE DEF e
  <2> DEFINE c == [ref |-> ref[s], version |-> version[s], since |-> ended[s]]
  <2>4. c \in Shelf
    BY <2>2 DEF Shelf, Made
  <2>5. c.ref = ref[r] /\ now < c.since + TTL /\ c.version = e.value
    BY <2>1, <2>2 DEF Made
  <2> HIDE DEF c
  <2>6. Shelf' = Shelf
    BY <1>1, <2>3, ShelfSame DEF Fetched, LookupTypes
  <2>7. version'[r] = c.version
    BY <2>3, <2>5 DEF LookupTypes
  <2>8. Stage' = [Stage EXCEPT ![r] = "shown"] /\ Version' = [Version EXCEPT ![r] = c.version]
    <3>1. \A q \in Requests \ {r} : version'[q] = version[q]
      BY <2>3 DEF LookupTypes
    <3>2. StageOf("shipment") = "shown" /\ Carries("shipment")
      BY DEF StageOf, Carries
    <3> QED
      BY <2>3, <2>7, <3>1, <3>2, StageMoves
  <2>9. Lookup!Reuse(r)
    BY <1>1, <2>4, <2>5, <2>6, <2>8 DEF Lookup!Reuse, Lookup!To
  <2> QED
    BY <2>9 DEF Lookup!Next
<1>3. CASE ~Cache!Hit(ref[r])
  <2>1. PICK p \in {"resolving", "scraping", "unavailable"} : pc' = [pc EXCEPT ![r] = p]
    BY <1>3 DEF Start, FallbackOrFail, Goto
  <2>2. UNCHANGED <<version, via, ended>>
    BY <1>3 DEF Start, answer
  <2>3. Stage' = [Stage EXCEPT ![r] = StageOf(p)] /\ Version' = [Version EXCEPT ![r] = 0]
    BY <2>1, <2>2, StageMoves DEF Carries, StageOf
  <2>4. Shelf' = Shelf
    BY <1>1, <2>1, <2>2, ShelfSame DEF Fetched, LookupTypes
  <2>5. CASE p \in {"resolving", "scraping"}
    <3>1. Lookup!Ask(r)
      BY <1>1, <2>3, <2>4, <2>5 DEF Lookup!Ask, Lookup!To, StageOf
    <3> QED
      BY <3>1 DEF Lookup!Next
  <2>6. CASE p = "unavailable"
    <3>1. StageOf(p) = "failed"
      BY <2>6 DEF StageOf
    <3>2. Lookup!Fail({r})
      BY <1>1, <2>3, <2>4, <3>1 DEF Lookup!Fail, Stage, Version
    <3> QED
      BY <3>2 DEF Lookup!Next
  <2> QED
    BY <2>5, <2>6
<1> QED
  BY <1>2, <1>3

(* Land and LandScrape are an abstract Show that shelves its copy.          *)
LEMMA DeliverMaps ==
  ASSUME LookupInv, NEW r \in Requests, Land(r) \/ LandScrape(r)
  PROVE  Lookup!Next
<1> USE DEF LookupInv
<1>1. PICK w \in {"json", "html"} :
        /\ pc[r] \in {"landing", "scraped"}
        /\ pc' = [pc EXCEPT ![r] = "shipment"]
        /\ via' = [via EXCEPT ![r] = w]
        /\ ended' = [ended EXCEPT ![r] = now]
        /\ UNCHANGED <<now, world, ref, version>>
  BY DEF Land, LandScrape, Deliver, Finish, Goto
<1>2. Stage[r] = "holding" /\ Version[r] = version[r]
  BY <1>1 DEF Stage, Version, StageOf
<1>3. Stage' = [Stage EXCEPT ![r] = "shown"] /\ Version' = [Version EXCEPT ![r] = Version[r]]
  <2>1. StageOf("shipment") = "shown" /\ Carries("shipment")
    BY DEF StageOf, Carries
  <2> QED
    BY <1>1, <1>2, <2>1, StageMoves
<1>4. Shelf' = Shelf \cup {[ref |-> ref[r], version |-> version[r], since |-> now]}
  BY <1>1, ShelfGrows DEF Fetched, LookupTypes
<1>5. Lookup!Show(r)
  BY <1>1, <1>2, <1>3, <1>4 DEF Lookup!Show, Lookup!Put, Lookup!To, Lookup!Copy
<1> QED
  BY <1>5 DEF Lookup!Next

(* The steps in between read, lose what was read, fail or go unseen.        *)
LEMMA UpstreamMaps ==
  ASSUME LookupInv, NEW r \in Requests,
         Resolve(r) \/ ReadDetail(r) \/ NotFound(r) \/ PrimaryFails(r) \/ Escape(r)
           \/ Scrape(r) \/ ScrapeFails(r)
  PROVE  [Lookup!Next]_Lookup!vars
<1> USE DEF LookupInv
<1>1. /\ pc[r] \in OnPrimary \cup OnFallback
      /\ UNCHANGED <<now, world, ref, via, ended>>
  BY DEF Resolve, ReadDetail, NotFound, PrimaryFails, Escape, Scrape,
         ScrapeFails, answer, OnPrimary, OnFallback
<1>2. \A q \in Requests \ {r} : version'[q] = version[q]
  BY DEF Resolve, ReadDetail, NotFound, PrimaryFails, Escape, Scrape, ScrapeFails, LookupTypes
<1>3. Shelf' = Shelf
  <2>1. \A q \in Requests : pc'[q] = "shipment" <=> pc[q] = "shipment"
    BY <1>1 DEF Resolve, ReadDetail, NotFound, PrimaryFails, FallbackOrFail, Escape, Scrape,
         ScrapeFails, Goto, OnPrimary, OnFallback, LookupTypes
  <2>2. pc[r] # "shipment"
    BY <1>1 DEF OnPrimary, OnFallback
  <2> QED
    BY <1>1, <1>2, <2>1, <2>2, ShelfSame DEF Fetched
<1>4. CASE ReadDetail(r) \/ Scrape(r)
  <2>1. PICK p \in {"landing", "scraped"} :
          /\ pc' = [pc EXCEPT ![r] = p]
          /\ pc[r] \in {"detail", "scraping"}
          /\ version' = [version EXCEPT ![r] = world[ref[r]]]
          /\ world[ref[r]] > 0
    BY <1>4 DEF ReadDetail, Scrape, Goto, Located
  <2>2. version'[r] = world[ref[r]] /\ Stage[r] = "asking"
    BY <2>1 DEF LookupTypes, Stage, StageOf
  <2>3. StageOf(p) = "holding" /\ Carries(p)
    BY DEF StageOf, Carries
  <2>4. Stage' = [Stage EXCEPT ![r] = "holding"] /\ Version' = [Version EXCEPT ![r] = world[ref[r]]]
    BY <1>2, <2>1, <2>2, <2>3, StageMoves
  <2>5. Lookup!Read(r)
    BY <1>1, <1>3, <2>1, <2>2, <2>4 DEF Lookup!Read, Lookup!To
  <2> QED
    BY <2>5 DEF Lookup!Next
<1>5. CASE Resolve(r) \/ NotFound(r) \/ PrimaryFails(r) \/ Escape(r) \/ ScrapeFails(r)
  <2>1. PICK p \in {"detail", "scraping", "not_found", "unavailable", "escaped"} :
          /\ pc' = [pc EXCEPT ![r] = p]
          /\ p = "detail" => pc[r] = "resolving"
          /\ p = "scraping" => pc[r] \in OnPrimary
    BY <1>5 DEF Resolve, NotFound, PrimaryFails, FallbackOrFail, Escape, ScrapeFails, Goto
  <2>2. Stage' = [Stage EXCEPT ![r] = StageOf(p)] /\ Version' = [Version EXCEPT ![r] = 0]
    <3>1. ~Carries(p)
      BY DEF Carries, StageOf
    <3> QED
      BY <1>2, <2>1, <3>1, StageMoves
  <2>3. Stage[r] \in {"asking", "holding"} /\ (Stage[r] = "asking" => Version[r] = 0)
    BY <1>1 DEF Stage, Version, StageOf, OnPrimary, OnFallback
  <2>4. CASE p \in {"not_found", "unavailable", "escaped"}
    <3>1. StageOf(p) = "failed"
      BY <2>4 DEF StageOf
    <3>2. Lookup!Fail({r})
      BY <1>1, <1>3, <2>2, <2>3, <3>1 DEF Lookup!Fail, Stage, Version
    <3> QED
      BY <3>2 DEF Lookup!Next
  <2>5. CASE p \in {"detail", "scraping"}
    <3>1. StageOf(p) = "asking" /\ (p = "detail" => Stage[r] = "asking")
      BY <2>1, <2>5 DEF StageOf, Stage
    <3>2. CASE Stage[r] = "asking"
      <4>1. Stage' = Stage /\ Version' = Version
        BY <2>2, <2>3, <3>1, <3>2 DEF Stage, Version
      <4> QED
        BY <1>1, <1>3, <4>1 DEF Lookup!vars
    <3>3. CASE Stage[r] = "holding"
      <4>1. Lookup!Lose(r)
        BY <1>1, <1>3, <2>2, <3>1, <3>3 DEF Lookup!Lose, Lookup!To
      <4> QED
        BY <4>1 DEF Lookup!Next
    <3> QED
      BY <2>3, <3>2, <3>3
  <2> QED
    BY <2>4, <2>5
<1> QED
  BY <1>4, <1>5

(* Time and upstream are the same in both specifications.                   *)
LEMMA OutsideMaps ==
  ASSUME LookupInv, Tick \/ (\E k \in Refs : Publish(k)) \/ UNCHANGED vars
  PROVE  [Lookup!Next]_Lookup!vars
<1>1. UNCHANGED <<pc, ref, version, via, ended>>
  BY DEF Tick, Publish, answer, vars
<1>2. Stage' = Stage /\ Version' = Version /\ Shelf' = Shelf
  BY <1>1 DEF Stage, Version, Shelf, Fetched
<1>3. CASE Tick
  BY <1>1, <1>2, <1>3 DEF Tick, Lookup!Tick, Lookup!Next
<1>4. ASSUME NEW k \in Refs, Publish(k)
      PROVE  Lookup!Publish(k)
  BY <1>1, <1>2, <1>4 DEF Publish, Lookup!Publish
<1>5. CASE UNCHANGED vars
  BY <1>1, <1>2, <1>5 DEF vars, Lookup!vars
<1> QED
  BY <1>3, <1>4, <1>5 DEF Lookup!Next

(* Every answer get_shipment gives was read from upstream while its caller
   waited or is a copy less than TTL old: the service implements
   ShipmentLookup.                                                           *)
THEOREM ServiceImplementsLookup == Spec => ImplementsLookup
<1>1. Init => Lookup!Init
  <2> SUFFICES ASSUME Init
               PROVE  Lookup!Init
    OBVIOUS
  <2>1. world \in [Refs -> 0..MaxVersion]
    BY TrackingAssumption DEF Init
  <2>2. Stage = [r \in Requests |-> "idle"] /\ Version = [r \in Requests |-> 0]
    BY DEF Init, Stage, Version, StageOf
  <2>3. Shelf = {}
    BY DEF Init, Shelf, Fetched
  <2> QED
    BY <2>1, <2>2, <2>3 DEF Init, Lookup!Init
<1>2. LookupInv /\ [Next]_vars => [Lookup!Next]_Lookup!vars
  BY StartMaps, DeliverMaps, UpstreamMaps, OutsideMaps DEF Next, Progress
<1>3. QED
  BY <1>1, <1>2, LookupInvariant, PTL DEF Spec, ImplementsLookup, Lookup!Spec
=============================================================================
