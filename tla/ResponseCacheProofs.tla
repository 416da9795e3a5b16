------------------------- MODULE ResponseCacheProofs -------------------------
(***************************************************************************)
(* Proofs about ResponseCache for any keys and values, any size and life   *)
(* of an entry, and any run length.                                        *)
(***************************************************************************)
EXTENDS ResponseCache, SequenceLemmas, FiniteSetTheorems

USE CacheAssumption, RunAssumption

-----------------------------------------------------------------------------
(* What the operations do to the sequence of entries *)

OneEach(s) == \A i, j \in DOMAIN s : s[i].key = s[j].key => i = j

(* Taking k out drops its entry and moves the later ones up.                *)
LEMMA WithoutElements ==
  ASSUME data \in Seq(Entries), OneEach(data), NEW STATE k
  PROVE  /\ Without(k) \in Seq(Entries) /\ OneEach(Without(k))
         /\ \A j \in DOMAIN Without(k) : Without(k)[j].key # k
         /\ ~Holds(k) => Without(k) = data
         /\ Holds(k) =>
              /\ Len(Without(k)) = Len(data) - 1
              /\ \A j \in DOMAIN Without(k) :
                   Without(k)[j] = data[IF j < PlaceOf(k) THEN j ELSE j + 1]
<1>1. CASE Holds(k)
  <2> DEFINE p == PlaceOf(k)
             d == Drop(data, p)
  <2>1. p \in 1..Len(data) /\ data[p].key = k
    BY <1>1 DEF Holds, PlaceOf
  <2>2. Without(k) = d
    BY <1>1 DEF Without, Drop
  <2> HIDE DEF p
  <2>3. /\ d \in Seq(Entries) /\ Len(d) = Len(data) - 1
        /\ \A j \in 1..(p - 1) : d[j] = data[j]
        /\ \A j \in p..(Len(data) - 1) : d[j] = data[j + 1]
    BY <2>1, DropElements
  <2> HIDE DEF d
  <2>4. \A j \in DOMAIN d : d[j] = data[IF j < p THEN j ELSE j + 1]
    BY <2>1, <2>3
  <2>5. \A j \in DOMAIN d : (IF j < p THEN j ELSE j + 1) \in DOMAIN data \ {p}
    BY <2>1, <2>3
  <2>6. \A j \in DOMAIN d : d[j].key # k
    BY <2>1, <2>4, <2>5 DEF OneEach
  <2>7. OneEach(d)
    <3> SUFFICES ASSUME NEW i \in DOMAIN d, NEW j \in DOMAIN d, d[i].key = d[j].key
                 PROVE  i = j
      BY DEF OneEach
    <3>1. (IF i < p THEN i ELSE i + 1) = (IF j < p THEN j ELSE j + 1)
      BY <2>4, <2>5 DEF OneEach
    <3>2. i \in Int /\ j \in Int /\ p \in Int
      BY <2>1, <2>3
    <3> QED
      BY <3>1, <3>2
  <2> QED
    BY <1>1, <2>2, <2>3, <2>4, <2>6, <2>7 DEF p
<1>2. CASE ~Holds(k)
  BY <1>2 DEF Without, Holds
<1> QED
  BY <1>1, <1>2

(* What is left was there before.                                           *)
LEMMA WithoutKeeps ==
  ASSUME data \in Seq(Entries), OneEach(data), NEW STATE k
  PROVE  \A j \in DOMAIN Without(k) : \E i \in DOMAIN data : Without(k)[j] = data[i]
<1>1. CASE Holds(k)
  <2> DEFINE p == PlaceOf(k)
             w == Without(k)
  <2>1. /\ w \in Seq(Entries) /\ Len(w) = Len(data) - 1
        /\ \A j \in DOMAIN w : w[j] = data[IF j < p THEN j ELSE j + 1]
    BY <1>1, WithoutElements
  <2>2. p \in DOMAIN data
    BY <1>1 DEF Holds, PlaceOf
  <2> HIDE DEF p, w
  <2>3. \A j \in DOMAIN w : (IF j < p THEN j ELSE j + 1) \in DOMAIN data
    BY <2>1, <2>2
  <2>4. \A j \in DOMAIN w : \E i \in DOMAIN data : w[j] = data[i]
    BY <2>1, <2>3
  <2> QED
    BY <2>4 DEF w
<1> QED
  BY <1>1, WithoutElements

(* Every entry holds the latest value set for its key, for TTL since.       *)
Faithful ==
  \A i \in DOMAIN data :
    LET set == latest[data[i].key] IN
      /\ set # Nothing
      /\ data[i].value = set.value /\ data[i].expires = set.since + TTL

(* The entries are in the order of use: what comes after an entry has been
   used since it was.                                                       *)
InOrder(s, used) ==
  \A i, j \in DOMAIN s : i < j => s[j].key \in used[s[i].key]

Recency ==
  /\ InOrder(data, since)
  /\ \A k \in Keys : IsFiniteSet(since[k])

CacheInv == TypeOK /\ Bounded /\ Faithful /\ Recency /\ RecentKept

(* Using a key, whether a hit or a set: its entry goes to the end, and if
   that makes one too many the first goes, which MaxSize others follow.     *)
LEMMA Used ==
  ASSUME CacheInv, NEW k \in Keys, NEW e \in Entries, e.key = k,
         data' = Trim(Append(Without(k), e)), Using(k)
  PROVE  /\ data' \in Seq(Entries) /\ Bounded' /\ Recency'
         /\ \A j \in DOMAIN data' :
              \/ data'[j] = e
              \/ \E i \in DOMAIN data : data'[j] = data[i] /\ data[i].key # k
         /\ \A q \in Keys : (q = k \/ Holds(q)) /\ ~Holds(q)' => MaxSize <= Cardinality(since'[q])
<1> DEFINE w == Without(k)
           a == Append(w, e)
<1>1. /\ data \in Seq(Entries) /\ OneEach(data) /\ Len(data) <= MaxSize
      /\ since \in [Keys -> SUBSET Keys]
  BY DEF CacheInv, TypeOK, Bounded, OneEach
<1>2. /\ w \in Seq(Entries) /\ OneEach(w) /\ Len(w) <= Len(data)
      /\ \A j \in DOMAIN w : w[j].key # k
      /\ ~Holds(k) => w = data
      /\ Holds(k) => /\ Len(w) = Len(data) - 1
                     /\ \A j \in DOMAIN w : w[j] = data[IF j < PlaceOf(k) THEN j ELSE j + 1]
  BY <1>1, WithoutElements
<1>3. Holds(k) => PlaceOf(k) \in DOMAIN data
  BY DEF Holds, PlaceOf
<1> HIDE DEF w
<1>4. \A j \in DOMAIN w : \E i \in DOMAIN data : w[j] = data[i]
  BY <1>1, WithoutKeeps DEF w
<1>5. \A i \in DOMAIN data : data[i].key # k => \E j \in DOMAIN w : w[j] = data[i]
  <2>1. CASE Holds(k)
    <3> DEFINE p == PlaceOf(k)
    <3>1. p \in DOMAIN data /\ data[p].key = k
      BY <2>1 DEF Holds, PlaceOf
    <3> SUFFICES ASSUME NEW i \in DOMAIN data, data[i].key # k
                 PROVE  \E j \in DOMAIN w : w[j] = data[i]
      OBVIOUS
    <3> HIDE DEF p
    <3>2. w \in Seq(Entries) /\ Len(w) = Len(data) - 1
      BY <1>2, <2>1
    <3>3. \A j \in DOMAIN w : w[j] = data[IF j < p THEN j ELSE j + 1]
      BY <1>2, <2>1 DEF p
    <3>4. CASE i < p
      <4>1. i \in DOMAIN w
        BY <1>1, <3>1, <3>2, <3>4
      <4> QED
        BY <3>3, <3>4, <4>1
    <3>5. CASE i > p
      <4>1. i - 1 \in DOMAIN w /\ ~(i - 1 < p) /\ (i - 1) + 1 = i
        BY <1>1, <3>1, <3>2, <3>5
      <4> QED
        BY <3>3, <4>1
    <3> QED
      BY <1>1, <3>1, <3>4, <3>5
  <2>2. CASE ~Holds(k)
    BY <1>2, <2>2
  <2> QED
    BY <2>1, <2>2
<1>6. InOrder(w, since)
  <2>1. CASE Holds(k)
    <3> DEFINE p == PlaceOf(k)
               place(j) == IF j < p THEN j ELSE j + 1
    <3>1. p \in Int
      BY <1>1, <1>3, <2>1
    <3> HIDE DEF p
    <3>2. \A j \in DOMAIN w : place(j) \in DOMAIN data /\ w[j] = data[place(j)]
      BY <1>1, <1>2, <1>3, <2>1 DEF p
    <3>3. \A i, j \in DOMAIN w : i < j => place(i) < place(j)
      BY <1>2, <3>1
    <3> HIDE DEF place
    <3> QED
      BY <3>2, <3>3 DEF CacheInv, Recency, InOrder
  <2>2. CASE ~Holds(k)
    BY <1>2, <2>2 DEF CacheInv, Recency
  <2> QED
    BY <2>1, <2>2
<1>7. /\ a \in Seq(Entries) /\ Len(a) = Len(w) + 1 /\ a[Len(a)] = e
      /\ \A j \in 1..Len(w) : a[j] = w[j]
  BY <1>2
<1> HIDE DEF a
<1>8. OneEach(a)
  BY <1>2, <1>7 DEF OneEach
<1>9. \A q \in Keys : since'[q] = IF q = k THEN {} ELSE since[q] \cup {k}
  BY DEF Using
<1>10. InOrder(a, since')
  <2> SUFFICES ASSUME NEW i \in DOMAIN a, NEW j \in DOMAIN a, i < j
               PROVE  a[j].key \in since'[a[i].key]
    BY DEF InOrder
  <2>1. i \in DOMAIN w /\ a[i] = w[i] /\ w[i].key # k /\ w[i].key \in Keys
    <3>1. i \in DOMAIN w
      BY <1>2, <1>7
    <3>2. w[i] \in Entries
      BY <1>2, <3>1
    <3>3. a[i] = w[i]
      BY <1>7, <3>1
    <3>4. w[i].key # k
      BY <1>2, <3>1
    <3> QED
      BY <3>1, <3>2, <3>3, <3>4 DEF Entries
  <2>2. CASE j = Len(a)
    <3>1. a[j].key = k
      BY <1>7, <2>2
    <3>2. since'[a[i].key] = since[a[i].key] \cup {k}
      BY <1>9, <2>1
    <3> QED
      BY <3>1, <3>2
  <2>3. CASE j # Len(a)
    <3>1. j \in DOMAIN w /\ a[j] = w[j]
      BY <1>2, <1>7, <2>3
    <3> QED
      BY <1>6, <1>9, <2>1, <3>1 DEF InOrder
  <2> QED
    BY <2>2, <2>3
<1>11. \A q \in Keys : IsFiniteSet(since'[q])
  <2> SUFFICES ASSUME NEW q \in Keys
               PROVE  IsFiniteSet(since'[q])
    OBVIOUS
  <2>1. IsFiniteSet(since[q] \cup {k}) /\ IsFiniteSet({})
    BY FS_EmptySet, FS_AddElement DEF CacheInv, Recency
  <2> QED
    BY <1>9, <2>1
<1>12. /\ \A j \in DOMAIN a : a[j] = e \/ \E i \in DOMAIN data : a[j] = data[i] /\ data[i].key # k
       /\ \A q \in Keys : q = k \/ Holds(q) => \E j \in DOMAIN a : a[j].key = q
  <2>1. \A j \in DOMAIN a : a[j] = e \/ \E i \in DOMAIN data : a[j] = data[i] /\ data[i].key # k
    <3> SUFFICES ASSUME NEW j \in DOMAIN a, a[j] # e
                 PROVE  \E i \in DOMAIN data : a[j] = data[i] /\ data[i].key # k
      OBVIOUS
    <3>1. j \in DOMAIN w /\ a[j] = w[j]
      BY <1>2, <1>7
    <3> QED
      BY <1>2, <1>4, <3>1
  <2>2. ASSUME NEW q \in Keys, q = k
        PROVE  \E j \in DOMAIN a : a[j].key = q
    <3>1. Len(a) \in DOMAIN a
      BY <1>2, <1>7
    <3> QED
      BY <1>7, <2>2, <3>1
  <2>3. ASSUME NEW q \in Keys, q # k, Holds(q)
        PROVE  \E j \in DOMAIN a : a[j].key = q
    <3>1. PICK j \in DOMAIN w : w[j].key = q
      BY <1>5, <2>3 DEF Holds
    <3>2. j \in DOMAIN a /\ a[j] = w[j]
      BY <1>2, <1>7
    <3> QED
      BY <3>1, <3>2
  <2> QED
    BY <2>1, <2>2, <2>3
<1>13. CASE Len(a) <= MaxSize
  <2>1. data' = a
    BY <1>13, <1>7 DEF Trim, a, w
  <2> QED
    BY <1>7, <1>8, <1>10, <1>11, <1>12, <1>13, <2>1 DEF Bounded, OneEach, Recency, Holds
<1>14. CASE Len(a) > MaxSize
  <2> DEFINE t == SubSeq(a, Len(a) - MaxSize + 1, Len(a))
  <2>1. data' = t
    BY <1>14, <1>7 DEF Trim, a, w
  <2>2. Len(a) = MaxSize + 1
    BY <1>1, <1>2, <1>7, <1>14
  <2>3. /\ t \in Seq(Entries) /\ Len(t) = MaxSize
        /\ \A j \in 1..MaxSize : t[j] = a[j + (Len(a) - MaxSize)]
    BY <1>7, <1>14, LastElements
  <2> HIDE DEF t
  <2>4. \A j \in DOMAIN t : j \in 1..MaxSize /\ j + 1 \in DOMAIN a /\ t[j] = a[j + 1]
    BY <1>7, <2>2, <2>3
  <2>5. Bounded'
    <3>1. OneEach(t)
      <4>1. \A i, j \in DOMAIN t : t[i].key = t[j].key => i + 1 = j + 1
        BY <1>8, <2>4 DEF OneEach
      <4> QED
        BY <2>4, <4>1 DEF OneEach
    <3> QED
      BY <2>1, <2>3, <3>1 DEF Bounded, OneEach
  <2>6. Recency'
    BY <1>10, <1>11, <2>1, <2>4 DEF Recency, InOrder
  <2>7. ASSUME NEW q \in Keys, q = k \/ Holds(q), ~Holds(q)'
        PROVE  MaxSize <= Cardinality(since'[q])
    <3>1. PICK i \in DOMAIN a : a[i].key = q
      BY <1>12, <2>7
    <3>2. i = 1
      <4>1. CASE i # 1
        <5>1. i \in 2..(MaxSize + 1)
          BY <1>7, <2>2, <4>1
        <5>2. i - 1 \in DOMAIN t /\ i = (i - 1) + 1
          BY <2>3, <5>1
        <5>3. t[i - 1] = a[i]
          BY <2>4, <5>2
        <5> QED
          BY <2>1, <2>7, <3>1, <5>2, <5>3 DEF Holds
      <4> QED
        BY <4>1
    <3> DEFINE f == [j \in 1..MaxSize |-> t[j].key]
    <3>3. \A j \in 1..MaxSize : j \in DOMAIN t
      BY <2>3
    <3>4. \A j \in 1..MaxSize : t[j].key \in since'[q]
      BY <1>10, <2>4, <3>1, <3>2, <3>3 DEF InOrder
    <3>5. \A m, n \in 1..MaxSize : t[m].key = t[n].key => m = n
      BY <1>8, <2>4, <3>3 DEF OneEach
    <3>6. f \in Injection(1..MaxSize, since'[q])
      BY <3>4, <3>5 DEF Injection, IsInjective
    <3>7. Cardinality(1..MaxSize) <= Cardinality(since'[q])
      BY <1>11, <3>6, FS_Injection
    <3>8. Cardinality(1..MaxSize) = MaxSize
      <4>1. Cardinality(1..MaxSize) = IF 1 > MaxSize THEN 0 ELSE MaxSize - 1 + 1
        BY FS_Interval
      <4> QED
        BY <4>1
    <3> QED
      BY <3>7, <3>8
  <2> QED
    BY <1>12, <2>1, <2>3, <2>4, <2>5, <2>6, <2>7
<1> QED
  BY <1>2, <1>7, <1>13, <1>14

-----------------------------------------------------------------------------
(* The steps *)

(* After using k, a recent key that is missing has been passed over by
   MaxSize others, whether it was missing before or has just been evicted.  *)
LEMMA KeptAfterUse ==
  ASSUME CacheInv, NEW k \in Keys, Using(k), now' = now,
         \A q \in Keys \ {k} : latest'[q] = latest[q],
         \A q \in Keys : (q = k \/ Holds(q)) /\ ~Holds(q)' => MaxSize <= Cardinality(since'[q])
  PROVE  RecentKept'
<1> SUFFICES ASSUME NEW q \in Keys, latest'[q] # Nothing, now < latest'[q].since + TTL,
                    q # k, ~Holds(q), ~Holds(q)'
             PROVE  MaxSize <= Cardinality(since'[q])
  BY DEF RecentKept
<1>1. MaxSize <= Cardinality(since[q])
  BY DEF CacheInv, RecentKept
<1>2. since'[q] = since[q] \cup {k}
  BY DEF Using
<1>3. IsFiniteSet(since[q])
  BY DEF CacheInv, Recency
<1>4. Cardinality(since[q]) \in Nat
  BY <1>3, FS_CardinalityType
<1>5. Cardinality(since[q] \cup {k}) =
        IF k \in since[q] THEN Cardinality(since[q]) ELSE Cardinality(since[q]) + 1
  BY <1>3, FS_AddElement
<1> QED
  BY <1>1, <1>2, <1>4, <1>5

(* The history of uses keeps its type.                                      *)
LEMMA UsingTypes ==
  ASSUME TypeOK, NEW k \in Keys, Using(k)
  PROVE  since' \in [Keys -> SUBSET Keys]
BY DEF TypeOK, Using

(* What a hit finds is the latest value set, and it is still young.         *)
LEMMA HitEntry ==
  ASSUME CacheInv, NEW k \in Keys, Hit(k)
  PROVE  /\ EntryOf(k) \in Entries /\ EntryOf(k).key = k
         /\ \E i \in DOMAIN data : EntryOf(k) = data[i]
         /\ latest[k] # Nothing /\ EntryOf(k).value = latest[k].value
         /\ now < latest[k].since + TTL
<1>1. PlaceOf(k) \in DOMAIN data /\ EntryOf(k) = data[PlaceOf(k)] /\ EntryOf(k).key = k
      /\ now < EntryOf(k).expires
  BY DEF Hit, Holds, PlaceOf, EntryOf
<1> QED
  BY <1>1 DEF CacheInv, TypeOK, Faithful

(* A hit uses its key and changes nothing else.                             *)
LEMMA GetHit ==
  ASSUME CacheInv, NEW k \in Keys, Get(k), Hit(k)
  PROVE  CacheInv'
<1> DEFINE e == EntryOf(k)
<1>1. /\ e \in Entries /\ e.key = k /\ \E i \in DOMAIN data : e = data[i]
  BY HitEntry
<1>2. data' = Trim(Append(Without(k), e))
  <2>1. Without(k) \in Seq(Entries) /\ Len(Without(k)) = Len(data) - 1
    BY WithoutElements DEF Hit, CacheInv, TypeOK, Bounded, OneEach
  <2> DEFINE a == Append(Without(k), e)
  <2>2. Len(a) <= MaxSize
    BY <2>1 DEF CacheInv, TypeOK, Bounded
  <2>3. data' = a
    BY DEF Get, AfterGet
  <2> HIDE DEF a
  <2>4. Trim(a) = a
    <3>1. ~(Len(a) > MaxSize)
      <4>1. Len(a) \in Nat
        BY <1>1, <2>1 DEF a
      <4> QED
        BY <2>2, <4>1
    <3> QED
      BY <3>1 DEF Trim
  <2> QED
    BY <2>3, <2>4 DEF a
<1> HIDE DEF e
<1>3. Using(k) /\ UNCHANGED <<now, latest>> /\ reply' = [key |-> k, value |-> e.value]
  BY DEF Get, e
<1>4. /\ data' \in Seq(Entries) /\ Bounded' /\ Recency'
      /\ \A j \in DOMAIN data' :
           \/ data'[j] = e
           \/ \E i \in DOMAIN data : data'[j] = data[i] /\ data[i].key # k
      /\ \A q \in Keys : (q = k \/ Holds(q)) /\ ~Holds(q)' => MaxSize <= Cardinality(since'[q])
  BY <1>1, <1>2, <1>3, Used
<1>5. TypeOK'
  BY <1>1, <1>3, <1>4, UsingTypes DEF CacheInv, TypeOK, Entries
<1>6. Faithful'
  BY <1>1, <1>3, <1>4 DEF CacheInv, Faithful
<1>7. RecentKept'
  BY <1>3, <1>4, KeptAfterUse
<1> QED
  BY <1>4, <1>5, <1>6, <1>7 DEF CacheInv

(* A miss drops at most an entry that has expired.                          *)
LEMMA GetMiss ==
  ASSUME CacheInv, NEW k \in Keys, Get(k), ~Hit(k)
  PROVE  CacheInv'
<1>1. data' = Without(k) /\ UNCHANGED <<now, latest, since>> /\ reply' = Nothing
  BY DEF Get, AfterGet
<1>2. data \in Seq(Entries) /\ OneEach(data) /\ Len(data) <= MaxSize
  BY DEF CacheInv, TypeOK, Bounded, OneEach
<1>3. CASE ~Holds(k)
  <2>1. data' = data
    BY <1>1, <1>2, <1>3, WithoutElements
  <2> QED
    BY <1>1, <2>1 DEF CacheInv, TypeOK, Bounded, Faithful, Recency, InOrder, RecentKept, Holds
<1>4. CASE Holds(k)
  <2> DEFINE p == PlaceOf(k)
             place(j) == IF j < p THEN j ELSE j + 1
  <2>1. /\ p \in DOMAIN data /\ data[p].key = k /\ ~(now < data[p].expires)
    BY <1>4 DEF Holds, PlaceOf, Hit, EntryOf
  <2>2. /\ data' \in Seq(Entries) /\ OneEach(data') /\ Len(data') = Len(data) - 1
        /\ \A j \in DOMAIN data' : data'[j] = data[place(j)]
    BY <1>1, <1>2, <1>4, WithoutElements
  <2>3. \A j \in DOMAIN data' : place(j) \in DOMAIN data
    BY <1>2, <2>1, <2>2
  <2>4. \A i, j \in DOMAIN data' : i < j => place(i) < place(j)
    BY <1>2, <2>1, <2>2
  <2>5. \A i \in DOMAIN data \ {p} : \E j \in DOMAIN data' : data'[j] = data[i]
    <3> SUFFICES ASSUME NEW i \in DOMAIN data \ {p}
                 PROVE  \E j \in DOMAIN data' : place(j) = i
      BY <2>2
    <3>1. CASE i < p
      BY <1>2, <2>1, <2>2, <3>1
    <3>2. CASE i > p
      <4>1. i - 1 \in DOMAIN data' /\ place(i - 1) = i
        BY <1>2, <2>1, <2>2, <3>2
      <4> QED
        BY <4>1
    <3> QED
      BY <1>2, <2>1, <3>1, <3>2
  <2> HIDE DEF p, place
  <2>6. TypeOK'
    BY <1>1, <2>2 DEF CacheInv, TypeOK
  <2>7. Bounded'
    BY <1>2, <2>2 DEF CacheInv, Bounded, OneEach
  <2>8. Faithful'
    BY <1>1, <2>2, <2>3 DEF CacheInv, Faithful
  <2>9. Recency'
    BY <1>1, <2>2, <2>3, <2>4 DEF CacheInv, Recency, InOrder
  <2>10. RecentKept'
    <3> SUFFICES ASSUME NEW q \in Keys, latest[q] # Nothing, now < latest[q].since + TTL, ~Holds(q)'
                 PROVE  ~Holds(q)
      BY <1>1 DEF CacheInv, RecentKept
    <3> SUFFICES ASSUME NEW i \in DOMAIN data, data[i].key = q
                 PROVE  FALSE
      BY DEF Holds
    <3>1. i = p
      BY <2>5 DEF Holds
    <3> QED
      BY <2>1, <3>1 DEF CacheInv, Faithful
  <2> QED
    BY <2>6, <2>7, <2>8, <2>9, <2>10 DEF CacheInv
<1> QED
  BY <1>3, <1>4

(* A set writes the latest value and uses its key.                          *)
LEMMA SetStep ==
  ASSUME CacheInv, NEW k \in Keys, NEW v \in Values, Set(k, v)
  PROVE  CacheInv'
<1> DEFINE e == [key |-> k, expires |-> now + TTL, value |-> v]
<1>1. e \in Entries /\ e.key = k
  BY DEF CacheInv, TypeOK, Entries
<1>2. data' = Trim(Append(Without(k), e)) /\ Using(k) /\ now' = now /\ reply' = Nothing
  BY DEF Set, AfterSet
<1>3. latest' = [latest EXCEPT ![k] = [since |-> now, value |-> v]]
  BY DEF Set
<1>4. e.value = v /\ e.expires = now + TTL
  OBVIOUS
<1> HIDE DEF e
<1>5. /\ data' \in Seq(Entries) /\ Bounded' /\ Recency'
      /\ \A j \in DOMAIN data' :
           \/ data'[j] = e
           \/ \E i \in DOMAIN data : data'[j] = data[i] /\ data[i].key # k
      /\ \A q \in Keys : (q = k \/ Holds(q)) /\ ~Holds(q)' => MaxSize <= Cardinality(since'[q])
  BY <1>1, <1>2, Used
<1>6. TypeOK'
  BY <1>2, <1>3, <1>5, UsingTypes DEF CacheInv, TypeOK
<1>7. /\ latest'[k] = [since |-> now, value |-> v] /\ latest'[k] # Nothing
      /\ \A q \in Keys \ {k} : latest'[q] = latest[q]
  BY <1>3 DEF CacheInv, TypeOK
<1>8. Faithful'
  <2> SUFFICES ASSUME NEW j \in DOMAIN data'
               PROVE  /\ latest'[data'[j].key] # Nothing
                      /\ data'[j].value = latest'[data'[j].key].value
                      /\ data'[j].expires = latest'[data'[j].key].since + TTL
    BY DEF Faithful
  <2>1. CASE data'[j] = e
    BY <1>1, <1>4, <1>7, <2>1
  <2>2. ASSUME NEW i \in DOMAIN data, data'[j] = data[i], data[i].key # k
        PROVE  /\ latest'[data'[j].key] # Nothing
               /\ data'[j].value = latest'[data'[j].key].value
               /\ data'[j].expires = latest'[data'[j].key].since + TTL
    <3>1. data[i] \in Entries
      BY DEF CacheInv, TypeOK
    <3>2. data[i].key \in Keys
      BY <3>1 DEF Entries
    <3> QED
      BY <1>7, <2>2, <3>2 DEF CacheInv, Faithful
  <2> QED
    BY <1>5, <2>1, <2>2
<1>9. RecentKept'
  BY <1>2, <1>5, <1>7, KeptAfterUse
<1> QED
  BY <1>5, <1>6, <1>8, <1>9 DEF CacheInv

(* Time only makes entries older.                                           *)
LEMMA TickStep ==
  ASSUME CacheInv, Tick \/ UNCHANGED vars
  PROVE  CacheInv'
<1>1. UNCHANGED <<data, reply, latest, since>> /\ now' \in 0..MaxTime /\ now' >= now
  BY DEF Tick, vars, CacheInv, TypeOK
<1>2. TypeOK'
  BY <1>1 DEF CacheInv, TypeOK
<1>3. Bounded' /\ Faithful' /\ Recency'
  BY <1>1 DEF CacheInv, Bounded, Faithful, Recency, InOrder
<1>4. RecentKept'
  <2> SUFFICES ASSUME NEW q \in Keys, latest[q] # Nothing, now' < latest[q].since + TTL, ~Holds(q)
               PROVE  MaxSize <= Cardinality(since[q])
    BY <1>1 DEF RecentKept, Holds
  <2>1. latest[q].since \in Nat /\ now \in Nat
    BY DEF CacheInv, TypeOK
  <2> QED
    BY <1>1, <2>1 DEF CacheInv, RecentKept
<1> QED
  BY <1>2, <1>3, <1>4 DEF CacheInv

(* What every run keeps.                                                    *)
LEMMA CacheInvariant == Spec => []CacheInv
<1>1. Init => CacheInv
  <2> SUFFICES ASSUME Init
               PROVE  CacheInv
    OBVIOUS
  <2>1. TypeOK
    BY DEF Init, TypeOK
  <2>2. Bounded /\ Faithful /\ RecentKept
    BY DEF Init, Bounded, Faithful, RecentKept
  <2>3. Recency
    BY FS_EmptySet DEF Init, Recency, InOrder
  <2> QED
    BY <2>1, <2>2, <2>3 DEF CacheInv
<1>2. CacheInv /\ [Next]_vars => CacheInv'
  BY GetHit, GetMiss, SetStep, TickStep DEF Next
<1>3. QED
  BY <1>1, <1>2, PTL DEF Spec

-----------------------------------------------------------------------------
(* Every variable keeps its type.                                           *)
THEOREM TypeCorrect == Spec => []TypeOK
  BY CacheInvariant, PTL DEF CacheInv

(* The dictionary never exceeds its bound and holds a key once.             *)
THEOREM NeverTooLarge == Spec => []Bounded
  BY CacheInvariant, PTL DEF CacheInv

(* A key set less than TTL ago is missing only when MaxSize other keys have
   been used since it was.                                                  *)
THEOREM EvictsLeastRecentlyUsed == Spec => []RecentKept
  BY CacheInvariant, PTL DEF CacheInv

(* A get answers from what is stored, and forgets at most what has expired. *)
LEMMA GetMaps ==
  ASSUME CacheInv, NEW k \in Keys, Get(k)
  PROVE  Map!Next
<1>1. \A q \in Keys : Holds(q)' => Holds(q)
  <2>1. /\ data \in Seq(Entries) /\ Without(k) \in Seq(Entries)
        /\ \A j \in DOMAIN Without(k) : \E i \in DOMAIN data : Without(k)[j] = data[i]
    BY WithoutElements, WithoutKeeps DEF CacheInv, TypeOK, Bounded, OneEach
  <2>2. CASE Hit(k)
    <3>1. /\ data' = Append(Without(k), EntryOf(k)) /\ EntryOf(k) \in Entries
          /\ \E i \in DOMAIN data : EntryOf(k) = data[i]
      BY <2>2, HitEntry DEF Get, AfterGet
    <3>2. \A j \in DOMAIN data' :
            \/ data'[j] = EntryOf(k)
            \/ j \in DOMAIN Without(k) /\ data'[j] = Without(k)[j]
      BY <2>1, <3>1
    <3> QED
      BY <2>1, <3>1, <3>2 DEF Holds
  <2>3. CASE ~Hit(k)
    BY <2>1, <2>3 DEF Get, AfterGet, Holds
  <2> QED
    BY <2>2, <2>3
<1>2. latest' = latest /\ now' = now
  BY DEF Get
<1>3. \A q \in Keys : Stored'[q] \in {Stored[q], Nothing}
  BY <1>1, <1>2 DEF Stored
<1>4. Stored' \in Map!Forgotten(Stored)
  <2>1. Stored' = [q \in Keys |-> Stored'[q]]
    BY DEF Stored
  <2> QED
    BY <1>3, <2>1 DEF Map!Forgotten
<1>5. CASE Hit(k)
  <2>1. Stored[k] = latest[k]
    BY <1>5 DEF Stored, Hit
  <2>2. latest[k] # Nothing /\ now < latest[k].since + TTL
        /\ reply' = [key |-> k, value |-> latest[k].value]
    BY <1>5, HitEntry DEF Get
  <2> QED
    BY <1>2, <1>4, <2>1, <2>2 DEF Map!Get, Map!Next
<1>6. CASE ~Hit(k)
  BY <1>2, <1>4, <1>6 DEF Get, Map!Get, Map!Next
<1> QED
  BY <1>5, <1>6

(* A set stores its value, and forgets at most what it evicts.              *)
LEMMA SetMaps ==
  ASSUME CacheInv, NEW k \in Keys, NEW v \in Values, Set(k, v)
  PROVE  Map!Next
<1> DEFINE e == [key |-> k, expires |-> now + TTL, value |-> v]
           new == [since |-> now, value |-> v]
<1>1. e \in Entries /\ e.key = k
  BY DEF CacheInv, TypeOK, Entries
<1>2. data' = Trim(Append(Without(k), e)) /\ Using(k) /\ now' = now /\ reply' = Nothing
      /\ latest' = [latest EXCEPT ![k] = new]
  BY DEF Set, AfterSet
<1> HIDE DEF e, new
<1>3. \A j \in DOMAIN data' : data'[j] = e \/ \E i \in DOMAIN data : data'[j] = data[i]
  BY <1>1, <1>2, Used
<1>4. \A q \in Keys \ {k} : Holds(q)' => Holds(q)
  BY <1>1, <1>3 DEF Holds
<1>5. latest'[k] = new /\ \A q \in Keys \ {k} : latest'[q] = latest[q]
  BY <1>2 DEF CacheInv, TypeOK
<1> DEFINE base == [Stored EXCEPT ![k] = new]
<1>6. base \in [Keys -> {base[q] : q \in Keys}] /\ base[k] = new
      /\ \A q \in Keys \ {k} : base[q] = Stored[q]
  BY DEF Stored
<1> HIDE DEF base
<1>7. \A q \in Keys : Stored'[q] \in {base[q], Nothing}
  BY <1>4, <1>5, <1>6 DEF Stored
<1>8. Stored' \in Map!Forgotten(base)
  <2>1. Stored' = [q \in Keys |-> Stored'[q]]
    BY DEF Stored
  <2> QED
    BY <1>7, <2>1 DEF Map!Forgotten
<1> QED
  BY <1>2, <1>8 DEF base, new, Map!Set, Map!Next

(* A get that answers gives the latest value set for its key, less than TTL
   old: the cache implements ExpiringMap.                                   *)
THEOREM CacheImplementsMap == Spec => ImplementsMap
<1>1. Init => Map!Init
  BY DEF Init, Map!Init, Stored, Holds
<1>2. CacheInv /\ [Next]_vars => [Map!Next]_Map!vars
  <2> SUFFICES ASSUME CacheInv, [Next]_vars
               PROVE  [Map!Next]_Map!vars
    OBVIOUS
  <2>1. CASE Tick
    <3>1. Stored' = Stored
      BY <2>1 DEF Tick, Stored, Holds
    <3> QED
      BY <2>1, <3>1 DEF Tick, Map!Tick, Map!Next
  <2>2. CASE UNCHANGED vars
    BY <2>2 DEF vars, Map!vars, Stored, Holds
  <2> QED
    BY <2>1, <2>2, GetMaps, SetMaps DEF Next
<1>3. QED
  BY <1>1, <1>2, CacheInvariant, PTL DEF Spec, ImplementsMap, Map!Spec
=============================================================================
