--------------------------- MODULE PayloadsProofs ---------------------------
(***************************************************************************)
(* Proofs about the readings of upstream's answers: lists, payloads and    *)
(* pages of any length and content.                                        *)
(***************************************************************************)
EXTENDS Payloads, FiniteSetTheorems, TLAPS

-----------------------------------------------------------------------------
(* Sorting and choosing *)

(* p lists the places in I in the order of their keys, each one once.       *)
Orders(p, I, key) ==
  /\ p \in [1..Cardinality(I) -> I]
  /\ \A i \in I : \E a \in 1..Cardinality(I) : p[a] = i
  /\ \A a, b \in 1..Cardinality(I) : a < b => Precedes(key, p[a], p[b])

(* An arranged sequence holds every element once, in the order of the keys
   and, where these are equal, in that of the places.                       *)
LEMMA ArrangedOrders ==
  ASSUME NEW s, NEW I \in SUBSET Int, IsFiniteSet(I),
         NEW key, \A i \in I : key[i] \in Int
  PROVE  \E p : /\ Orders(p, I, key)
                /\ Arranged(s, I, key) = [k \in 1..Cardinality(I) |-> s[p[k]]]
<1> DEFINE n == Cardinality(I)
           Before(i) == {j \in I : Precedes(key, j, i)}
           place == [i \in I |-> Cardinality(Before(i)) + 1]
           p == [k \in 1..n |-> CHOOSE i \in I : Cardinality(Before(i)) + 1 = k]
<1>1. n \in Nat
  BY FS_CardinalityType
<1>2. ASSUME NEW i \in I
      PROVE  /\ IsFiniteSet(Before(i)) /\ Cardinality(Before(i)) \in Nat
             /\ place[i] \in 1..n /\ i \notin Before(i)
  <2>1. Before(i) \in SUBSET (I \ {i}) /\ i \notin Before(i)
    BY DEF Precedes
  <2>2. IsFiniteSet(I \ {i}) /\ Cardinality(I \ {i}) = n - 1
    BY FS_RemoveElement
  <2>3. IsFiniteSet(Before(i)) /\ Cardinality(Before(i)) <= n - 1
    BY <2>1, <2>2, FS_Subset
  <2>4. Cardinality(Before(i)) \in Nat
    BY <2>3, FS_CardinalityType
  <2> QED
    BY <1>1, <2>1, <2>3, <2>4
<1>3. ASSUME NEW i \in I, NEW j \in I, Precedes(key, i, j)
      PROVE  place[i] < place[j]
  <2>1. Before(i) \cup {i} \in SUBSET Before(j)
    <3>1. \A m \in I : key[m] \in Int /\ m \in Int
      OBVIOUS
    <3>2. \A m \in I : Precedes(key, m, i) => Precedes(key, m, j)
      BY <1>3, <3>1 DEF Precedes
    <3> QED
      BY <1>3, <3>2
  <2>2. Cardinality(Before(i) \cup {i}) = Cardinality(Before(i)) + 1
    BY <1>2, FS_AddElement
  <2>3. Cardinality(Before(i) \cup {i}) <= Cardinality(Before(j))
    BY <1>2, <2>1, FS_Subset
  <2> QED
    BY <1>2, <2>2, <2>3
<1>4. \A i, j \in I : i # j => Precedes(key, i, j) \/ Precedes(key, j, i)
  BY DEF Precedes
<1>5. \A i, j \in I : place[i] = place[j] => i = j
  BY <1>2, <1>3, <1>4
<1>6. \A k \in 1..n : \E i \in I : place[i] = k
  <2>1. place \in Injection(I, 1..n)
    BY <1>2, <1>5 DEF Injection, IsInjective
  <2>2. IsFiniteSet(1..n) /\ Cardinality(1..n) = n
    BY <1>1, FS_Interval
  <2>3. place \in Surjection(I, 1..n)
    BY <2>1, <2>2, FS_Injection
  <2> QED
    BY <2>3 DEF Surjection
<1>7. \A k \in 1..n : p[k] \in I /\ place[p[k]] = k
  <2> SUFFICES ASSUME NEW k \in 1..n
               PROVE  p[k] \in I /\ place[p[k]] = k
    OBVIOUS
  <2>1. \E i \in I : Cardinality(Before(i)) + 1 = k
    BY <1>6
  <2>2. p[k] \in I /\ Cardinality(Before(p[k])) + 1 = k
    BY <2>1
  <2> QED
    BY <2>2
<1>8. Arranged(s, I, key) = [k \in 1..n |-> s[p[k]]]
  BY DEF Arranged
<1>9. p \in [1..n -> I]
  BY <1>7
<1> HIDE DEF place, p
<1>10. \A i \in I : \E a \in 1..n : p[a] = i
  BY <1>2, <1>5, <1>7
<1>11. ASSUME NEW a \in 1..n, NEW b \in 1..n, a < b
       PROVE  Precedes(key, p[a], p[b])
  <2>1. p[a] # p[b]
    BY <1>7, <1>11
  <2>2. ~ Precedes(key, p[b], p[a])
    <3>1. SUFFICES ASSUME Precedes(key, p[b], p[a]) PROVE FALSE
      OBVIOUS
    <3>2. place[p[b]] < place[p[a]]
      BY <1>3, <1>7, <3>1
    <3> QED
      BY <1>7, <1>11, <3>2
  <2> QED
    BY <1>4, <1>7, <2>1, <2>2
<1> QED
  BY <1>8, <1>9, <1>10, <1>11 DEF Orders

(* p sorts s.                                                               *)
Sorts(p, s, key) ==
  /\ p \in [1..Len(s) -> 1..Len(s)]
  /\ \A i \in 1..Len(s) : \E a \in 1..Len(s) : p[a] = i
  /\ \A a, b \in 1..Len(s) : a < b => Precedes(key, p[a], p[b])
  /\ Sorted(s, key) = [k \in 1..Len(s) |-> s[p[k]]]

(* A sorted sequence holds every element of s once.                         *)
LEMMA SortedOrders ==
  ASSUME NEW S, NEW s \in Seq(S), NEW key, \A i \in DOMAIN s : key[i] \in Int
  PROVE  \E p : Sorts(p, s, key)
<1> DEFINE n == Len(s)
           D == DOMAIN s
<1>1. n \in Nat /\ D = 1..n
  OBVIOUS
<1>2. \A i \in D : key[i] \in Int
  OBVIOUS
<1>3. Sorted(s, key) = Arranged(s, D, key)
  BY DEF Sorted
<1> HIDE DEF n, D
<1>4. IsFiniteSet(D) /\ Cardinality(D) = n
  <2>1. IsFiniteSet(1..n) /\ Cardinality(1..n) = IF 1 > n THEN 0 ELSE n - 1 + 1
    BY <1>1, FS_Interval
  <2> QED
    BY <1>1, <2>1
<1>5. D \in SUBSET Int
  BY <1>1
<1>6. PICK p : /\ Orders(p, D, key)
               /\ Sorted(s, key) = [k \in 1..Cardinality(D) |-> s[p[k]]]
  BY <1>2, <1>3, <1>4, <1>5, ArrangedOrders
<1>7. /\ p \in [1..n -> 1..n]
      /\ \A i \in 1..n : \E a \in 1..n : p[a] = i
      /\ \A a, b \in 1..n : a < b => Precedes(key, p[a], p[b])
      /\ Sorted(s, key) = [k \in 1..n |-> s[p[k]]]
  BY <1>1, <1>4, <1>6 DEF Orders
<1> QED
  BY <1>7 DEF n, Sorts

(* Chosen elements are those at the chosen places, each once, in order.     *)
LEMMA ChosenOrders ==
  ASSUME NEW S, NEW s \in Seq(S), NEW I \in SUBSET (DOMAIN s)
  PROVE  /\ Cardinality(I) \in Nat
         /\ \E p \in [1..Cardinality(I) -> I] :
              /\ \A i \in I : \E a \in 1..Cardinality(I) : p[a] = i
              /\ \A a, b \in 1..Cardinality(I) : a < b => p[a] < p[b]
              /\ Chosen(s, I) = [k \in 1..Cardinality(I) |-> s[p[k]]]
<1> DEFINE key == [i \in I |-> i]
<1>1. Len(s) \in Nat /\ DOMAIN s = 1..Len(s) /\ I \in SUBSET Int
  OBVIOUS
<1>2. IsFiniteSet(I) /\ Cardinality(I) \in Nat
  <2>1. IsFiniteSet(DOMAIN s)
    BY <1>1, FS_Interval
  <2>2. IsFiniteSet(I)
    BY <2>1, FS_Subset
  <2> QED
    BY <2>2, FS_CardinalityType
<1>3. \A i \in I : key[i] \in Int
  BY <1>1
<1>4. Chosen(s, I) = Arranged(s, I, key)
  BY DEF Chosen
<1> HIDE DEF key
<1>5. PICK p : /\ Orders(p, I, key)
               /\ Chosen(s, I) = [k \in 1..Cardinality(I) |-> s[p[k]]]
  BY <1>1, <1>2, <1>3, <1>4, ArrangedOrders
<1>6. \A a, b \in 1..Cardinality(I) : a < b => p[a] < p[b]
  <2> SUFFICES ASSUME NEW a \in 1..Cardinality(I), NEW b \in 1..Cardinality(I), a < b
               PROVE  p[a] < p[b]
    OBVIOUS
  <2>1. Precedes(key, p[a], p[b]) /\ p[a] \in I /\ p[b] \in I
    BY <1>5 DEF Orders
  <2>2. key[p[a]] = p[a] /\ key[p[b]] = p[b]
    BY <2>1 DEF key
  <2> QED
    BY <1>1, <2>1, <2>2 DEF Precedes
<1> QED
  BY <1>2, <1>5, <1>6 DEF Orders

(* The smallest of some places.                                             *)
LEMMA SmallestPlace ==
  ASSUME NEW s, NEW S, s \in Seq(S), NEW I \in SUBSET (DOMAIN s), I # {}
  PROVE  Min(I) \in I /\ \A i \in I : Min(I) <= i
<1>1. Cardinality(I) \in Nat
  BY ChosenOrders
<1>2. PICK p \in [1..Cardinality(I) -> I] :
        /\ \A i \in I : \E a \in 1..Cardinality(I) : p[a] = i
        /\ \A a, b \in 1..Cardinality(I) : a < b => p[a] < p[b]
  BY ChosenOrders
<1>3. 1 \in 1..Cardinality(I)
  BY <1>1, <1>2
<1>4. p[1] \in I /\ p[1] \in Int /\ \A i \in I : i \in Int
  BY <1>2, <1>3
<1>5. \A i \in I : p[1] <= i
  <2> SUFFICES ASSUME NEW i \in I
               PROVE  p[1] <= i
    OBVIOUS
  <2>1. PICK a \in 1..Cardinality(I) : p[a] = i
    BY <1>2
  <2>2. CASE a = 1
    BY <1>4, <2>1, <2>2
  <2>3. CASE a # 1
    <3>1. p[1] < p[a]
      BY <1>1, <1>2, <1>3, <2>3
    <3> QED
      BY <1>4, <2>1, <3>1
  <2> QED
    BY <2>2, <2>3
<1> QED
  BY <1>4, <1>5 DEF Min

-----------------------------------------------------------------------------
(* What is read from a JSON object is null or one of its values.            *)
LEMMA GetValue ==
  ASSUME NEW o, IsObject(o), NEW k
  PROVE  Get(o, k) = None \/ Get(o, k) \in ValuesOf(o)
BY DEF Get, ValuesOf

LEMMA FirstOfValue ==
  ASSUME NEW o, IsObject(o), NEW names
  PROVE  FirstOf(o, names) = None \/ FirstOf(o, names) \in ValuesOf(o)
BY GetValue DEF FirstOf

(* An object that is looked for in another one is one of its values, or has
   no values.                                                               *)
LEMMA ObjectOfValues ==
  ASSUME NEW o, IsObject(o), NEW names
  PROVE  /\ IsObject(ObjectOf(o, names))
         /\ ValuesOf(ObjectOf(o, names)) \subseteq Inside(ValuesOf(o))
<1> DEFINE v == FirstOf(o, names)
<1>1. CASE IsObject(v)
  <2>1. v # None
    BY <1>1 DEF None, IsObject
  <2>2. v \in ValuesOf(o)
    BY <2>1, FirstOfValue
  <2>3. ObjectOf(o, names) = v
    BY <1>1 DEF ObjectOf
  <2> QED
    BY <1>1, <2>2, <2>3 DEF Inside
<1>2. CASE ~IsObject(v)
  <2>1. ObjectOf(o, names) = Object(<<>>)
    BY <1>2 DEF ObjectOf
  <2>2. IsObject(Object(<<>>)) /\ ValuesOf(Object(<<>>)) = {}
    <3>1. DOMAIN <<>> = {}
      OBVIOUS
    <3> QED
      BY <3>1 DEF ValuesOf, IsObject, Object
  <2> QED
    BY <2>1, <2>2
<1> QED
  BY <1>1, <1>2

(* A number that int() refuses is an infinity.                              *)
LEMMA IntegerRefuses ==
  ASSUME NEW v, Integer(v).is \notin {"none", "number"}
  PROVE  v.is = "inf" /\ Integer(v) = v /\ v # None
BY DEF Integer, None

(* A field of the package that is no number comes from an infinity in the
   package or among its dimensions.                                         *)
LEMMA PackageOverflows ==
  ASSUME NEW o, IsObject(o),
         NEW f \in {"length_cm", "width_cm", "height_cm", "piece_count"},
         Package(o)[f].is \notin {"none", "number"}
  PROVE  \E v \in Inside(ValuesOf(o)) \cup Inside(Inside(ValuesOf(o))) : v.is = "inf"
<1> DEFINE pkg  == ObjectOf(o, <<"package", "goods">>)
           dims == ObjectOf(pkg, <<"dimensions">>)
           read(s) == IF Falsy(Get(dims, s)) THEN Get(pkg, s) ELSE Get(dims, s)
           told == FirstOf(pkg, <<"pieceCount", "pieces", "colli">>)
           fields == Inside(ValuesOf(o))
<1>1. IsObject(pkg) /\ ValuesOf(pkg) \subseteq fields
  BY ObjectOfValues
<1>2. IsObject(dims) /\ ValuesOf(dims) \subseteq Inside(fields)
  <2>1. IsObject(dims) /\ ValuesOf(dims) \subseteq Inside(ValuesOf(pkg))
    BY <1>1, ObjectOfValues
  <2>2. Inside(ValuesOf(pkg)) \subseteq Inside(fields)
    BY <1>1 DEF Inside
  <2> QED
    BY <2>1, <2>2
<1>3. /\ Package(o).length_cm = Integer(read("length"))
      /\ Package(o).width_cm = Integer(read("width"))
      /\ Package(o).height_cm = Integer(read("height"))
      /\ Package(o).piece_count = IF Falsy(Integer(told)) THEN Number(1) ELSE Integer(told)
  BY DEF Package
<1> HIDE DEF pkg, dims
<1>4. ASSUME NEW s, Integer(read(s)).is \notin {"none", "number"}
      PROVE  \E v \in fields \cup Inside(fields) : v.is = "inf"
  <2>1. read(s).is = "inf" /\ read(s) # None
    BY <1>4, IntegerRefuses
  <2>2. read(s) = Get(pkg, s) \/ read(s) = Get(dims, s)
    OBVIOUS
  <2>3. read(s) \in ValuesOf(pkg) \cup ValuesOf(dims)
    BY <1>1, <1>2, <2>1, <2>2, GetValue
  <2> QED
    BY <1>1, <1>2, <2>1, <2>3
<1>5. ASSUME Package(o).piece_count.is \notin {"none", "number"}
      PROVE  \E v \in fields \cup Inside(fields) : v.is = "inf"
  <2>1. Package(o).piece_count # Number(1)
    BY <1>5 DEF Number
  <2>2. Integer(told).is \notin {"none", "number"}
    BY <1>3, <1>5, <2>1
  <2>3. told.is = "inf" /\ told # None
    BY <2>2, IntegerRefuses
  <2>4. told \in ValuesOf(pkg)
    BY <1>1, <2>3, FirstOfValue
  <2> QED
    BY <1>1, <2>3, <2>4
<1> QED
  BY <1>3, <1>4, <1>5

(* The weight and the volume are values of the package, or null.            *)
LEMMA PackageMeasures ==
  ASSUME NEW o, IsObject(o), NEW f \in {"weight_kg", "volume_m3"}
  PROVE  Package(o)[f] = None \/ Package(o)[f] \in Inside(ValuesOf(o))
<1> DEFINE pkg == ObjectOf(o, <<"package", "goods">>)
           weight == FirstOf(pkg, <<"weight", "weightKg">>)
           volume == FirstOf(pkg, <<"volume", "volumeM3">>)
<1>1. Package(o).weight_kg = Decimal(weight) /\ Package(o).volume_m3 = Decimal(volume)
  BY DEF Package
<1>2. IsObject(pkg) /\ ValuesOf(pkg) \subseteq Inside(ValuesOf(o))
  BY ObjectOfValues
<1> HIDE DEF pkg
<1>3. \A v : Decimal(v) = None \/ Decimal(v) = v
  BY DEF Decimal
<1>4. /\ weight = None \/ weight \in ValuesOf(pkg)
      /\ volume = None \/ volume \in ValuesOf(pkg)
  BY <1>2, FirstOfValue
<1> QED
  BY <1>1, <1>2, <1>3, <1>4

(* The event told by an entry with a date has one of the entry's dates.     *)
LEMMA EventDate ==
  ASSUME NEW e, IsObject(e), Event(e).at # None
  PROVE  Event(e).at \in ValuesOf(e) /\ Event(e).at.is = "date"
<1> DEFINE v == FirstOf(e, <<"at", "timestamp", "eventTime">>)
<1>1. Event(e).at = Datetime(v)
  BY DEF Event
<1>2. v.is = "date" /\ Event(e).at = v /\ v # None
  BY <1>1 DEF Datetime
<1> QED
  BY <1>2, FirstOfValue

(* The dated entries are told each once, in order.                          *)
LEMMA DatedOrders ==
  ASSUME NEW S, NEW entries \in Seq(S)
  PROVE  LET n == Cardinality(Datable(entries))
         IN /\ n \in Nat
            /\ \E c \in [1..n -> Datable(entries)] :
                 /\ \A i \in Datable(entries) : \E a \in 1..n : c[a] = i
                 /\ \A a, b \in 1..n : a < b => c[a] < c[b]
                 /\ Dated(entries) = [k \in 1..n |-> Event(entries[c[k]])]
<1> DEFINE I == Datable(entries)
           n == Cardinality(I)
           dated == Chosen(entries, I)
<1>1. I \in SUBSET (DOMAIN entries)
  BY DEF Datable
<1>2. Dated(entries) = [k \in DOMAIN dated |-> Event(dated[k])]
  BY DEF Dated
<1> HIDE DEF I
<1>3. n \in Nat /\ \E c \in [1..n -> I] :
        /\ \A i \in I : \E a \in 1..n : c[a] = i
        /\ \A a, b \in 1..n : a < b => c[a] < c[b]
        /\ dated = [k \in 1..n |-> entries[c[k]]]
  BY <1>1, ChosenOrders
<1> HIDE DEF dated
<1>4. PICK c \in [1..n -> I] :
        /\ \A i \in I : \E a \in 1..n : c[a] = i
        /\ \A a, b \in 1..n : a < b => c[a] < c[b]
        /\ dated = [k \in 1..n |-> entries[c[k]]]
  BY <1>3
<1>5. Dated(entries) = [k \in 1..n |-> Event(entries[c[k]])]
  BY <1>2, <1>4
<1> QED
  BY <1>3, <1>4, <1>5 DEF I

(* The sorted history of a list of entries is a one-to-one account of those
   with a date, oldest first and stable.                                    *)
LEMMA HistoryOrders ==
  ASSUME NEW S, NEW entries \in Seq(S),
         \A i \in Datable(entries) : Event(entries[i]).at.at \in Int
  PROVE  LET events == Dated(entries)
             told == Sorted(events, [i \in DOMAIN events |-> events[i].at.at])
         IN \E from \in Bijection(DOMAIN told, Datable(entries)) :
              /\ \A i \in DOMAIN told : told[i] = Event(entries[from[i]])
              /\ \A i, j \in DOMAIN told :
                   i < j => \/ told[i].at.at < told[j].at.at
                            \/ told[i].at.at = told[j].at.at /\ from[i] < from[j]
<1> DEFINE I == Datable(entries)
           n == Cardinality(I)
           events == Dated(entries)
           key == [i \in DOMAIN events |-> events[i].at.at]
           told == Sorted(events, key)
<1>1. n \in Nat
  BY DatedOrders
<1>2. PICK c \in [1..n -> I] :
        /\ \A i \in I : \E a \in 1..n : c[a] = i
        /\ \A a, b \in 1..n : a < b => c[a] < c[b]
        /\ events = [k \in 1..n |-> Event(entries[c[k]])]
  BY DatedOrders
<1>3. I \in SUBSET Int
  BY DEF Datable
<1> HIDE DEF I, n, events
<1> DEFINE T == {events[k] : k \in 1..n}
<1>4. events \in Seq(T) /\ DOMAIN events = 1..n /\ Len(events) = n
  BY <1>1, <1>2
<1>5. \A k \in 1..n : events[k].at.at \in Int
  BY <1>2 DEF I
<1>6. \A k \in 1..n : key[k] = events[k].at.at
  BY <1>4
<1> HIDE DEF T, key
<1>7. PICK p \in [1..n -> 1..n] :
        /\ \A i \in 1..n : \E a \in 1..n : p[a] = i
        /\ \A a, b \in 1..n : a < b => Precedes(key, p[a], p[b])
        /\ told = [k \in 1..n |-> events[p[k]]]
  <2>1. \A k \in DOMAIN events : key[k] \in Int
    BY <1>4, <1>5, <1>6
  <2>2. events \in Seq(T) /\ Len(events) = n
    BY <1>4
  <2>3. PICK p : Sorts(p, events, key)
    BY <2>1, <2>2, SortedOrders
  <2> QED
    BY <2>2, <2>3 DEF Sorts
<1> HIDE DEF told
<1> DEFINE from == [k \in 1..n |-> c[p[k]]]
<1>8. DOMAIN told = 1..n /\ \A k \in 1..n : told[k] = events[p[k]] /\ from[k] = c[p[k]]
  BY <1>7
<1>9. from \in [1..n -> I]
  BY <1>2, <1>7
<1>10. \A a, b \in 1..n : a # b => p[a] # p[b]
  <2> SUFFICES ASSUME NEW a \in 1..n, NEW b \in 1..n, a < b
               PROVE  p[a] # p[b]
    BY <1>1
  <2>1. Precedes(key, p[a], p[b]) /\ p[a] \in 1..n /\ p[b] \in 1..n
    BY <1>7
  <2>2. key[p[a]] \in Int /\ p[a] \in Int
    BY <1>5, <1>6, <2>1
  <2> QED
    BY <2>1, <2>2 DEF Precedes
<1>11. \A a, b \in 1..n : a # b => c[a] # c[b]
  <2> SUFFICES ASSUME NEW a \in 1..n, NEW b \in 1..n, a < b
               PROVE  c[a] # c[b]
    BY <1>1
  <2>1. c[a] < c[b] /\ c[a] \in Int /\ c[b] \in Int
    BY <1>2, <1>3
  <2> QED
    BY <2>1
<1>12. \A k \in 1..n : p[k] \in 1..n /\ told[k] = Event(entries[from[k]])
  BY <1>2, <1>7, <1>8
<1>13. \A a, b \in 1..n : from[a] = from[b] => a = b
  BY <1>8, <1>10, <1>11, <1>12
<1>14. ASSUME NEW i \in I
       PROVE  \E a \in 1..n : from[a] = i
  <2>1. PICK b \in 1..n : c[b] = i
    BY <1>2
  <2>2. PICK a \in 1..n : p[a] = b
    BY <1>7
  <2> QED
    BY <1>8, <2>1, <2>2
<1>15. ASSUME NEW i \in 1..n, NEW j \in 1..n, i < j
       PROVE  \/ told[i].at.at < told[j].at.at
              \/ told[i].at.at = told[j].at.at /\ from[i] < from[j]
  <2>1. Precedes(key, p[i], p[j]) /\ p[i] \in 1..n /\ p[j] \in 1..n
    BY <1>7, <1>15
  <2>2. \/ told[i].at.at < told[j].at.at
        \/ told[i].at.at = told[j].at.at /\ p[i] < p[j]
    BY <1>6, <1>8, <2>1 DEF Precedes
  <2> QED
    BY <1>2, <1>8, <2>1, <2>2
<1> HIDE DEF from
<1>16. from \in Bijection(DOMAIN told, I)
  BY <1>8, <1>9, <1>13, <1>14 DEF Bijection, Injection, Surjection, IsInjective
<1>17. \E f \in Bijection(DOMAIN told, I) :
         /\ \A i \in DOMAIN told : told[i] = Event(entries[f[i]])
         /\ \A i, j \in DOMAIN told :
              i < j => \/ told[i].at.at < told[j].at.at
                       \/ told[i].at.at = told[j].at.at /\ f[i] < f[j]
  BY <1>8, <1>12, <1>15, <1>16
<1> QED
  BY <1>17 DEF told, key, events, I

(* Dates of two kinds in one history are dates of two entries.              *)
LEMMA ZonesDiffer ==
  ASSUME NEW S, NEW entries \in Seq(S), Cardinality(Zones(Dated(entries))) > 1
  PROVE  \E i, j \in Datable(entries) : Event(entries[i]).at.zone # Event(entries[j]).at.zone
<1> DEFINE I == Datable(entries)
           events == Dated(entries)
           Z == Zones(events)
<1>1. \A k \in DOMAIN events : \E i \in I : events[k] = Event(entries[i])
  BY DatedOrders
<1>2. Z = {events[k].at.zone : k \in DOMAIN events}
  BY DEF Zones
<1>3. ~ \E z : Z \subseteq {z}
  <2> SUFFICES ASSUME NEW z, Z \subseteq {z}
               PROVE  FALSE
    OBVIOUS
  <2>1. Z = {} \/ Z = {z}
    OBVIOUS
  <2>2. Cardinality(Z) = 0 \/ Cardinality(Z) = 1
    BY <2>1, FS_EmptySet, FS_Singleton
  <2> QED
    BY <2>2
<1> HIDE DEF I, events, Z
<1>4. \E x, y \in Z : x # y
  <2>1. CASE Z = {}
    BY <1>3, <2>1
  <2>2. CASE Z # {}
    <3>1. PICK x \in Z : TRUE
      BY <2>2
    <3> QED
      BY <1>3, <3>1
  <2> QED
    BY <2>1, <2>2
<1> QED
  BY <1>1, <1>2, <1>4 DEF I

(* The first of some chosen elements is the one at the smallest place.      *)
LEMMA ChosenFirst ==
  ASSUME NEW S, NEW s \in Seq(S), NEW I \in SUBSET (DOMAIN s)
  PROVE  /\ Chosen(s, I) = <<>> <=> I = {}
         /\ I # {} => /\ Len(Chosen(s, I)) \in Nat \ {0} /\ DOMAIN Chosen(s, I) = 1..Len(Chosen(s, I))
                      /\ \E i \in I : Chosen(s, I)[1] = s[i] /\ \A j \in I : i <= j
<1> DEFINE n == Cardinality(I)
<1>1. n \in Nat
  BY ChosenOrders
<1>2. PICK p \in [1..n -> I] :
        /\ \A i \in I : \E a \in 1..n : p[a] = i
        /\ \A a, b \in 1..n : a < b => p[a] < p[b]
        /\ Chosen(s, I) = [k \in 1..n |-> s[p[k]]]
  BY ChosenOrders
<1>3. \A i \in I : i \in Int
  OBVIOUS
<1> HIDE DEF n
<1>4. Chosen(s, I) \in Seq(S) /\ Len(Chosen(s, I)) = n
  <2>1. \A k \in 1..n : s[p[k]] \in S
    BY <1>2
  <2>2. Chosen(s, I) \in [1..n -> S]
    BY <1>2, <2>1
  <2> QED
    BY <1>1, <2>2
<1>5. n = 0 <=> I = {}
  <2>1. n # 0 => 1 \in 1..n
    BY <1>1
  <2>2. n # 0 => p[1] \in I
    BY <1>2, <2>1
  <2>3. n = 0 => 1..n = {}
    OBVIOUS
  <2> QED
    BY <1>2, <2>2, <2>3
<1>6. ASSUME I # {}
      PROVE  \E i \in I : Chosen(s, I)[1] = s[i] /\ \A j \in I : i <= j
  <2>1. 1 \in 1..n
    BY <1>1, <1>5, <1>6
  <2>2. ASSUME NEW j \in I
        PROVE  p[1] <= j
    <3>1. PICK a \in 1..n : p[a] = j
      BY <1>2
    <3>2. a = 1 \/ p[1] < p[a]
      BY <1>1, <1>2, <2>1
    <3> QED
      BY <1>2, <1>3, <2>1, <3>1, <3>2
  <2> QED
    BY <1>2, <2>1, <2>2
<1>7. Chosen(s, I) = <<>> <=> n = 0
  BY <1>1, <1>4
<1>8. DOMAIN Chosen(s, I) = 1..Len(Chosen(s, I)) /\ Len(Chosen(s, I)) \in Nat
  BY <1>1, <1>4
<1> QED
  BY <1>4, <1>5, <1>6, <1>7, <1>8

-----------------------------------------------------------------------------
(* The state: an answer of its stage, and nothing or what it reads as.      *)
Reading ==
  /\ stage \in {"resolver", "detail", "page"}
  /\ stage = "resolver" => input \in ResolverPayloads /\ output \in {Pending, Resolve(input)}
  /\ stage = "detail" => input \in DetailPayloads /\ output \in {Pending, Detail(input)}
  /\ stage = "page" => input \in Pages /\ output \in {Pending, Scrape(input)}

LEMMA ReadingInvariant == Spec => []Reading
<1>1. Init => Reading
  BY DEF Init, Reading
<1>2. Reading /\ [Next]_vars => Reading'
  <2> SUFFICES ASSUME Reading, [Next]_vars
               PROVE  Reading'
    OBVIOUS
  <2>1. CASE ReadResolver
    BY <2>1 DEF Reading, ReadResolver, Read
  <2>2. CASE ReadDetail
    BY <2>2 DEF Reading, ReadDetail, Read
  <2>3. CASE ReadPage
    BY <2>3 DEF Reading, ReadPage, Read
  <2>4. CASE UNCHANGED vars
    BY <2>4 DEF Reading, vars
  <2> QED
    BY <2>1, <2>2, <2>3, <2>4 DEF Next
<1> QED
  BY <1>1, <1>2, PTL DEF Spec

(* A list reads the same in "shipments", in "items" or bare.                *)
LEMMA WrappedItems ==
  ASSUME NEW v, v.is = "list"
  PROVE  /\ Items(v) = v
         /\ Items(Object([shipments |-> v])) = v
         /\ Items(Object([items |-> v])) = v
         /\ Items(Object([shipments |-> List(<<>>), items |-> v])) = v
<1>1. Items(v) = v
  BY DEF Items, IsObject
<1>2. Falsy(v) => v = List(<<>>)
  BY DEF Falsy, None, Empty, Number, Object
<1>3. Falsy(List(<<>>)) /\ Falsy(None)
  BY DEF Falsy
<1>4. ASSUME NEW f
      PROVE  /\ IsObject(Object(f)) /\ Object(f).is # "list" /\ Object(f).has = f
  BY DEF Object, IsObject
<1>5. ASSUME NEW f
      PROVE  Items(Object(f)) =
               IF ~Falsy(Get(Object(f), "shipments")) THEN Get(Object(f), "shipments")
               ELSE IF "items" \in DOMAIN f THEN f["items"] ELSE List(<<>>)
  BY <1>4 DEF Items
<1>6. Items(Object([shipments |-> v])) = v
  <2> DEFINE f == [shipments |-> v]
  <2>1. DOMAIN f = {"shipments"} /\ f["shipments"] = v
    OBVIOUS
  <2>2. Get(Object(f), "shipments") = v
    BY <1>4, <2>1 DEF Get
  <2> HIDE DEF f
  <2>3. Items(Object(f)) = v
    BY <1>2, <1>5, <2>1, <2>2
  <2> QED
    BY <2>3 DEF f
<1>7. Items(Object([items |-> v])) = v
  <2> DEFINE f == [items |-> v]
  <2>1. DOMAIN f = {"items"} /\ f["items"] = v
    OBVIOUS
  <2>2. Get(Object(f), "shipments") = None
    BY <1>4, <2>1 DEF Get
  <2> HIDE DEF f
  <2>3. Items(Object(f)) = v
    BY <1>3, <1>5, <2>1, <2>2
  <2> QED
    BY <2>3 DEF f
<1>8. Items(Object([shipments |-> List(<<>>), items |-> v])) = v
  <2> DEFINE f == [shipments |-> List(<<>>), items |-> v]
  <2>1. DOMAIN f = {"shipments", "items"} /\ f["shipments"] = List(<<>>) /\ f["items"] = v
    OBVIOUS
  <2>2. Get(Object(f), "shipments") = List(<<>>)
    BY <1>4, <2>1 DEF Get
  <2> HIDE DEF f
  <2>3. Items(Object(f)) = v
    BY <1>3, <1>5, <2>1, <2>2
  <2> QED
    BY <2>3 DEF f
<1> QED
  BY <1>1, <1>6, <1>7, <1>8

(* The wrapping of the resolver's list makes no difference.                 *)
THEOREM WrappingIrrelevant == Spec => []AnyWrapping
<1>1. Reading => AnyWrapping
  <2> SUFFICES ASSUME Reading, stage = "resolver", output # Pending, input.is = "list",
                      NEW x \in {Object([shipments |-> input]), Object([items |-> input]),
                                 Object([shipments |-> List(<<>>), items |-> input])}
               PROVE  Resolve(x) = output
    BY DEF AnyWrapping
  <2>1. Items(x) = Items(input)
    BY WrappedItems
  <2>2. output = Resolve(input)
    BY DEF Reading
  <2>3. Resolve(x) = Resolve(input)
    BY <2>1 DEF Resolve
  <2> QED
    BY <2>2, <2>3
<1> QED
  BY <1>1, ReadingInvariant, PTL

(* An item of the list that names a shipment.                               *)
Names(item) == IsObject(item) /\ Candidate(item).id # None

(* Told is the first item that names a shipment, under its identifier;
   "not found" means that none does, and an error that there is no list.    *)
FirstNamed ==
  stage = "resolver" /\ output # Pending =>
    LET items == Items(input)
    IN CASE output.out = "ParseError" -> items.is # "list"
         [] output.out = "NotFoundError" ->
              items.is = "list" /\ \A i \in DOMAIN items.of : ~Names(items.of[i])
         [] output.out = "candidate" ->
              /\ items.is = "list"
              /\ \E i \in DOMAIN items.of :
                   /\ Names(items.of[i]) /\ output.preferred = Candidate(items.of[i])
                   /\ \A j \in DOMAIN items.of : Names(items.of[j]) => i <= j
         [] OTHER -> FALSE

(* The resolver's answer is read as its first item that names a shipment, at
   any length of the list and whatever stands between its items.            *)
THEOREM FirstNamedPreferred == Spec => []FirstNamed
<1>1. Reading => FirstNamed
  <2> SUFFICES ASSUME Reading, stage = "resolver", output # Pending
               PROVE  FirstNamed
    BY DEF FirstNamed
  <2> DEFINE items == Items(input)
             named == {i \in DOMAIN items.of : Names(items.of[i])}
             chosen == Chosen(items.of, named)
             S == Range(items.of)
  <2>1. input \in ResolverPayloads /\ output = Resolve(input)
    BY DEF Reading
  <2>2. CASE items.is # "list"
    BY <2>1, <2>2 DEF Resolve, FirstNamed
  <2>3. CASE items.is = "list"
    <3>1. items.of \in Seq(S)
      BY <2>1, <2>3, ResolverAssumption DEF Json
    <3>2. named \in SUBSET (DOMAIN items.of)
      OBVIOUS
    <3>3. Candidates(items.of) = [k \in DOMAIN chosen |-> Candidate(chosen[k])]
      BY DEF Candidates, Names
    <3> HIDE DEF items, named, S
    <3>4. /\ chosen = <<>> <=> named = {}
          /\ named # {} => /\ Len(chosen) \in Nat \ {0} /\ DOMAIN chosen = 1..Len(chosen)
                           /\ \E i \in named : chosen[1] = items.of[i] /\ \A j \in named : i <= j
      BY <3>1, <3>2, ChosenFirst
    <3> HIDE DEF chosen
    <3>5. CASE named = {}
      <4>1. Candidates(items.of) = <<>>
        BY <3>3, <3>4, <3>5
      <4>2. output = [out |-> "NotFoundError"]
        BY <2>1, <2>3, <4>1 DEF Resolve, items
      <4> QED
        BY <2>3, <3>5, <4>2 DEF FirstNamed, items, named
    <3>6. CASE named # {}
      <4>1. PICK i \in named : chosen[1] = items.of[i] /\ \A j \in named : i <= j
        BY <3>4, <3>6
      <4>2. Candidates(items.of) # <<>> /\ Candidates(items.of)[1] = Candidate(items.of[i])
        BY <3>3, <3>4, <3>6, <4>1
      <4>3. output = [out |-> "candidate", preferred |-> Candidate(items.of[i])]
        BY <2>1, <2>3, <4>2 DEF Resolve, items
      <4> QED
        BY <2>3, <4>1, <4>3 DEF FirstNamed, items, named
    <3> QED
      BY <3>5, <3>6
  <2> QED
    BY <2>2, <2>3
<1> QED
  BY <1>1, ReadingInvariant, PTL

-----------------------------------------------------------------------------
(* What a detail payload that is an object can come to, and why.            *)
LEMMA DetailOutcome ==
  ASSUME NEW o, IsObject(o)
  PROVE  \/ /\ Detail(o).out = "OverflowError"
            /\ \E f \in {"length_cm", "width_cm", "height_cm", "piece_count"} :
                 Package(o)[f].is \notin {"none", "number"}
         \/ /\ Detail(o).out = "ValidationError"
            /\ \E f \in {"weight_kg", "volume_m3"} : Package(o)[f] \in {NaN, Infinity}
         \/ Detail(o).out = "TypeError" /\ Cardinality(Zones(Recorded(o))) > 1
         \/ Detail(o).out = "shipment" /\ Detail(o).history = History(o)
<1> DEFINE package == Package(o)
           ints == {package[f] : f \in {"length_cm", "width_cm", "height_cm", "piece_count"}}
           numbers == {package.weight_kg, package.volume_m3}
           shipment == [out      |-> "shipment",
                        sender   |-> Party(o, <<"sender", "from", "consignor">>),
                        receiver |-> Party(o, <<"receiver", "to", "consignee">>),
                        package  |-> package,
                        history  |-> History(o)]
           infinite == \E v \in ints : v.is \notin {"none", "number"}
           invalid == numbers \cap {NaN, Infinity} # {}
           mixed == Cardinality(Zones(Recorded(o))) > 1
<1>1. Detail(o) = CASE infinite -> [out |-> "OverflowError"]
                    [] invalid -> [out |-> "ValidationError"]
                    [] mixed -> [out |-> "TypeError"]
                    [] OTHER -> shipment
  BY DEF Detail
<1>2. shipment.out = "shipment" /\ shipment.history = History(o)
  OBVIOUS
<1>3. infinite => \E f \in {"length_cm", "width_cm", "height_cm", "piece_count"} :
                    Package(o)[f].is \notin {"none", "number"}
  OBVIOUS
<1>4. invalid => \E f \in {"weight_kg", "volume_m3"} : Package(o)[f] \in {NaN, Infinity}
  OBVIOUS
<1> HIDE DEF shipment, infinite, invalid
<1>5. \/ infinite /\ Detail(o) = [out |-> "OverflowError"]
      \/ invalid /\ Detail(o) = [out |-> "ValidationError"]
      \/ mixed /\ Detail(o) = [out |-> "TypeError"]
      \/ Detail(o) = shipment
  BY <1>1
<1> QED
  BY <1>2, <1>3, <1>4, <1>5

(* The dates of the entries of a JSON list are numbers.                     *)
LEMMA HistoryValues ==
  ASSUME NEW o \in DetailPayloads, IsObject(o), NEW v \in ValuesOf(o), v.is = "list"
  PROVE  /\ v.of \in Seq(Range(v.of))
         /\ \A i \in Datable(v.of) :
              /\ Event(v.of[i]).at \in Inside(EntriesOf(o))
              /\ Event(v.of[i]).at.is = "date" /\ Event(v.of[i]).at.at \in Int
<1>1. Json(v)
  BY DetailAssumption
<1>2. v.of \in Seq(Range(v.of))
  BY <1>1 DEF Json
<1>3. Range(v.of) \subseteq EntriesOf(o)
  BY DEF EntriesOf
<1>4. ASSUME NEW i \in Datable(v.of)
      PROVE  /\ Event(v.of[i]).at \in Inside(EntriesOf(o))
             /\ Event(v.of[i]).at.is = "date" /\ Event(v.of[i]).at.at \in Int
  <2> DEFINE e == v.of[i]
             at == Event(e).at
  <2>1. i \in DOMAIN v.of /\ IsObject(e) /\ at # None
    BY DEF Datable
  <2>2. at \in ValuesOf(e) /\ at.is = "date"
    BY <2>1, EventDate
  <2>3. e \in Range(v.of)
    BY <2>1 DEF Range
  <2>4. at \in Inside(EntriesOf(o))
    BY <1>3, <2>2, <2>3 DEF Inside
  <2>5. Json(at)
    BY <2>4, DetailAssumption
  <2> QED
    BY <2>2, <2>4, <2>5 DEF Json
<1> QED
  BY <1>2, <1>4

(* A detail payload with finite numbers and one kind of time becomes a
   shipment, whatever else is in it.                                        *)
THEOREM GapsTolerated == Spec => []ToleratesGaps
<1>1. Reading => ToleratesGaps
  <2> SUFFICES ASSUME Reading, stage = "detail", output # Pending
               PROVE  ToleratesGaps
    BY DEF ToleratesGaps
  <2> DEFINE fields == Inside(Inside({input}))
             dates == {v \in Inside(EntriesOf(input)) : v.is = "date"}
             nonfinite == (fields \cup Inside(fields)) \cap {NaN, Infinity} # {}
             differ == \E d, e \in dates : d.zone # e.zone
  <2>1. input \in DetailPayloads /\ output = Detail(input)
    BY DEF Reading
  <2>3. CASE ~IsObject(input)
    <3>1. output.out = "ParseError"
      BY <2>1, <2>3 DEF Detail
    <3> QED
      BY <2>3, <3>1 DEF ToleratesGaps
  <2>4. CASE IsObject(input)
    <3>1. Inside({input}) = ValuesOf(input)
      BY DEF Inside
    <3>2. \A v \in fields \cup Inside(fields) : Json(v)
      BY <2>1, <3>1, DetailAssumption
    <3>3. ASSUME NEW f \in {"length_cm", "width_cm", "height_cm", "piece_count"},
                 Package(input)[f].is \notin {"none", "number"}
          PROVE  nonfinite
      <4>1. PICK v \in fields \cup Inside(fields) : v.is = "inf"
        BY <2>4, <3>1, <3>3, PackageOverflows
      <4>2. v = Infinity
        BY <3>2, <4>1 DEF Json
      <4> QED
        BY <4>1, <4>2
    <3>4. ASSUME NEW f \in {"weight_kg", "volume_m3"}, Package(input)[f] \in {NaN, Infinity}
          PROVE  nonfinite
      <4>1. Package(input)[f] # None
        BY <3>4 DEF NaN, Infinity, None
      <4>2. Package(input)[f] \in fields
        BY <2>4, <3>1, <4>1, PackageMeasures
      <4> QED
        BY <3>4, <4>2
    <3>5. ASSUME Cardinality(Zones(Recorded(input))) > 1
          PROVE  differ
      <4> DEFINE raw == FirstOf(input, HistoryNames)
      <4>1. Zones(<<>>) = {}
        <5>1. DOMAIN <<>> = {}
          OBVIOUS
        <5> QED
          BY <5>1 DEF Zones
      <4>2. raw.is = "list" /\ Recorded(input) = Dated(raw.of)
        <5>1. Recorded(input) # <<>>
          BY <3>5, <4>1, FS_EmptySet
        <5> QED
          BY <5>1 DEF Recorded
      <4>3. raw \in ValuesOf(input)
        BY <2>4, <4>2, FirstOfValue DEF None
      <4>4. /\ raw.of \in Seq(Range(raw.of))
            /\ \A i \in Datable(raw.of) : Event(raw.of[i]).at \in dates
        BY <2>1, <2>4, <4>2, <4>3, HistoryValues
      <4>5. \E i, j \in Datable(raw.of) : Event(raw.of[i]).at.zone # Event(raw.of[j]).at.zone
        BY <3>5, <4>2, <4>4, ZonesDiffer
      <4> QED
        BY <4>4, <4>5
    <3> HIDE DEF nonfinite, differ
    <3>6. \/ output.out \in {"OverflowError", "ValidationError"} /\ nonfinite
          \/ output.out = "TypeError" /\ differ
          \/ output.out = "shipment"
      BY <2>1, <2>4, <3>3, <3>4, <3>5, DetailOutcome
    <3>7. nonfinite \/ differ \/ output.out = "shipment"
      BY <3>6
    <3>8. ToleratesGaps <=> (~nonfinite /\ ~differ => output.out = "shipment")
      BY <2>4 DEF ToleratesGaps, nonfinite, differ
    <3> QED
      BY <3>7, <3>8
  <2> QED
    BY <2>3, <2>4
<1> QED
  BY <1>1, ReadingInvariant, PTL

(* The history of a payload with one list of events is that list's.         *)
LEMMA OneHistory ==
  ASSUME NEW o, IsObject(o), NEW n \in Range(HistoryNames), Get(o, n).is = "list",
         \A m \in Range(HistoryNames) \ {n} : Falsy(Get(o, m))
  PROVE  Recorded(o) = Dated(Get(o, n).of)
<1> DEFINE H == {"events", "history", "trackingEvents", "statusHistory"}
           held == {i \in DOMAIN HistoryNames : ~Falsy(Get(o, HistoryNames[i]))}
           raw == FirstOf(o, HistoryNames)
<1>1. /\ HistoryNames \in Seq(H) /\ DOMAIN HistoryNames = 1..4 /\ Len(HistoryNames) = 4
      /\ \A i, j \in 1..4 : HistoryNames[i] = HistoryNames[j] => i = j
  <2>1. HistoryNames \in Seq(H) /\ DOMAIN HistoryNames = 1..4 /\ Len(HistoryNames) = 4
    <3>1. HistoryNames \in Seq(H)
      BY DEF HistoryNames
    <3>2. Len(HistoryNames) = 4
      BY DEF HistoryNames
    <3> QED
      BY <3>1, <3>2
  <2>2. /\ HistoryNames[1] = "events" /\ HistoryNames[2] = "history"
        /\ HistoryNames[3] = "trackingEvents" /\ HistoryNames[4] = "statusHistory"
    BY DEF HistoryNames
  <2>3. \A i \in 1..4 : i = 1 \/ i = 2 \/ i = 3 \/ i = 4
    OBVIOUS
  <2> QED
    BY <2>1, <2>2, <2>3
<1>2. PICK k \in 1..4 : HistoryNames[k] = n
  BY <1>1 DEF Range
<1>3. raw = Get(o, HistoryNames[IF held = {} THEN 4 ELSE Min(held)])
  BY <1>1 DEF FirstOf
<1>4. \A i \in 1..4 : i # k => Falsy(Get(o, HistoryNames[i]))
  BY <1>1, <1>2 DEF Range
<1>5. held \subseteq {k}
  BY <1>1, <1>4
<1>6. CASE ~Falsy(Get(o, n))
  <2>1. held = {k}
    BY <1>1, <1>2, <1>5, <1>6
  <2>2. Min(held) \in held
    BY <1>1, <2>1, SmallestPlace
  <2>3. raw = Get(o, n)
    BY <1>2, <1>3, <2>1, <2>2
  <2> QED
    BY <2>3 DEF Recorded
<1>7. CASE Falsy(Get(o, n))
  <2>1. Get(o, n).of = <<>>
    BY <1>7 DEF Falsy, None, Empty, Number, List, Object
  <2>2. held = {}
    BY <1>1, <1>2, <1>5, <1>7
  <2>3. Falsy(raw)
    BY <1>1, <1>2, <1>3, <1>4, <1>7, <2>2
  <2>4. Dated(<<>>) = <<>>
    <3>1. <<>> \in Seq({}) /\ Datable(<<>>) = {}
      BY DEF Datable
    <3>2. Cardinality(Datable(<<>>)) = 0
      BY <3>1, FS_EmptySet
    <3>3. \E c : Dated(<<>>) = [i \in 1..0 |-> Event(<<>>[c[i]])]
      BY <3>1, <3>2, DatedOrders
    <3> QED
      BY <3>3
  <2>5. raw.is = "list" => raw.of = <<>>
    BY <2>3 DEF Falsy, None, Empty, Number, List, Object
  <2> QED
    BY <2>1, <2>4, <2>5 DEF Recorded
<1> QED
  BY <1>6, <1>7

(* The history that is shown is a one-to-one account of the entries that are
   objects with a date, oldest first and stable.                            *)
THEOREM HistoryComplete == Spec => []HistoryFaithful
<1>1. Reading => HistoryFaithful
  <2> SUFFICES ASSUME Reading, Shown("detail"), NEW n \in Range(HistoryNames),
                      Get(input, n).is = "list",
                      \A m \in Range(HistoryNames) \ {n} : Falsy(Get(input, m))
               PROVE  LET told    == output.history
                          entries == Get(input, n).of
                          dated   == {i \in DOMAIN entries :
                                        IsObject(entries[i]) /\ Event(entries[i]).at.is = "date"}
                      IN \E from \in Bijection(DOMAIN told, dated) :
                           /\ \A i \in DOMAIN told : told[i] = Event(entries[from[i]])
                           /\ \A i, j \in DOMAIN told :
                                i < j => \/ told[i].at.at < told[j].at.at
                                         \/ told[i].at.at = told[j].at.at /\ from[i] < from[j]
    BY DEF HistoryFaithful
  <2> DEFINE entries == Get(input, n).of
             dated == {i \in DOMAIN entries :
                         IsObject(entries[i]) /\ Event(entries[i]).at.is = "date"}
             events == Dated(entries)
             told == Sorted(events, [i \in DOMAIN events |-> events[i].at.at])
  <2>1. input \in DetailPayloads /\ output = Detail(input) /\ output.out = "shipment"
    BY DEF Reading, Shown, Pending
  <2>2. IsObject(input)
    BY <2>1 DEF Detail
  <2>3. output.history = History(input)
    BY <2>1, <2>2, DetailOutcome
  <2>4. output.history = told
    BY <2>2, <2>3, OneHistory DEF History
  <2>5. Get(input, n) \in ValuesOf(input)
    BY <2>2, GetValue DEF None
  <2>6. /\ entries \in Seq(Range(entries))
        /\ \A i \in Datable(entries) : /\ Event(entries[i]).at.is = "date"
                                       /\ Event(entries[i]).at.at \in Int
    BY <2>1, <2>2, <2>5, HistoryValues
  <2>7. dated = Datable(entries)
    BY <2>6 DEF Datable, None
  <2>8. \E from \in Bijection(DOMAIN told, Datable(entries)) :
          /\ \A i \in DOMAIN told : told[i] = Event(entries[from[i]])
          /\ \A i, j \in DOMAIN told :
               i < j => \/ told[i].at.at < told[j].at.at
                        \/ told[i].at.at = told[j].at.at /\ from[i] < from[j]
    BY <2>6, HistoryOrders
  <2> HIDE DEF told, entries, dated
  <2>9. \E from \in Bijection(DOMAIN output.history, dated) :
          /\ \A i \in DOMAIN output.history : output.history[i] = Event(entries[from[i]])
          /\ \A i, j \in DOMAIN output.history :
               i < j => \/ output.history[i].at.at < output.history[j].at.at
                        \/ /\ output.history[i].at.at = output.history[j].at.at
                           /\ from[i] < from[j]
    BY <2>4, <2>7, <2>8
  <2> QED
    BY <2>9 DEF entries, dated
<1> QED
  BY <1>1, ReadingInvariant, PTL

-----------------------------------------------------------------------------
(* The elements of a sequence that is chosen from, once each.               *)
LEMMA FirstOnlyDistinct ==
  ASSUME NEW S, NEW events \in Seq(S)
  PROVE  /\ FirstOnly(events) \in Seq(S)
         /\ \A i, j \in DOMAIN FirstOnly(events) :
              i < j => FirstOnly(events)[i] # FirstOnly(events)[j]
         /\ \A i \in DOMAIN events :
              \E k \in DOMAIN FirstOnly(events) : FirstOnly(events)[k] = events[i]
         /\ \A k \in DOMAIN FirstOnly(events) :
              \E i \in DOMAIN events : FirstOnly(events)[k] = events[i]
<1> DEFINE I == {i \in DOMAIN events : \A j \in 1..(i - 1) : events[j] # events[i]}
           n == Cardinality(I)
           F == FirstOnly(events)
<1>1. F = Chosen(events, I) /\ I \in SUBSET (DOMAIN events)
  BY DEF FirstOnly
<1>2. DOMAIN events = 1..Len(events) /\ Len(events) \in Nat
  OBVIOUS
<1>3. ASSUME NEW i \in DOMAIN events
      PROVE  \E k \in I : events[k] = events[i]
  <2> DEFINE J == {j \in DOMAIN events : events[j] = events[i]}
  <2>1. Min(J) \in J /\ \A j \in J : Min(J) <= j
    <3>1. i \in J /\ J \in SUBSET (DOMAIN events)
      OBVIOUS
    <3> QED
      BY <3>1, SmallestPlace
  <2>2. \A j \in 1..(Min(J) - 1) : events[j] # events[Min(J)]
    <3> SUFFICES ASSUME NEW j \in 1..(Min(J) - 1), events[j] = events[Min(J)]
                 PROVE  FALSE
      OBVIOUS
    <3>1. Min(J) \in 1..Len(events) /\ events[Min(J)] = events[i]
      BY <1>2, <2>1
    <3>2. j \in J
      BY <1>2, <3>1
    <3> QED
      BY <2>1, <3>1, <3>2
  <2>3. Min(J) \in DOMAIN events /\ events[Min(J)] = events[i]
    BY <2>1
  <2> HIDE DEF J
  <2> QED
    BY <2>2, <2>3
<1>4. \A i \in I : \A j \in 1..(i - 1) : events[j] # events[i]
  OBVIOUS
<1> HIDE DEF I, F
<1>5. n \in Nat
  BY <1>1, ChosenOrders
<1>6. PICK p \in [1..n -> I] :
        /\ \A i \in I : \E a \in 1..n : p[a] = i
        /\ \A a, b \in 1..n : a < b => p[a] < p[b]
        /\ F = [k \in 1..n |-> events[p[k]]]
  BY <1>1, ChosenOrders
<1> HIDE DEF n
<1>7. F \in Seq(S) /\ DOMAIN F = 1..n /\ \A k \in 1..n : F[k] = events[p[k]]
  BY <1>1, <1>5, <1>6
<1>8. ASSUME NEW i \in 1..n, NEW j \in 1..n, i < j
      PROVE  F[i] # F[j]
  <2>1. p[i] \in I /\ p[j] \in I /\ p[i] < p[j]
    BY <1>6, <1>8
  <2>2. p[i] \in 1..(p[j] - 1)
    BY <1>1, <1>2, <2>1
  <2> QED
    BY <1>4, <1>7, <2>1, <2>2
<1>9. ASSUME NEW i \in DOMAIN events
      PROVE  \E k \in 1..n : F[k] = events[i]
  BY <1>3, <1>6, <1>7
<1>10. \A k \in 1..n : \E i \in DOMAIN events : F[k] = events[i]
  BY <1>1, <1>6, <1>7
<1> QED
  BY <1>7, <1>8, <1>9, <1>10 DEF F

(* Newest first: the same elements once each, none after a newer one.       *)
LEMMA NewestFirstOrders ==
  ASSUME NEW S, NEW s \in Seq(S), \A e \in S : e.at \in Int,
         \A i, j \in DOMAIN s : i < j => s[i] # s[j]
  PROVE  LET r == NewestFirst(s)
         IN /\ r \in Seq(S) /\ Len(r) = Len(s)
            /\ \A i, j \in DOMAIN r : i < j => r[i].at >= r[j].at /\ r[i] # r[j]
            /\ \A i \in DOMAIN s : \E k \in DOMAIN r : r[k] = s[i]
            /\ \A k \in DOMAIN r : \E i \in DOMAIN s : r[k] = s[i]
<1> DEFINE n == Len(s)
           key == [i \in DOMAIN s |-> -s[i].at]
           r == NewestFirst(s)
<1>1. n \in Nat /\ DOMAIN s = 1..n /\ \A i \in 1..n : s[i] \in S
  OBVIOUS
<1>2. \A i \in 1..n : s[i].at \in Int /\ key[i] = -s[i].at /\ key[i] \in Int
  BY <1>1
<1>3. r = Sorted(s, key)
  BY DEF NewestFirst
<1> HIDE DEF key, r
<1>4. PICK p : Sorts(p, s, key)
  BY <1>1, <1>2, SortedOrders
<1>5. /\ p \in [1..n -> 1..n]
      /\ \A i \in 1..n : \E a \in 1..n : p[a] = i
      /\ \A a, b \in 1..n : a < b => Precedes(key, p[a], p[b])
      /\ r = [k \in 1..n |-> s[p[k]]]
  BY <1>3, <1>4 DEF Sorts
<1> HIDE DEF n
<1>6. r \in Seq(S) /\ Len(r) = n /\ DOMAIN r = 1..n /\ \A k \in 1..n : r[k] = s[p[k]]
  BY <1>1, <1>5
<1>7. ASSUME NEW i \in 1..n, NEW j \in 1..n, i < j
      PROVE  r[i].at >= r[j].at /\ r[i] # r[j]
  <2>1. Precedes(key, p[i], p[j]) /\ p[i] \in 1..n /\ p[j] \in 1..n
    BY <1>5, <1>7
  <2>2. p[i] # p[j] /\ key[p[i]] <= key[p[j]]
    BY <1>1, <1>2, <2>1 DEF Precedes
  <2>3. s[p[i]].at >= s[p[j]].at
    <3> DEFINE x == s[p[i]].at
               y == s[p[j]].at
    <3>1. x \in Int /\ y \in Int /\ key[p[i]] = -x /\ key[p[j]] = -y
      BY <1>2, <2>1
    <3> HIDE DEF x, y
    <3>2. x >= y
      BY <2>2, <3>1
    <3> QED
      BY <3>2 DEF x, y
  <2>4. s[p[i]] # s[p[j]]
    BY <1>1, <2>1, <2>2
  <2> QED
    BY <1>6, <2>3, <2>4
<1>8. \A i \in 1..n : \E k \in 1..n : r[k] = s[i]
  BY <1>5, <1>6
<1>9. \A k \in 1..n : \E i \in 1..n : r[k] = s[i]
  BY <1>5, <1>6
<1> QED
  BY <1>1, <1>6, <1>7, <1>8, <1>9 DEF r, n

(* The cut keeps the elements in front.                                     *)
LEMMA CutKeeps ==
  ASSUME NEW S, NEW s \in Seq(S)
  PROVE  /\ Cut(s) \in Seq(S) /\ Len(Cut(s)) <= Len(s)
         /\ Len(Cut(s)) < Len(s) => Len(Cut(s)) = MaxEvents
         /\ \A i \in DOMAIN Cut(s) : i \in DOMAIN s /\ Cut(s)[i] = s[i]
<1>1. MaxEvents \in Nat
  BY FallbackAssumption
<1>2. CASE Len(s) > MaxEvents
  <2>1. Cut(s) = SubSeq(s, 1, MaxEvents)
    BY <1>2 DEF Cut
  <2>2. SubSeq(s, 1, MaxEvents) \in Seq(S) /\ Len(SubSeq(s, 1, MaxEvents)) = MaxEvents
    BY <1>1, <1>2
  <2>3. \A i \in 1..MaxEvents : i \in DOMAIN s /\ SubSeq(s, 1, MaxEvents)[i] = s[i]
    BY <1>1, <1>2
  <2> QED
    BY <1>2, <2>1, <2>2, <2>3
<1>3. CASE ~(Len(s) > MaxEvents)
  BY <1>3 DEF Cut
<1> QED
  BY <1>2, <1>3

-----------------------------------------------------------------------------
(* A date of three numbers has an instant, if only NoInstant.               *)
LEMMA InstantInteger ==
  ASSUME NEW date \in Seq(Nat), Len(date) = 3, NEW time \in Seq(Nat), Len(time) \in {0, 2}
  PROVE  ParseDatetime(date, time) \in Int
<1> DEFINE ymd == IF date[1] >= 1000 THEN date ELSE Reverse(date)
           hm == IF time = <<>> THEN <<0, 0>> ELSE time
           instant(y, m, d, h, u) == (((y * 12 + m) * 31 + d) * 24 + h) * 60 + u
           whole == instant(ymd[1], ymd[2], ymd[3], hm[1], hm[2])
<1>1. date[1] \in Nat /\ date[2] \in Nat /\ date[3] \in Nat
  <2>1. \A S : \A s \in Seq(S) : \A i \in 1..Len(s) : s[i] \in S
    OBVIOUS
  <2>2. \A i \in 1..3 : date[i] \in Nat
    BY <2>1
  <2> QED
    BY <2>2
<1>2. /\ Reverse(date)[1] = date[3] /\ Reverse(date)[2] = date[2]
      /\ Reverse(date)[3] = date[1]
  BY DEF Reverse
<1>3. ymd[1] \in Nat /\ ymd[2] \in Nat /\ ymd[3] \in Nat
  BY <1>1, <1>2
<1>4. hm[1] \in Nat /\ hm[2] \in Nat
  <2>1. CASE Len(time) = 0
    <3>1. time = <<>>
      BY <2>1
    <3> QED
      BY <3>1
  <2>2. CASE Len(time) = 2
    <3>1. \A S : \A s \in Seq(S) : \A i \in 1..Len(s) : s[i] \in S
      OBVIOUS
    <3>2. \A i \in 1..2 : time[i] \in Nat
      BY <2>2, <3>1
    <3>3. time # <<>>
      <4>1. Len(<<>>) # 2
        OBVIOUS
      <4> QED
        BY <2>2, <4>1, Zenon
    <3> QED
      BY <3>2, <3>3
  <2> QED
    BY <2>1, <2>2
<1>5. \A y, m, d, h, u \in Nat : instant(y, m, d, h, u) \in Int
  OBVIOUS
<1>6. NoInstant \in Int
  BY DEF NoInstant
<1>7. ParseDatetime(date, time) \in {whole, NoInstant}
  BY DEF ParseDatetime
<1> HIDE DEF ymd, hm
<1>8. whole \in Int
  BY <1>3, <1>4, <1>5
<1> QED
  BY <1>6, <1>7, <1>8

(* The numbers of a date and a time, from the year down to the minute.       *)
Moment(date, time) ==
  LET ymd == IF date[1] >= 1000 THEN date ELSE Reverse(date)
      hm  == IF time = <<>> THEN <<0, 0>> ELSE time
  IN <<ymd[1], ymd[2], ymd[3], hm[1], hm[2]>>

Earlier(f, g) == \E n \in 1..5 : f[n] < g[n] /\ \A k \in 1..(n - 1) : f[k] = g[k]

(* A moment that is an instant is made of numbers in their ranges.          *)
LEMMA MomentRanges ==
  ASSUME NEW date \in Seq(Nat), Len(date) = 3, NEW time \in Seq(Nat), Len(time) \in {0, 2},
         ParseDatetime(date, time) # NoInstant
  PROVE  LET f == Moment(date, time)
         IN /\ f[1] \in Nat \ {0} /\ f[2] \in 1..12 /\ f[3] \in 1..31
            /\ f[4] \in 0..23 /\ f[5] \in 0..59
            /\ ParseDatetime(date, time) =
                 (((f[1] * 12 + f[2]) * 31 + f[3]) * 24 + f[4]) * 60 + f[5]
<1> DEFINE ymd == IF date[1] >= 1000 THEN date ELSE Reverse(date)
           hm == IF time = <<>> THEN <<0, 0>> ELSE time
           f == Moment(date, time)
<1>1. \A S : \A s \in Seq(S) : \A i \in 1..Len(s) : s[i] \in S
  OBVIOUS
<1>2. date[1] \in Nat /\ date[3] \in Nat
  <2>1. \A i \in 1..3 : date[i] \in Nat
    BY <1>1
  <2> QED
    BY <2>1
<1>3. Reverse(date)[1] = date[3]
  BY DEF Reverse
<1>4. ymd[1] \in Nat
  BY <1>2, <1>3
<1>5. f[1] = ymd[1] /\ f[2] = ymd[2] /\ f[3] = ymd[3] /\ f[4] = hm[1] /\ f[5] = hm[2]
  BY DEF Moment
<1>6. /\ ymd[1] > 0 /\ ymd[2] \in 1..12 /\ ymd[3] \in 1..DaysIn(ymd[1], ymd[2])
      /\ hm[1] \in 0..23 /\ hm[2] \in 0..59
      /\ ParseDatetime(date, time) =
           (((ymd[1] * 12 + ymd[2]) * 31 + ymd[3]) * 24 + hm[1]) * 60 + hm[2]
  BY DEF ParseDatetime
<1> HIDE DEF ymd, hm, f
<1>7. DaysIn(ymd[1], ymd[2]) \in {28, 29, 30, 31}
  BY DEF DaysIn
<1>8. ymd[3] \in 1..31
  <2>1. PICK last \in {28, 29, 30, 31} : DaysIn(ymd[1], ymd[2]) = last
    BY <1>7
  <2>2. ymd[3] \in 1..last
    BY <1>6, <2>1
  <2>3. 1..last \subseteq 1..31
    OBVIOUS
  <2> QED
    BY <2>2, <2>3
<1>9. ymd[1] \in Nat \ {0}
  BY <1>4, <1>6
<1> QED
  BY <1>5, <1>6, <1>8, <1>9 DEF f

(* Numbers of two digits, the lower one below K, are ordered by the upper
   digit and then by the lower one.                                         *)
LEMMA Digit ==
  ASSUME NEW K \in {12, 24, 31, 60}, NEW x \in Int, NEW y \in Int,
         NEW c \in Int, NEW d \in Int, -K < c - d, c - d < K
  PROVE  /\ x * K + c \in Int
         /\ x * K + c < y * K + d <=> x < y \/ (x = y /\ c < d)
         /\ x * K + c = y * K + d <=> x = y /\ c = d
<1>1. CASE K = 12
  BY <1>1
<1>2. CASE K = 24
  BY <1>2
<1>3. CASE K = 31
  BY <1>3
<1>4. CASE K = 60
  BY <1>4
<1> QED
  BY <1>1, <1>2, <1>3, <1>4

(* Instants are ordered as the calendar orders the moments they stand for,
   whichever way round the two dates are written.                           *)
THEOREM InstantsFollowCalendar ==
  ASSUME NEW date \in Seq(Nat), Len(date) = 3, NEW time \in Seq(Nat), Len(time) \in {0, 2},
         NEW other \in Seq(Nat), Len(other) = 3, NEW hour \in Seq(Nat), Len(hour) \in {0, 2},
         ParseDatetime(date, time) # NoInstant, ParseDatetime(other, hour) # NoInstant
  PROVE  ParseDatetime(date, time) < ParseDatetime(other, hour)
           <=> Earlier(Moment(date, time), Moment(other, hour))
<1> DEFINE f == Moment(date, time)
           g == Moment(other, hour)
<1>1. /\ f[1] \in Int /\ f[2] \in 1..12 /\ f[3] \in 1..31 /\ f[4] \in 0..23 /\ f[5] \in 0..59
      /\ ParseDatetime(date, time) = (((f[1] * 12 + f[2]) * 31 + f[3]) * 24 + f[4]) * 60 + f[5]
  BY MomentRanges
<1>2. /\ g[1] \in Int /\ g[2] \in 1..12 /\ g[3] \in 1..31 /\ g[4] \in 0..23 /\ g[5] \in 0..59
      /\ ParseDatetime(other, hour) = (((g[1] * 12 + g[2]) * 31 + g[3]) * 24 + g[4]) * 60 + g[5]
  BY MomentRanges
<1> HIDE DEF f, g
<1>3. ParseDatetime(date, time) < ParseDatetime(other, hour)
        <=> \/ f[1] < g[1]
            \/ f[1] = g[1] /\ f[2] < g[2]
            \/ f[1] = g[1] /\ f[2] = g[2] /\ f[3] < g[3]
            \/ f[1] = g[1] /\ f[2] = g[2] /\ f[3] = g[3] /\ f[4] < g[4]
            \/ f[1] = g[1] /\ f[2] = g[2] /\ f[3] = g[3] /\ f[4] = g[4] /\ f[5] < g[5]
  <2> DEFINE y == f[1]  m == f[2]  d == f[3]  h == f[4]  u == f[5]
             z == g[1]  n == g[2]  e == g[3]  i == g[4]  v == g[5]
  <2>1. /\ y \in Int /\ m \in 1..12 /\ d \in 1..31 /\ h \in 0..23 /\ u \in 0..59
        /\ ParseDatetime(date, time) = (((y * 12 + m) * 31 + d) * 24 + h) * 60 + u
    BY <1>1
  <2>2. /\ z \in Int /\ n \in 1..12 /\ e \in 1..31 /\ i \in 0..23 /\ v \in 0..59
        /\ ParseDatetime(other, hour) = (((z * 12 + n) * 31 + e) * 24 + i) * 60 + v
    BY <1>2
  <2> HIDE DEF y, m, d, h, u, z, n, e, i, v
  <2> DEFINE months  == y * 12 + m       months2  == z * 12 + n
             days    == months * 31 + d  days2    == months2 * 31 + e
             hours   == days * 24 + h    hours2   == days2 * 24 + i
  <2>3. /\ m \in Int /\ n \in Int /\ -12 < m - n /\ m - n < 12
        /\ d \in Int /\ e \in Int /\ -31 < d - e /\ d - e < 31
        /\ h \in Int /\ i \in Int /\ -24 < h - i /\ h - i < 24
        /\ u \in Int /\ v \in Int /\ -60 < u - v /\ u - v < 60
    <3>1. m \in Int /\ n \in Int /\ -12 < m - n /\ m - n < 12
      BY <2>1, <2>2
    <3>2. d \in Int /\ e \in Int /\ -31 < d - e /\ d - e < 31
      BY <2>1, <2>2
    <3>3. h \in Int /\ i \in Int /\ -24 < h - i /\ h - i < 24
      BY <2>1, <2>2
    <3>4. u \in Int /\ v \in Int /\ -60 < u - v /\ u - v < 60
      BY <2>1, <2>2
    <3> QED
      BY <3>1, <3>2, <3>3, <3>4
  <2>4. /\ months \in Int /\ months2 \in Int
        /\ months < months2 <=> y < z \/ (y = z /\ m < n)
        /\ months = months2 <=> y = z /\ m = n
    BY <2>1, <2>2, <2>3, Digit
  <2> HIDE DEF months, months2
  <2>5. /\ days \in Int /\ days2 \in Int
        /\ days < days2 <=> months < months2 \/ (months = months2 /\ d < e)
        /\ days = days2 <=> months = months2 /\ d = e
    BY <2>3, <2>4, Digit
  <2> HIDE DEF days, days2
  <2>6. /\ hours \in Int /\ hours2 \in Int
        /\ hours < hours2 <=> days < days2 \/ (days = days2 /\ h < i)
        /\ hours = hours2 <=> days = days2 /\ h = i
    BY <2>3, <2>5, Digit
  <2> HIDE DEF hours, hours2
  <2>7. hours * 60 + u < hours2 * 60 + v <=> hours < hours2 \/ (hours = hours2 /\ u < v)
    BY <2>3, <2>6, Digit
  <2>8. hours * 60 + u < hours2 * 60 + v
          <=> \/ y < z
              \/ y = z /\ m < n
              \/ y = z /\ m = n /\ d < e
              \/ y = z /\ m = n /\ d = e /\ h < i
              \/ y = z /\ m = n /\ d = e /\ h = i /\ u < v
    BY <2>4, <2>5, <2>6, <2>7
  <2>9. ParseDatetime(date, time) < ParseDatetime(other, hour) <=> hours * 60 + u < hours2 * 60 + v
    BY <2>1, <2>2 DEF hours, hours2, days, days2, months, months2
  <2> QED
    BY <2>8, <2>9 DEF y, m, d, h, u, z, n, e, i, v
<1>4. Earlier(f, g)
        <=> \/ f[1] < g[1]
            \/ f[1] = g[1] /\ f[2] < g[2]
            \/ f[1] = g[1] /\ f[2] = g[2] /\ f[3] < g[3]
            \/ f[1] = g[1] /\ f[2] = g[2] /\ f[3] = g[3] /\ f[4] < g[4]
            \/ f[1] = g[1] /\ f[2] = g[2] /\ f[3] = g[3] /\ f[4] = g[4] /\ f[5] < g[5]
  <2> DEFINE Decides(n) == f[n] < g[n] /\ \A k \in 1..(n - 1) : f[k] = g[k]
  <2>1. Decides(1) <=> f[1] < g[1]
    OBVIOUS
  <2>2. Decides(2) <=> f[1] = g[1] /\ f[2] < g[2]
    OBVIOUS
  <2>3. Decides(3) <=> f[1] = g[1] /\ f[2] = g[2] /\ f[3] < g[3]
    OBVIOUS
  <2>4. Decides(4) <=> f[1] = g[1] /\ f[2] = g[2] /\ f[3] = g[3] /\ f[4] < g[4]
    OBVIOUS
  <2>5. Decides(5) <=> f[1] = g[1] /\ f[2] = g[2] /\ f[3] = g[3] /\ f[4] = g[4] /\ f[5] < g[5]
    OBVIOUS
  <2>6. Earlier(f, g) <=> \E n \in {1, 2, 3, 4, 5} : Decides(n)
    <3>1. 1..5 = {1, 2, 3, 4, 5}
      OBVIOUS
    <3> QED
      BY <3>1 DEF Earlier
  <2> HIDE DEF Decides
  <2> QED
    BY <2>1, <2>2, <2>3, <2>4, <2>5, <2>6
<1> QED
  BY <1>3, <1>4 DEF f, g

(* The events of some pieces are those of the pieces that tell one.         *)
LEMMA EventsOfPieces ==
  ASSUME NEW P, NEW pieces \in Seq(P)
  PROVE  Events(pieces) \in Seq({EventOf(p) : p \in {q \in P : IsEvent(q)}})
<1> DEFINE I == {i \in DOMAIN pieces : IsEvent(pieces[i])}
           n == Cardinality(I)
           some == Chosen(pieces, I)
           T == {EventOf(p) : p \in {q \in P : IsEvent(q)}}
<1>1. I \in SUBSET (DOMAIN pieces) /\ \A i \in I : pieces[i] \in P /\ IsEvent(pieces[i])
  OBVIOUS
<1>2. Events(pieces) = [k \in DOMAIN some |-> EventOf(some[k])]
  BY DEF Events
<1> HIDE DEF I, some
<1>3. n \in Nat
  BY <1>1, ChosenOrders
<1>4. PICK p \in [1..n -> I] : some = [k \in 1..n |-> pieces[p[k]]]
  BY <1>1, ChosenOrders DEF some
<1>5. \A k \in 1..n : some[k] \in P /\ IsEvent(some[k])
  BY <1>1, <1>4
<1>6. \A k \in 1..n : EventOf(some[k]) \in T
  BY <1>5
<1> HIDE DEF n, T
<1>7. Events(pieces) = [k \in 1..n |-> EventOf(some[k])]
  BY <1>2, <1>4
<1>8. Events(pieces) \in [1..n -> T]
  BY <1>6, <1>7
<1>9. Events(pieces) \in Seq(T)
  BY <1>3, <1>8
<1> QED
  BY <1>9 DEF T

(* The pieces of a page that tell an event.                                 *)
Telling(page) == {p \in Range(page.rows \o page.body) : IsEvent(p)}

(* What is parsed from a page are events that pieces of it tell, each of an
   instant.                                                                 *)
LEMMA PageEvents ==
  ASSUME NEW page \in Pages
  PROVE  /\ ParsedEvents(page) \in Seq({EventOf(p) : p \in Telling(page)})
         /\ \A p \in Telling(page) : EventOf(p).at \in Int /\ p.says \subseteq Range(Keywords)
<1> DEFINE R == Range(page.rows)
           B == Range(page.body)
           T == {EventOf(p) : p \in Telling(page)}
<1>1. page.rows \in Seq(R) /\ page.body \in Seq(B)
  BY PageAssumption
<1>2. Range(page.rows \o page.body) = R \cup B
  <2> DEFINE rows == page.rows
             body == page.body
             whole == rows \o body
  <2> HIDE DEF rows, body
  <2>1. rows \in Seq(R) /\ body \in Seq(B)
    BY <1>1 DEF rows, body
  <2>2. /\ DOMAIN whole = 1..(Len(rows) + Len(body)) /\ Len(rows) \in Nat /\ Len(body) \in Nat
        /\ \A i \in 1..Len(rows) : whole[i] = rows[i]
        /\ \A i \in 1..Len(body) : whole[Len(rows) + i] = body[i]
    BY <2>1
  <2>3. R = {rows[i] : i \in 1..Len(rows)} /\ B = {body[i] : i \in 1..Len(body)}
    BY <2>1 DEF Range, rows, body
  <2>4. Range(whole) = {whole[i] : i \in 1..(Len(rows) + Len(body))}
    BY <2>2 DEF Range
  <2>5. ASSUME NEW i \in 1..(Len(rows) + Len(body))
        PROVE  whole[i] \in R \cup B
    <3>1. CASE i \in 1..Len(rows)
      BY <2>2, <2>3, <3>1
    <3>2. CASE i \notin 1..Len(rows)
      <4>1. i - Len(rows) \in 1..Len(body) /\ i = Len(rows) + (i - Len(rows))
        BY <2>2, <3>2
      <4> QED
        BY <2>2, <2>3, <4>1
    <3> QED
      BY <3>1, <3>2
  <2>6. \A i \in 1..Len(rows) : rows[i] \in Range(whole)
    BY <2>2, <2>4
  <2>7. \A i \in 1..Len(body) : body[i] \in Range(whole)
    <3>1. \A i \in 1..Len(body) : Len(rows) + i \in 1..(Len(rows) + Len(body))
      BY <2>2
    <3> QED
      BY <2>2, <2>4, <3>1
  <2>8. Range(whole) = R \cup B
    BY <2>3, <2>4, <2>5, <2>6, <2>7
  <2> QED
    BY <2>8 DEF rows, body
<1>3. Telling(page) = {p \in R \cup B : IsEvent(p)}
  BY <1>2 DEF Telling
<1>4. Events(page.rows) \in Seq(T) /\ Events(page.body) \in Seq(T)
  <2>1. page.rows \in Seq(R \cup B) /\ page.body \in Seq(R \cup B)
    BY <1>1
  <2> QED
    BY <1>3, <2>1, EventsOfPieces
<1>5. ParsedEvents(page) \in Seq(T)
  BY <1>4 DEF ParsedEvents
<1>6. ASSUME NEW p \in Telling(page)
      PROVE  EventOf(p).at \in Int /\ p.says \subseteq Range(Keywords)
  <2>1. p \in R \cup B /\ p.date # <<>>
    BY <1>3 DEF IsEvent
  <2>2. /\ p.date \in Seq(Nat) /\ Len(p.date) \in {0, 3}
        /\ p.time \in Seq(Nat) /\ Len(p.time) \in {0, 2}
        /\ p.says \subseteq Range(Keywords)
    BY <2>1, PageAssumption
  <2>3. Len(p.date) = 3
    BY <2>1, <2>2
  <2>4. ParseDatetime(p.date, p.time) \in Int
    BY <2>2, <2>3, InstantInteger
  <2> QED
    BY <2>2, <2>4 DEF EventOf
<1> QED
  BY <1>5, <1>6

(* The history of a page that is shown.                                     *)
LEMMA ShownPage ==
  ASSUME Reading, Shown("page")
  PROVE  /\ input \in Pages /\ output.history = DedupeAndSort(ParsedEvents(input))
         /\ output.sender = Sender(input) /\ output.receiver = Receiver(input)
<1>1. input \in Pages /\ output = Scrape(input) /\ output.out = "shipment"
  BY DEF Reading, Shown, Pending
<1>2. output = ToShipment(input)
  BY <1>1 DEF Scrape
<1> QED
  BY <1>1, <1>2 DEF ToShipment

(* What the scraping of a page comes to.                                    *)
LEMMA ScrapedHistory == Reading => NewestKept
<1> SUFFICES ASSUME Reading, Shown("page")
             PROVE  LET h == output.history
                    IN /\ \A i, j \in DOMAIN h : h[i] = h[j] => i = j
                       /\ Range(h) \subseteq Range(ParsedEvents(input))
                       /\ \A e \in Range(ParsedEvents(input)) \ Range(h) :
                            Len(h) = MaxEvents /\ \A i \in DOMAIN h : h[i].at >= e.at
  BY DEF NewestKept
<1> DEFINE T == {EventOf(p) : p \in Telling(input)}
           events == ParsedEvents(input)
           first == FirstOnly(events)
           sorted == NewestFirst(first)
           h == Cut(sorted)
<1>1. output.history = h
  BY ShownPage DEF DedupeAndSort
<1>2. events \in Seq(T) /\ \A e \in T : e.at \in Int
  BY ShownPage, PageEvents
<1> HIDE DEF T, events
<1>3. /\ first \in Seq(T) /\ \A i, j \in DOMAIN first : i < j => first[i] # first[j]
      /\ \A i \in DOMAIN events : \E k \in DOMAIN first : first[k] = events[i]
  BY <1>2, FirstOnlyDistinct
<1>4. \A k \in DOMAIN first : \E i \in DOMAIN events : first[k] = events[i]
  BY <1>2, FirstOnlyDistinct
<1> HIDE DEF first
<1>5. /\ sorted \in Seq(T)
      /\ \A i, j \in DOMAIN sorted :
           i < j => sorted[i].at >= sorted[j].at /\ sorted[i] # sorted[j]
      /\ \A i \in DOMAIN first : \E k \in DOMAIN sorted : sorted[k] = first[i]
      /\ \A k \in DOMAIN sorted : \E i \in DOMAIN first : sorted[k] = first[i]
  BY <1>2, <1>3, NewestFirstOrders
<1> HIDE DEF sorted
<1>6. /\ h \in Seq(T) /\ Len(h) <= Len(sorted)
      /\ Len(h) < Len(sorted) => Len(h) = MaxEvents
      /\ \A i \in DOMAIN h : i \in DOMAIN sorted /\ h[i] = sorted[i]
  BY <1>5, CutKeeps
<1> HIDE DEF h
<1>7. \A i, j \in DOMAIN h : h[i] = h[j] => i = j
  <2>1. DOMAIN h \subseteq Int /\ \A i, j \in DOMAIN h : i < j => h[i] # h[j]
    BY <1>5, <1>6
  <2> QED
    BY <2>1
<1>8. Range(h) \subseteq Range(events)
  BY <1>3, <1>4, <1>5, <1>6 DEF Range
<1>9. ASSUME NEW e \in Range(events) \ Range(h)
      PROVE  Len(h) = MaxEvents /\ \A i \in DOMAIN h : h[i].at >= e.at
  <2>1. PICK k \in DOMAIN sorted : sorted[k] = e
    BY <1>3, <1>5 DEF Range
  <2>2. k \notin DOMAIN h
    BY <1>6, <2>1, <1>9 DEF Range
  <2>3. DOMAIN h = 1..Len(h) /\ Len(h) \in Nat /\ DOMAIN sorted = 1..Len(sorted)
    BY <1>5, <1>6
  <2>4. k > Len(h) /\ Len(h) < Len(sorted)
    BY <2>1, <2>2, <2>3
  <2>5. \A i \in DOMAIN h : i < k
    BY <2>1, <2>3, <2>4
  <2> QED
    BY <1>5, <1>6, <2>1, <2>4, <2>5
<1> QED
  BY <1>1, <1>7, <1>8, <1>9 DEF events

(* The scraped history has no duplicates, and the cap drops nothing that is
   newer than what it keeps.                                                *)
THEOREM NewestHistory == Spec => []NewestKept
BY ScrapedHistory, ReadingInvariant, PTL

-----------------------------------------------------------------------------
(* An event's status is one its piece mentions and, in the order of the
   keywords, the more specific of two.                                      *)
LEMMA StatusDetected ==
  ASSUME NEW p, p.says \subseteq Range(Keywords)
  PROVE  /\ Mentions(p, DetectStatus(p)) \/ (DetectStatus(p) = "event" /\ p.says = {})
         /\ DetectStatus(p) = "delivered" => "out_for_delivery" \notin p.says
         /\ DetectStatus(p) = "loaded"    => "not_loaded" \notin p.says
<1> DEFINE K == {"out_for_delivery", "not_loaded", "delivered", "collected", "departed",
                 "arrived", "loaded", "booked", "picked_up", "in_transit"}
           held == {i \in DOMAIN Keywords : Mentions(p, Keywords[i])}
<1>1. Keywords \in Seq(K)
  BY DEF Keywords
<1>2. DOMAIN Keywords = 1..10
  <2>1. Len(Keywords) = 10
    BY DEF Keywords
  <2> QED
    BY <1>1, <2>1
<1>3. Keywords[1] = "out_for_delivery" /\ Keywords[2] = "not_loaded"
  BY DEF Keywords
<1>4. \A i \in 1..10 : /\ Keywords[i] = "delivered" => i = 3
                       /\ Keywords[i] = "loaded" => i = 7
  <2>1. /\ Keywords[3] = "delivered" /\ Keywords[4] = "collected" /\ Keywords[5] = "departed"
        /\ Keywords[6] = "arrived" /\ Keywords[7] = "loaded" /\ Keywords[8] = "booked"
        /\ Keywords[9] = "picked_up" /\ Keywords[10] = "in_transit"
    BY DEF Keywords
  <2>2. \A i \in 1..10 : i \in {1, 2, 3, 4, 5, 6, 7, 8, 9, 10}
    OBVIOUS
  <2> QED
    BY <1>3, <2>1, <2>2
<1>5. CASE held = {}
  <2>1. DetectStatus(p) = "event"
    BY <1>5 DEF DetectStatus
  <2>2. \A k \in Range(Keywords) : k \notin p.says
    BY <1>5 DEF Range, Mentions
  <2> QED
    BY <2>1, <2>2
<1>6. CASE held # {}
  <2> DEFINE m == Min(held)
  <2>1. m \in held /\ \A i \in held : m <= i
    <3>1. held \in SUBSET (DOMAIN Keywords)
      OBVIOUS
    <3> QED
      BY <1>1, <1>6, <3>1, SmallestPlace
  <2>2. DetectStatus(p) = Keywords[m]
    BY <1>6 DEF DetectStatus
  <2>3. m \in 1..10 /\ Mentions(p, Keywords[m])
    BY <1>2, <2>1
  <2> HIDE DEF m, held
  <2>4. 1 < m => "out_for_delivery" \notin p.says
    <3>1. "out_for_delivery" \in p.says => Mentions(p, Keywords[1])
      BY <1>3 DEF Mentions
    <3>2. "out_for_delivery" \in p.says => 1 \in held
      BY <1>2, <3>1 DEF held
    <3>3. 1 \in held => m <= 1
      BY <2>1
    <3> QED
      BY <2>3, <3>2, <3>3
  <2>5. 2 < m => "not_loaded" \notin p.says
    <3>1. "not_loaded" \in p.says => Mentions(p, Keywords[2])
      BY <1>3 DEF Mentions
    <3>2. "not_loaded" \in p.says => 2 \in held
      BY <1>2, <3>1 DEF held
    <3>3. 2 \in held => m <= 2
      BY <2>1
    <3> QED
      BY <2>3, <3>2, <3>3
  <2>6. /\ DetectStatus(p) = "delivered" => 1 < m
        /\ DetectStatus(p) = "loaded" => 2 < m
    BY <1>4, <2>2, <2>3
  <2> QED
    BY <2>2, <2>3, <2>4, <2>5, <2>6
<1> QED
  BY <1>5, <1>6

(* A scraped status is one the text names, and the more specific of two.    *)
THEOREM StatusNamed == Spec => []SpecificStatus
<1>1. Reading => SpecificStatus
  <2> SUFFICES ASSUME Reading, Shown("page"), NEW e \in Range(output.history)
               PROVE  \E p \in Range(input.rows \o input.body) :
                        /\ IsEvent(p) /\ ParseDatetime(p.date, p.time) = e.at
                        /\ Mentions(p, e.status) \/ (e.status = "event" /\ p.says = {})
                        /\ e.status = "delivered" => "out_for_delivery" \notin p.says
                        /\ e.status = "loaded"    => "not_loaded" \notin p.says
    BY DEF SpecificStatus
  <2> DEFINE T == {EventOf(p) : p \in Telling(input)}
             events == ParsedEvents(input)
  <2>1. e \in Range(events)
    BY ScrapedHistory DEF NewestKept
  <2>2. /\ events \in Seq(T)
        /\ \A p \in Telling(input) : p.says \subseteq Range(Keywords)
    BY ShownPage, PageEvents
  <2> HIDE DEF events
  <2>3. e \in T
    BY <2>1, <2>2 DEF Range
  <2>4. PICK p \in Telling(input) : e = EventOf(p)
    BY <2>3
  <2>5. e.at = ParseDatetime(p.date, p.time) /\ e.status = DetectStatus(p)
    BY <2>4 DEF EventOf
  <2>6. p \in Range(input.rows \o input.body) /\ IsEvent(p)
    BY DEF Telling
  <2> QED
    BY <2>2, <2>5, <2>6, StatusDetected
<1> QED
  BY <1>1, ReadingInvariant, PTL

-----------------------------------------------------------------------------
(* The section of a label that stands once starts after it and ends before
   each of the labels that end it.                                          *)
LEMMA SectionPlaces ==
  ASSUME NEW S, NEW body \in Seq(S), NEW start, NEW ends, NEW i \in DOMAIN body,
         \A k \in DOMAIN body : body[k].label = start <=> k = i
  PROVE  \E m \in i..Len(body) :
           /\ SectionBetween(body, start, ends) = SubSeq(body, i + 1, m)
           /\ \A j \in DOMAIN body : j > i /\ body[j].label \in ends => m < j
<1> DEFINE starts == {k \in DOMAIN body : body[k].label = start}
           stops == {k \in DOMAIN body : k > i /\ body[k].label \in ends}
<1>1. DOMAIN body = 1..Len(body) /\ Len(body) \in Nat
  OBVIOUS
<1>2. starts = {i}
  OBVIOUS
<1>3. Min(starts) = i
  <2>1. starts \in SUBSET (DOMAIN body) /\ starts # {}
    BY <1>2
  <2>2. Min(starts) \in starts
    BY <2>1, SmallestPlace
  <2> QED
    BY <1>2, <2>2
<1>4. SectionBetween(body, start, ends) =
        SubSeq(body, i + 1, IF stops = {} THEN Len(body) ELSE Min(stops) - 1)
  <2>1. SectionBetween(body, start, ends) =
          LET S1 == starts
              S2 == {k \in DOMAIN body : k > Min(starts) /\ body[k].label \in ends}
          IN IF S1 = {} THEN <<>>
             ELSE SubSeq(body, Min(S1) + 1, IF S2 = {} THEN Len(body) ELSE Min(S2) - 1)
    BY DEF SectionBetween
  <2>2. starts # {}
    BY <1>2
  <2> HIDE DEF starts
  <2> QED
    BY <1>3, <2>1, <2>2
<1> HIDE DEF starts
<1>5. CASE stops = {}
  <2>1. Len(body) \in i..Len(body)
    BY <1>1
  <2>2. SectionBetween(body, start, ends) = SubSeq(body, i + 1, Len(body))
    BY <1>4, <1>5
  <2> QED
    BY <1>5, <2>1, <2>2
<1>6. CASE stops # {}
  <2>1. Min(stops) \in stops /\ \A j \in stops : Min(stops) <= j
    <3>1. stops \in SUBSET (DOMAIN body)
      OBVIOUS
    <3> QED
      BY <1>6, <3>1, SmallestPlace
  <2> DEFINE m == Min(stops) - 1
  <2>2. Min(stops) \in 1..Len(body) /\ Min(stops) > i
    BY <1>1, <2>1
  <2>3. m \in i..Len(body)
    BY <1>1, <2>2
  <2>4. SectionBetween(body, start, ends) = SubSeq(body, i + 1, m)
    BY <1>4, <1>6
  <2>5. ASSUME NEW j \in DOMAIN body, j > i, body[j].label \in ends
        PROVE  m < j
    <3>1. j \in stops
      BY <2>5
    <3> HIDE DEF stops
    <3>2. Min(stops) <= j
      BY <2>1, <3>1
    <3> QED
      BY <1>1, <2>2, <3>2
  <2> HIDE DEF m
  <2> QED
    BY <2>3, <2>4, <2>5
<1> QED
  BY <1>5, <1>6

LEMMA SectionMissing ==
  ASSUME NEW body, NEW start, NEW ends, \A k \in DOMAIN body : body[k].label # start
  PROVE  SectionBetween(body, start, ends) = <<>>
BY DEF SectionBetween

(* A party's name and address are texts of its section.                     *)
LEMMA PartyTexts ==
  ASSUME NEW S, NEW section \in Seq(S), NEW t \in {"name", "address"},
         ExtractParty(section)[t] # Absent
  PROVE  \E k \in DOMAIN section : ExtractParty(section)[t] = section[k].text
<1> DEFINE numbered == {i \in DOMAIN section : section[i].digits # "none"}
           line == section[Min(numbered)]
           party == ExtractParty(section)
<1>1. CASE section = <<>>
  <2>1. party = NoParty
    BY <1>1 DEF ExtractParty
  <2>2. NoParty.name = Absent /\ NoParty.address = Absent
    BY DEF NoParty
  <2> QED
    BY <2>1, <2>2
<1>2. CASE section # <<>>
  <2>1. /\ party.name = section[1].text
        /\ party.address =
             IF numbered # {} /\ line.digits = "address" THEN line.text ELSE Absent
    BY <1>2 DEF ExtractParty
  <2>2. 1 \in DOMAIN section
    BY <1>2
  <2>3. numbered # {} => Min(numbered) \in DOMAIN section
    <3>1. numbered \in SUBSET (DOMAIN section)
      OBVIOUS
    <3> QED
      BY <3>1, SmallestPlace
  <2> HIDE DEF numbered, party
  <2>4. CASE t = "name"
    BY <2>1, <2>2, <2>4 DEF party
  <2>5. CASE t = "address"
    <3>1. party.address # Absent
      BY <2>5 DEF party
    <3>2. numbered # {} /\ party.address = line.text
      BY <2>1, <3>1
    <3> QED
      BY <2>3, <2>5, <3>2 DEF party
  <2> QED
    BY <2>4, <2>5
<1> QED
  BY <1>1, <1>2

(* What is told of a party whose section is a part of the body.             *)
LEMMA PartyWithin ==
  ASSUME NEW S, NEW body \in Seq(S), NEW i \in DOMAIN body, NEW m \in i..Len(body),
         NEW t \in {"name", "address"},
         ExtractParty(SubSeq(body, i + 1, m))[t] # Absent
  PROVE  ExtractParty(SubSeq(body, i + 1, m))[t] \in {body[k].text : k \in (i + 1)..m}
<1> DEFINE section == SubSeq(body, i + 1, m)
<1>1. Len(body) \in Nat /\ i \in 1..Len(body) /\ m \in Int /\ i <= m /\ m <= Len(body)
  OBVIOUS
<1>2. section \in Seq(S) /\ DOMAIN section = 1..(m - i)
  BY <1>1
<1>3. \A k \in 1..(m - i) : section[k] = body[i + k] /\ i + k \in (i + 1)..m
  BY <1>1
<1>4. PICK k \in DOMAIN section : ExtractParty(section)[t] = section[k].text
  BY <1>2, PartyTexts
<1> HIDE DEF section
<1>5. ExtractParty(section)[t] = body[i + k].text /\ i + k \in (i + 1)..m
  BY <1>2, <1>3, <1>4
<1> QED
  BY <1>5 DEF section

(* Nothing of one party is told of the other.                               *)
THEOREM PartiesSeparate == Spec => []PartiesApart
<1>1. Reading => PartiesApart
  <2> DEFINE body == input.body
             told(party) == {party.name, party.address} \ {Absent}
  <2> SUFFICES ASSUME Reading, Shown("page"), NEW i \in DOMAIN body, NEW j \in DOMAIN body,
                      input.senderName = Absent, input.receiverName = Absent, i < j,
                      body[i].label = "Sender", body[j].label \in {"Receiver", "Consignee"},
                      \A k \in DOMAIN body \ {i, j} :
                        body[k].label \notin {"Sender", "Receiver", "Consignee"}
               PROVE  /\ told(output.sender) \subseteq {body[k].text : k \in (i + 1)..(j - 1)}
                      /\ told(output.receiver) \subseteq {body[k].text : k \in (j + 1)..Len(body)}
    BY DEF PartiesApart
  <2> DEFINE S == Range(body)
  <2>1. /\ input \in Pages
        /\ output.sender = Sender(input) /\ output.receiver = Receiver(input)
    BY ShownPage
  <2>2. body \in Seq(S)
    BY <2>1, PageAssumption
  <2>3. Sender(input) = ExtractParty(SectionBetween(body, "Sender", SenderEnds))
    BY DEF Sender
  <2>4. LET section == SectionBetween(body, "Receiver", ReceiverEnds)
        IN Receiver(input) =
             ExtractParty(IF section # <<>> THEN section
                          ELSE SectionBetween(body, "Consignee", ReceiverEnds))
    BY DEF Receiver
  <2> HIDE DEF body, S
  <2>5. DOMAIN body = 1..Len(body) /\ Len(body) \in Nat
    BY <2>2
  <2>6. told(output.sender) \subseteq {body[k].text : k \in (i + 1)..(j - 1)}
    <3>1. \A k \in DOMAIN body : body[k].label = "Sender" <=> k = i
      BY <2>5
    <3>2. body[j].label \in SenderEnds
      BY DEF SenderEnds
    <3>3. PICK m \in i..Len(body) :
            /\ SectionBetween(body, "Sender", SenderEnds) = SubSeq(body, i + 1, m)
            /\ \A k \in DOMAIN body : k > i /\ body[k].label \in SenderEnds => m < k
      BY <2>2, <3>1, SectionPlaces
    <3>4. m < j
      BY <2>5, <3>2, <3>3
    <3>5. \A t \in {"name", "address"} :
            output.sender[t] # Absent => output.sender[t] \in {body[k].text : k \in (i + 1)..m}
      <4>1. output.sender = ExtractParty(SubSeq(body, i + 1, m))
        BY <2>1, <2>3, <3>3
      <4> QED
        BY <2>2, <3>3, <4>1, PartyWithin
    <3>6. (i + 1)..m \subseteq (i + 1)..(j - 1)
      BY <2>5, <3>4
    <3> QED
      BY <3>5, <3>6
  <2>7. told(output.receiver) \subseteq {body[k].text : k \in (j + 1)..Len(body)}
    <3>1. PICK m \in j..Len(body) : output.receiver = ExtractParty(SubSeq(body, j + 1, m))
      <4>1. CASE body[j].label = "Receiver"
        <5>1. \A k \in DOMAIN body : body[k].label = "Receiver" <=> k = j
          BY <2>5, <4>1
        <5>2. PICK m \in j..Len(body) :
                /\ SectionBetween(body, "Receiver", ReceiverEnds) = SubSeq(body, j + 1, m)
                /\ \A k \in DOMAIN body : k > j /\ body[k].label \in ReceiverEnds => m < k
          BY <2>2, <5>1, SectionPlaces
        <5>3. CASE SubSeq(body, j + 1, m) # <<>>
          BY <2>1, <2>4, <5>2, <5>3
        <5>4. CASE SubSeq(body, j + 1, m) = <<>>
          <6>1. \A k \in DOMAIN body : body[k].label # "Consignee"
            BY <2>5, <4>1
          <6>2. SectionBetween(body, "Consignee", ReceiverEnds) = <<>>
            BY <6>1, SectionMissing
          <6> QED
            BY <2>1, <2>4, <5>2, <5>4, <6>2
        <5> QED
          BY <5>3, <5>4
      <4>2. CASE body[j].label = "Consignee"
        <5>1. /\ \A k \in DOMAIN body : body[k].label # "Receiver"
              /\ \A k \in DOMAIN body : body[k].label = "Consignee" <=> k = j
          BY <2>5, <4>2
        <5>2. SectionBetween(body, "Receiver", ReceiverEnds) = <<>>
          BY <5>1, SectionMissing
        <5>3. PICK m \in j..Len(body) :
                /\ SectionBetween(body, "Consignee", ReceiverEnds) = SubSeq(body, j + 1, m)
                /\ \A k \in DOMAIN body : k > j /\ body[k].label \in ReceiverEnds => m < k
          BY <2>2, <5>1, SectionPlaces
        <5> QED
          BY <2>1, <2>4, <5>2, <5>3
      <4> QED
        BY <4>1, <4>2
    <3>2. \A t \in {"name", "address"} :
            output.receiver[t] # Absent
              => output.receiver[t] \in {body[k].text : k \in (j + 1)..m}
      BY <2>2, <3>1, PartyWithin
    <3>3. (j + 1)..m \subseteq (j + 1)..Len(body)
      BY <2>5, <3>1
    <3> QED
      BY <3>2, <3>3
  <2> QED
    BY <2>6, <2>7 DEF body
<1> QED
  BY <1>1, ReadingInvariant, PTL

-----------------------------------------------------------------------------
(* A rounded quotient is a nearest integer and, of two, the even one.       *)
THEOREM RoundsToNearestEven ==
  ASSUME NEW a \in Int, NEW b \in Nat \ {0}
  PROVE  LET over == 2 * (HalfEven(a, b) * b - a)
         IN -b <= over /\ over <= b /\ (over \in {-b, b} => HalfEven(a, b) % 2 = 0)
<1> DEFINE q == a \div b
           r == a % b
<1>1. q \in Int /\ r \in Int /\ 0 <= r /\ r < b /\ a = b * q + r
  OBVIOUS
<1>2. q % 2 \in {0, 1} /\ (q % 2 = 1 => (q + 1) % 2 = 0)
  BY <1>1
<1>3. HalfEven(a, b) = IF 2 * r > b \/ (2 * r = b /\ q % 2 = 1) THEN q + 1 ELSE q
  BY DEF HalfEven
<1> HIDE DEF q, r
<1>4. q * b = b * q /\ (q + 1) * b = b * q + b /\ b * q \in Int
  BY <1>1
<1>5. CASE 2 * r > b
  <2>1. HalfEven(a, b) = q + 1
    BY <1>3, <1>5
  <2>2. 2 * (HalfEven(a, b) * b - a) = 2 * (b - r)
    BY <1>1, <1>4, <2>1
  <2> QED
    BY <1>1, <1>5, <2>2
<1>6. CASE 2 * r = b
  <2>1. CASE q % 2 = 1
    <3>1. HalfEven(a, b) = q + 1
      BY <1>3, <1>6, <2>1
    <3>2. 2 * (HalfEven(a, b) * b - a) = b
      BY <1>1, <1>4, <1>6, <3>1
    <3> QED
      BY <1>2, <2>1, <3>1, <3>2
  <2>2. CASE q % 2 = 0
    <3>1. HalfEven(a, b) = q
      BY <1>3, <1>6, <2>2
    <3>2. 2 * (HalfEven(a, b) * b - a) = -b
      BY <1>1, <1>4, <1>6, <3>1
    <3> QED
      BY <2>2, <3>1, <3>2
  <2> QED
    BY <1>2, <2>1, <2>2
<1>7. CASE 2 * r < b
  <2>1. HalfEven(a, b) = q
    BY <1>1, <1>3, <1>7
  <2>2. 2 * (HalfEven(a, b) * b - a) = -(2 * r)
    BY <1>1, <1>4, <2>1
  <2> QED
    BY <1>1, <1>7, <2>2
<1> QED
  BY <1>1, <1>5, <1>6, <1>7
=============================================================================
