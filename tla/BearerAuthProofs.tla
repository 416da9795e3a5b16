--------------------------- MODULE BearerAuthProofs ---------------------------
(***************************************************************************)
(* Proofs about BearerAuth for every set of requests and tokens, every     *)
(* limit and every length of run.  The inductive invariant IInv is proved  *)
(* in four layers, each assuming the ones before it: the types and the     *)
(* phases of a request, the timing of keys, the tickets, the revocations.  *)
(***************************************************************************)
EXTENDS BearerAuth, FunctionTheorems, FiniteSetTheorems, TLAPS

USE ConstantsAssumption

(* Days that a request can be charged to exist in the counter table.        *)
LEMMA DayInRange ==
  ASSUME NEW n \in 0..MaxSlot
  PROVE  /\ Day(n) \in Days
         /\ 2 * Day(n) <= n
         /\ n <= 2 * Day(n) + 1
  BY DEF Day, Days, LastDay

Shape == TypeOK /\ Credentialed /\ TicketWhenDrawn

(* A request reaches the quota only with a found token, a day and, from INCR
   on, a ticket; so every variable of the middleware and the store keeps its
   type.                                                                    *)
LEMMA ShapeCorrect == Spec => []Shape
<1>1. Init => Shape
  BY DEF Init, Shape, TypeOK, Credentialed, TicketWhenDrawn, Spent,
         Days, LastDay, Day, NoDay, Forever
<1>2. Shape /\ [Next]_vars => Shape'
  <2> SUFFICES ASSUME Shape, [Next]_vars
               PROVE  Shape'
    OBVIOUS
  <2> USE DEF Shape, TypeOK, Credentialed, TicketWhenDrawn, Spent, admin, quota, request
  <2>1. ASSUME NEW t \in Tokens, Operate(t)
        PROVE  Shape'
    <3>1. CASE MintRecord(t)
      BY <3>1 DEF MintRecord
    <3>2. CASE MintIndex(t)
      BY <3>2 DEF MintIndex
    <3>3. CASE MintFails(t)
      BY <3>3 DEF MintFails
    <3>4. CASE RevokeIndex(t)
      BY <3>4 DEF RevokeIndex
    <3>5. CASE RevokeLoad(t)
      BY <3>5 DEF RevokeLoad
    <3>6. CASE RevokeWrite(t)
      BY <3>6 DEF RevokeWrite
    <3>7. CASE RevokeFails(t)
      BY <3>7 DEF RevokeFails
    <3>8. CASE MintAnswerLost(t)
      <4>1. /\ UNCHANGED <<now, mint, revoke, quota, pc, request>>
            /\ \/ record' = [record EXCEPT ![t] = "live"] /\ index' = index /\ mint[t] = "unminted"
               \/ index' = [index EXCEPT ![t] = TRUE] /\ record' = record /\ mint[t] = "recorded"
        BY <3>8 DEF MintAnswerLost
      <4>2. CASE index' = index
        BY <4>1, <4>2
      <4>3. CASE record' = record
        BY <4>1, <4>3
      <4> QED BY <4>1, <4>2, <4>3
    <3>9. CASE RevokeAnswerLost(t)
      BY <3>9 DEF RevokeAnswerLost
    <3> QED
      BY <2>1, <3>1, <3>2, <3>3, <3>4, <3>5, <3>6, <3>7, <3>8, <3>9 DEF Operate
  <2>2. ASSUME NEW r \in Requests, BypassAuth(r)
        PROVE  Shape'
    BY <2>2 DEF BypassAuth, Outcomes
  <2>3. ASSUME NEW r \in Requests, Serve(r)
        PROVE  Shape'
    <3>1. CASE Lookup(r)
      BY <3>1 DEF Lookup, Usable, Known, InFlight, Outcomes
    <3>2. CASE StampDay(r)
      BY <3>2, DayInRange DEF StampDay, InFlight, Awaiting, NoDay, Days
    <3>3. CASE Incr(r)
      BY <3>3 DEF Incr, Bump, NextCount, InFlight, Awaiting
    <3>4. CASE Expire(r)
      BY <3>4 DEF Expire, SetTTL, QuotaTTL, InFlight, Awaiting
    <3>5. CASE GetIndex(r)
      BY <3>5 DEF GetIndex, InFlight, Awaiting, Outcomes
    <3>6. CASE GetRecord(r)
      BY <3>6 DEF GetRecord, Outcomes
    <3>7. CASE StoreFails(r)
      BY <3>7 DEF StoreFails, Outcomes, Awaiting
    <3>8. CASE IncrAnswerLost(r)
      BY <3>8 DEF IncrAnswerLost, Bump, NextCount, InFlight, Awaiting, Outcomes
    <3>9. CASE ExpireAnswerLost(r)
      BY <3>9 DEF ExpireAnswerLost, SetTTL, QuotaTTL, Outcomes
    <3> QED
      BY <2>3, <3>1, <3>2, <3>3, <3>4, <3>5, <3>6, <3>7, <3>8, <3>9 DEF Serve, Progress, Fail
  <2>4. ASSUME NEW r \in Requests, NEW c \in Tokens \cup {Stranger, NoBearer}, Arrive(r, c)
        PROVE  Shape'
    BY <2>4 DEF Arrive, InFlight, Awaiting, Outcomes
  <2>5. CASE Tick
    BY <2>5 DEF Tick, Forever
  <2>6. CASE UNCHANGED vars
    BY <2>6 DEF vars
  <2>7. QED
    BY <2>1, <2>2, <2>3, <2>4, <2>5, <2>6 DEF Next
<1>3. QED
  BY <1>1, <1>2, PTL DEF Spec

(* Every variable of the middleware and the store keeps its type.           *)
THEOREM TypeCorrect == Spec => []TypeOK
  BY ShapeCorrect, PTL DEF Shape

Timing == Timely /\ KeyOutlivesDay

(* No request outlives the half day after its own, so no INCR for a day comes
   after a key of that day can have expired: 36 hours from the first INCR of
   the day is at least 12 hours into the next.                              *)
LEMMA TimingCorrect == Spec => []Timing
<1>1. Init => Timing
  BY DEF Init, Timing, Timely, KeyOutlivesDay, InFlight, Awaiting, Spent, Forever, Days
<1>2. Shape /\ Timing /\ [Next]_vars => Timing'
  <2> SUFFICES ASSUME Shape, Timing, [Next]_vars
               PROVE  Timing'
    OBVIOUS
  <2>0. TypeOK /\ Credentialed /\ TicketWhenDrawn
    BY DEF Shape
  <2> USE DEF Timing, Spent, admin, quota, request
  <2>1. ASSUME NEW t \in Tokens, Operate(t)
        PROVE  Timing'
    BY <2>1 DEF Operate, MintRecord, MintIndex, MintAnswerLost, MintFails, RevokeIndex,
                RevokeLoad, RevokeWrite, RevokeAnswerLost, RevokeFails, Timely, KeyOutlivesDay
  <2>2. ASSUME NEW r \in Requests, BypassAuth(r)
        PROVE  Timing'
    BY <2>0, <2>2 DEF BypassAuth, Timely, KeyOutlivesDay, TypeOK, InFlight, Awaiting
  <2>3. ASSUME NEW r \in Requests, Serve(r)
        PROVE  Timing'
    <3> USE <2>0 DEF TypeOK, Timely, InFlight, Awaiting
    <3>1. CASE Lookup(r)
      BY <3>1 DEF Lookup, KeyOutlivesDay
    <3>2. CASE StampDay(r)
      <4>1. Day(now) \in Days /\ 2 * Day(now) <= now /\ now <= 2 * Day(now) + 1
        BY DayInRange
      <4> QED
        BY <3>2, <4>1 DEF StampDay, KeyOutlivesDay, Days
    <3>3. CASE Incr(r)
      BY <3>3 DEF Incr, Bump, KeyOutlivesDay
    <3>4. CASE Expire(r)
      <4>1. Timely'
        BY <3>4 DEF Expire, SetTTL
      <4>2. KeyOutlivesDay'
        <5>1. /\ now' = now /\ cred[r] \in Tokens /\ day[r] \in Days
              /\ expiry' = [expiry EXCEPT ![cred[r]][day[r]] = now + 3]
              /\ 2 * day[r] <= now /\ now \in Nat /\ day[r] \in Nat
          BY <3>4 DEF Expire, SetTTL, QuotaTTL, TicketWhenDrawn, Credentialed, Days
        <5>2. 2 * day[r] + 3 <= now + 3
          BY <5>1
        <5> QED
          BY <5>1, <5>2 DEF KeyOutlivesDay
      <4> QED BY <4>1, <4>2
    <3>5. CASE GetIndex(r)
      BY <3>5 DEF GetIndex, KeyOutlivesDay
    <3>6. CASE GetRecord(r)
      BY <3>6 DEF GetRecord, KeyOutlivesDay
    <3>7. CASE StoreFails(r)
      BY <3>7 DEF StoreFails, KeyOutlivesDay
    <3>8. CASE IncrAnswerLost(r)
      BY <3>8 DEF IncrAnswerLost, Bump, KeyOutlivesDay
    <3>9. CASE ExpireAnswerLost(r)
      <4>1. Timely'
        BY <3>9 DEF ExpireAnswerLost, SetTTL
      <4>2. KeyOutlivesDay'
        <5>1. /\ now' = now /\ cred[r] \in Tokens /\ day[r] \in Days
              /\ expiry' = [expiry EXCEPT ![cred[r]][day[r]] = now + 3]
              /\ 2 * day[r] <= now /\ now \in Nat /\ day[r] \in Nat
          BY <3>9 DEF ExpireAnswerLost, SetTTL, QuotaTTL, TicketWhenDrawn, Credentialed, Days
        <5>2. 2 * day[r] + 3 <= now + 3
          BY <5>1
        <5> QED
          BY <5>1, <5>2 DEF KeyOutlivesDay
      <4> QED BY <4>1, <4>2
    <3> QED
      BY <2>3, <3>1, <3>2, <3>3, <3>4, <3>5, <3>6, <3>7, <3>8, <3>9 DEF Serve, Progress, Fail
  <2>4. ASSUME NEW r \in Requests, NEW c \in Tokens \cup {Stranger, NoBearer}, Arrive(r, c)
        PROVE  Timing'
    BY <2>0, <2>4 DEF Arrive, Timely, KeyOutlivesDay, TypeOK, InFlight, Awaiting
  <2>5. CASE Tick
    BY <2>0, <2>5 DEF Tick, Timely, KeyOutlivesDay, TypeOK, InFlight, Awaiting, Forever,
                      TicketWhenDrawn, Days
  <2>6. CASE UNCHANGED vars
    BY <2>6 DEF vars, Timely, KeyOutlivesDay
  <2>7. QED
    BY <2>1, <2>2, <2>3, <2>4, <2>5, <2>6 DEF Next
<1>3. QED
  BY <1>1, <1>2, ShapeCorrect, PTL DEF Spec

Ticketing == TicketsCounted /\ TicketsDistinct /\ AdmittedWithinLimit

(* The step that draws a unit: the new one is above every unit of the same
   token and day, because the key that counted those is still there.        *)
LEMMA BumpDistinct ==
  ASSUME Shape, Timing, TicketsCounted, TicketsDistinct,
         NEW r \in Requests, pc[r] \in {"incr", "reincr"}, Bump(r),
         UNCHANGED <<now, cred, day>>
  PROVE  TicketsCounted' /\ TicketsDistinct'
<1> DEFINE t == cred[r]
           d == day[r]
           n == count[t][d] + 1
<1>1. t \in Tokens /\ d \in Days /\ count[t][d] \in Nat /\ drawn \in [Requests -> SUBSET Nat]
      /\ cred' = cred /\ day' = day /\ now' = now
  BY DEF Shape, TypeOK, Credentialed, TicketWhenDrawn
<1>2. now < 2 * d + 3
  BY <1>1 DEF Timing, Timely, Shape, TypeOK, InFlight, Awaiting, Days
<1>3. /\ count' = [count EXCEPT ![t][d] = n]
      /\ drawn' = [drawn EXCEPT ![r] = @ \cup {n}]
  BY DEF Bump, NextCount
<1>4. ASSUME NEW s \in Requests, cred[s] = t, day[s] = d, NEW m \in drawn[s]
      PROVE  m < n
<2>1. m <= count[t][d] \/ 2 * d + 3 <= now
  BY <1>4 DEF TicketsCounted
<2>2. d \in Nat /\ now \in Nat /\ m \in Nat
  BY <1>1, <1>4 DEF Days, Shape, TypeOK
<2> QED
  BY <2>1, <2>2, <1>1, <1>2
<1>5. count'[t][d] = n /\ \A u \in Tokens, e \in Days : count[u][e] <= count'[u][e]
  BY <1>1, <1>3 DEF Shape, TypeOK
<1>6. \A s \in Requests : drawn[s] # {} => cred[s] \in Tokens /\ day[s] \in Days
  BY DEF Shape, TicketWhenDrawn
<1>7. TicketsCounted'
  <2> SUFFICES ASSUME NEW s \in Requests, NEW m \in drawn'[s]
               PROVE  m <= count'[cred[s]][day[s]] \/ 2 * day[s] + 3 <= now
    BY <1>1 DEF TicketsCounted
  <2>1. CASE s = r /\ m = n
    BY <2>1, <1>1, <1>5
  <2>2. CASE ~(s = r /\ m = n)
    <3>1. m \in drawn[s] /\ cred[s] \in Tokens /\ day[s] \in Days
      BY <2>2, <1>1, <1>3, <1>6
    <3>2. count[cred[s]][day[s]] \in Nat /\ count'[cred[s]][day[s]] \in Nat /\ m \in Nat
      BY <3>1, <1>1, <1>3 DEF Shape, TypeOK
    <3>3. count[cred[s]][day[s]] <= count'[cred[s]][day[s]]
      BY <3>1, <1>5
    <3>4. m <= count[cred[s]][day[s]] \/ 2 * day[s] + 3 <= now
      BY <3>1 DEF TicketsCounted
    <3> QED
      BY <3>2, <3>3, <3>4
  <2> QED BY <2>1, <2>2
<1>8. TicketsDistinct'
  <2>1. ASSUME NEW s \in Requests, s # r, cred[s] = t, day[s] = d
        PROVE  drawn'[s] = drawn[s] /\ n \notin drawn[s]
    BY <2>1, <1>1, <1>3, <1>4
  <2>2. drawn'[r] = drawn[r] \cup {n} /\ \A s \in Requests : s # r => drawn'[s] = drawn[s]
    BY <1>1, <1>3
  <2> HIDE DEF n
  <2> QED BY <1>1, <2>1, <2>2 DEF TicketsDistinct
<1> QED
  BY <1>7, <1>8

(* Tickets of one token and day are distinct, and only those within the limit
   are admitted.                                                            *)
LEMMA TicketingCorrect == Spec => []Ticketing
<1>1. Init => Ticketing
  BY DEF Init, Ticketing, TicketsCounted, TicketsDistinct, AdmittedWithinLimit
<1>2. Shape /\ Timing /\ Ticketing /\ [Next]_vars => Ticketing'
  <2> SUFFICES ASSUME Shape, Timing, Ticketing, [Next]_vars
               PROVE  Ticketing'
    OBVIOUS
  <2>0. TypeOK /\ Credentialed /\ TicketWhenDrawn /\ Timely /\ KeyOutlivesDay
        /\ TicketsCounted /\ TicketsDistinct /\ AdmittedWithinLimit
    BY DEF Shape, Timing, Ticketing
  <2>a. ASSUME UNCHANGED <<now, count, cred, day, drawn>>
        PROVE  TicketsCounted' /\ TicketsDistinct'
    BY <2>0, <2>a DEF TicketsCounted, TicketsDistinct
  <2> USE DEF admin, quota, request
  <2>1. ASSUME NEW t \in Tokens, Operate(t)
        PROVE  Ticketing'
    BY <2>0, <2>1, <2>a DEF Ticketing, AdmittedWithinLimit,
       Operate, MintRecord, MintIndex, MintAnswerLost, MintFails, RevokeIndex, RevokeLoad,
       RevokeWrite, RevokeAnswerLost, RevokeFails
  <2>2. ASSUME NEW r \in Requests, BypassAuth(r)
        PROVE  Ticketing'
    BY <2>0, <2>2, <2>a DEF BypassAuth, Ticketing, AdmittedWithinLimit, TypeOK
  <2>3. ASSUME NEW r \in Requests, Serve(r)
        PROVE  Ticketing'
    <3> USE <2>0 DEF AdmittedWithinLimit, TypeOK
    <3>1. CASE Lookup(r)
      BY <3>1, <2>a DEF Lookup, Ticketing
    <3>2. CASE StampDay(r)
      BY <3>2 DEF StampDay, Ticketing, TicketsCounted, TicketsDistinct, TicketWhenDrawn
    <3>3. CASE Incr(r)
      <4>1. TicketsCounted' /\ TicketsDistinct'
        BY <3>3, BumpDistinct DEF Incr
      <4>2. AdmittedWithinLimit'
        BY <3>3 DEF Incr, NextCount
      <4> QED BY <4>1, <4>2 DEF Ticketing
    <3>4. CASE Expire(r)
      BY <3>4, <2>a DEF Expire, SetTTL, Ticketing
    <3>5. CASE GetIndex(r)
      BY <3>5, <2>a DEF GetIndex, Ticketing
    <3>6. CASE GetRecord(r)
      <4>1. TicketsCounted' /\ TicketsDistinct'
        BY <3>6, <2>a DEF GetRecord
      <4>2. AdmittedWithinLimit'
        BY <3>6 DEF GetRecord, QuotaSpent, Credentialed, Spent
      <4> QED BY <4>1, <4>2 DEF Ticketing
    <3>7. CASE StoreFails(r)
      BY <3>7, <2>a DEF StoreFails, Ticketing
    <3>8. CASE IncrAnswerLost(r)
      <4>1. TicketsCounted' /\ TicketsDistinct'
        BY <3>8, BumpDistinct DEF IncrAnswerLost
      <4>2. AdmittedWithinLimit'
        BY <3>8 DEF IncrAnswerLost
      <4> QED BY <4>1, <4>2 DEF Ticketing
    <3>9. CASE ExpireAnswerLost(r)
      BY <3>9, <2>a DEF ExpireAnswerLost, SetTTL, Ticketing
    <3> QED
      BY <2>3, <3>1, <3>2, <3>3, <3>4, <3>5, <3>6, <3>7, <3>8, <3>9 DEF Serve, Progress, Fail
  <2>4. ASSUME NEW r \in Requests, NEW c \in Tokens \cup {Stranger, NoBearer}, Arrive(r, c)
        PROVE  Ticketing'
    BY <2>0, <2>4 DEF Arrive, Ticketing, TicketsCounted, TicketsDistinct, AdmittedWithinLimit,
                      TypeOK, TicketWhenDrawn
  <2>5. CASE Tick
    <3>1. ASSUME NEW s \in Requests, NEW m \in drawn[s]
          PROVE  m <= count'[cred[s]][day[s]] \/ 2 * day[s] + 3 <= now + 1
      <4>1. cred[s] \in Tokens /\ day[s] \in Days /\ day[s] \in Nat /\ now \in Nat
        BY <2>0, <3>1 DEF TicketWhenDrawn, TypeOK, Days
      <4>2. m <= count[cred[s]][day[s]] \/ 2 * day[s] + 3 <= now
        BY <2>0, <3>1 DEF TicketsCounted
      <4>3. count'[cred[s]][day[s]] =
              IF Expired(cred[s], day[s]) THEN 0 ELSE count[cred[s]][day[s]]
        BY <2>5, <4>1 DEF Tick
      <4>4. Expired(cred[s], day[s]) => 2 * day[s] + 3 <= now + 1
        BY <2>0, <4>1 DEF Expired, KeyOutlivesDay, TypeOK, Forever
      <4> QED
        BY <4>1, <4>2, <4>3, <4>4
    <3>a. TicketsCounted'
      BY <2>5, <3>1 DEF Tick, TicketsCounted
    <3>2. TicketsDistinct' /\ AdmittedWithinLimit'
      BY <2>0, <2>5 DEF Tick, TicketsDistinct, AdmittedWithinLimit
    <3> QED BY <3>a, <3>2 DEF Ticketing
  <2>6. CASE UNCHANGED vars
    BY <2>0, <2>6, <2>a DEF vars, Ticketing, AdmittedWithinLimit
  <2>7. QED
    BY <2>1, <2>2, <2>3, <2>4, <2>5, <2>6 DEF Next
<1>3. QED
  BY <1>1, <1>2, ShapeCorrect, TimingCorrect, PTL DEF Spec

(* A completed revocation is never undone and bars every later request.     *)
LEMMA RevocationCorrect == Spec => []RevocationFinal
<1>1. Init => RevocationFinal
  BY DEF Init, RevocationFinal
<1>2. Shape /\ RevocationFinal /\ [Next]_vars => RevocationFinal'
  <2> SUFFICES ASSUME Shape, RevocationFinal, [Next]_vars
               PROVE  RevocationFinal'
    OBVIOUS
  <2> USE DEF Shape, TypeOK, RevocationFinal, admin, quota, request
  <2>1. ASSUME NEW t \in Tokens, Operate(t)
        PROVE  RevocationFinal'
    <3>1. CASE MintRecord(t)
      BY <3>1 DEF MintRecord
    <3>2. CASE MintIndex(t)
      BY <3>2 DEF MintIndex
    <3>3. CASE MintFails(t)
      BY <3>3 DEF MintFails
    <3>4. CASE RevokeIndex(t)
      BY <3>4 DEF RevokeIndex
    <3>5. CASE RevokeLoad(t)
      BY <3>5 DEF RevokeLoad
    <3>6. CASE RevokeWrite(t)
      BY <3>6 DEF RevokeWrite
    <3>7. CASE RevokeFails(t)
      BY <3>7 DEF RevokeFails
    <3>8. CASE MintAnswerLost(t)
      <4>1. /\ UNCHANGED <<now, mint, revoke, quota, pc, request>>
            /\ \/ record' = [record EXCEPT ![t] = "live"] /\ index' = index /\ mint[t] = "unminted"
               \/ index' = [index EXCEPT ![t] = TRUE] /\ record' = record /\ mint[t] = "recorded"
        BY <3>8 DEF MintAnswerLost
      <4>2. CASE index' = index
        BY <4>1, <4>2
      <4>3. CASE record' = record
        BY <4>1, <4>3
      <4> QED BY <4>1, <4>2, <4>3
    <3>9. CASE RevokeAnswerLost(t)
      BY <3>9 DEF RevokeAnswerLost
    <3> QED
      BY <2>1, <3>1, <3>2, <3>3, <3>4, <3>5, <3>6, <3>7, <3>8, <3>9 DEF Operate
  <2>2. ASSUME NEW r \in Requests, BypassAuth(r)
        PROVE  RevocationFinal'
    BY <2>2 DEF BypassAuth
  <2>3. ASSUME NEW r \in Requests, Serve(r)
        PROVE  RevocationFinal'
    <3>1. /\ UNCHANGED <<record, index, mint, revoke, cred, barred>>
          /\ \A s \in Requests : s # r => pc'[s] = pc[s]
          /\ pc[r] \notin {"unauthorized", "failed"}
          /\ pc[r] = "lookup" =>
               \/ pc'[r] = (IF Usable(cred[r]) THEN "dating" ELSE "unauthorized")
               \/ pc'[r] = "failed"
      BY <2>3 DEF Serve, Progress, Fail, Lookup, StampDay, Incr, Expire, GetIndex, GetRecord, StoreFails,
                  IncrAnswerLost, ExpireAnswerLost, Awaiting
    <3>2. r \in barred => pc[r] = "lookup" /\ ~Usable(cred[r])
      BY <3>1 DEF Usable
    <3>3. ASSUME NEW q \in barred
          PROVE  pc'[q] \in {"lookup", "unauthorized", "failed"}
      <4>1. CASE q = r
        BY <3>1, <3>2, <4>1
      <4>2. CASE q # r
        BY <3>1, <4>2
      <4> QED BY <4>1, <4>2
    <3> QED
      BY <3>1, <3>3
  <2>4. ASSUME NEW r \in Requests, NEW c \in Tokens \cup {Stranger, NoBearer}, Arrive(r, c)
        PROVE  RevocationFinal'
    BY <2>4 DEF Arrive
  <2>5. CASE Tick
    BY <2>5 DEF Tick
  <2>6. CASE UNCHANGED vars
    BY <2>6 DEF vars
  <2>7. QED
    BY <2>1, <2>2, <2>3, <2>4, <2>5, <2>6 DEF Next
<1>3. QED
  BY <1>1, <1>2, ShapeCorrect, PTL DEF Spec

-----------------------------------------------------------------------------
(* The inductive invariant holds in every reachable state.                  *)
THEOREM InductiveInvariant == Spec => []IInv
  BY ShapeCorrect, TimingCorrect, TicketingCorrect, RevocationCorrect, PTL
     DEF IInv, Shape, Timing, Ticketing

(* Distinct tickets between 1 and n cannot be more than n: requests of one
   token and day with tickets within the limit map one to one into 1..Limit. *)
LEMMA TicketsFit ==
  ASSUME IInv, NEW t \in Tokens, NEW d \in Days, NEW S \in SUBSET Requests,
         \A r \in S : cred[r] = t /\ day[r] = d /\ ticket[r] \in 1..Limit[t]
  PROVE  IsFiniteSet(S) /\ Cardinality(S) <= Limit[t]
<1> DEFINE f == [r \in S |-> ticket[r]]
<1>1. f \in [S -> 1..Limit[t]]
  OBVIOUS
<1>2. \A r, s \in S : f[r] = f[s] => r = s
  <2>1. \A r \in S : ticket[r] \in drawn[r] /\ ticket[r] = f[r] /\ cred[r] = t /\ day[r] = d
    BY DEF IInv, TicketWhenDrawn
  <2> HIDE DEF f
  <2> QED BY <2>1 DEF IInv, TicketsDistinct
<1>3. f \in Injection(S, 1..Limit[t])
  BY <1>1, <1>2, Fun_IsInj
<1>4. IsFiniteSet(1..Limit[t]) /\ Cardinality(1..Limit[t]) = Limit[t]
  BY FS_Interval
<1> QED
  BY <1>3, <1>4, FS_Injection

(* Whoever is admitted on a token and day holds a ticket within the limit.   *)
LEMMA AdmittedHold ==
  ASSUME IInv, NEW t \in Tokens, NEW d \in Days, NEW r \in Admitted(t, d)
  PROVE  r \in Requests /\ cred[r] = t /\ day[r] = d /\ ticket[r] \in 1..Limit[t]
  BY DEF Admitted, IInv, TypeOK, TicketWhenDrawn, Spent, AdmittedWithinLimit

(* So no more are admitted on a token and day than its limit.                *)
LEMMA AdmittedFit ==
  ASSUME IInv, NEW t \in Tokens, NEW d \in Days
  PROVE  Cardinality(Admitted(t, d)) <= Limit[t]
<1>1. Admitted(t, d) \in SUBSET Requests
  BY DEF Admitted
<1> QED
  BY <1>1, AdmittedHold, TicketsFit

(* Whoever holds a ticket within the limit and is not admitted yet leaves the
   admitted one short of it.                                                *)
LEMMA RoomForOne ==
  ASSUME IInv, NEW t \in Tokens, NEW d \in Days, NEW r \in Requests,
         r \notin Admitted(t, d), cred[r] = t, day[r] = d, ticket[r] \in 1..Limit[t]
  PROVE  Cardinality(Admitted(t, d)) < Limit[t]
<1> DEFINE A == Admitted(t, d)
<1>1. A \cup {r} \in SUBSET Requests
  BY DEF Admitted
<1>2. IsFiniteSet(A \cup {r}) /\ Cardinality(A \cup {r}) <= Limit[t]
  BY <1>1, AdmittedHold, TicketsFit
<1>3. IsFiniteSet(A)
  BY <1>2, FS_Subset
<1>4. Cardinality(A \cup {r}) = Cardinality(A) + 1
  BY <1>3, FS_AddElement
<1> QED
  BY <1>2, <1>3, <1>4, FS_CardinalityType

(* No token is admitted more often on one UTC day than its daily limit.     *)
THEOREM QuotaIsRespected == Spec => []QuotaRespected
<1>1. IInv => QuotaRespected
  BY AdmittedFit DEF QuotaRespected
<1> QED
  BY <1>1, InductiveInvariant, PTL

(* No two admitted requests of a token and day are told the same remainder. *)
THEOREM RemainingIsDistinct == Spec => []RemainingDistinct
<1>1. IInv => RemainingDistinct
  BY DEF IInv, RemainingDistinct, TicketsDistinct, AdmittedWithinLimit, TicketWhenDrawn,
         Spent, TypeOK
<1> QED
  BY <1>1, InductiveInvariant, PTL

(* A request that came after its token's revocation is never admitted.      *)
THEOREM RevocationIsHeld == Spec => []RevocationHolds
<1>1. IInv => RevocationHolds
  BY DEF IInv, RevocationFinal, RevocationHolds
<1> QED
  BY <1>1, InductiveInvariant, PTL

-----------------------------------------------------------------------------
(* A key without a TTL: the request that made it is still there to blame. The
   INCR that finds no key draws 1, and only who hears of a 1 sends EXPIRE.   *)
THEOREM LeaksOnlyByLoss == Spec => []LeakOnlyByLoss
<1>1. Init => LeakOnlyByLoss
  BY DEF Init, LeakOnlyByLoss
<1>2. Shape /\ LeakOnlyByLoss /\ [Next]_vars => LeakOnlyByLoss'
  <2> SUFFICES ASSUME Shape, LeakOnlyByLoss, [Next]_vars,
                      NEW t \in Tokens, NEW d \in Days,
                      count'[t][d] > 0, expiry'[t][d] = Forever
               PROVE  \E s \in Requests :
                        /\ cred'[s] = t /\ day'[s] = d /\ 1 \in drawn'[s]
                        /\ ticket'[s] # 1 \/ pc'[s] \in {"expire", "failed"}
    BY DEF LeakOnlyByLoss
  <2> USE DEF Shape, TypeOK, TicketWhenDrawn, Credentialed, admin, quota, request
  <2> DEFINE Blamed(s) == /\ cred[s] = t /\ day[s] = d /\ 1 \in drawn[s]
                          /\ ticket[s] # 1 \/ pc[s] \in {"expire", "failed"}
  <2>0. ASSUME count[t][d] > 0, expiry[t][d] = Forever
        PROVE  \E s \in Requests : Blamed(s)
    BY <2>0 DEF LeakOnlyByLoss
  <2> HIDE DEF Blamed
  <2>a. ASSUME UNCHANGED <<pc, request>>, UNCHANGED quota
        PROVE  \E s \in Requests : Blamed(s)'
    BY <2>a, <2>0 DEF Blamed
  <2>b. SUFFICES \E s \in Requests : Blamed(s)'
    BY DEF Blamed
  <2>1. ASSUME NEW u \in Tokens, Operate(u)
        PROVE  \E s \in Requests : Blamed(s)'
    BY <2>1, <2>a DEF Operate, MintRecord, MintIndex, MintAnswerLost, MintFails, RevokeIndex, RevokeLoad,
                      RevokeWrite, RevokeAnswerLost, RevokeFails
  <2>2. ASSUME NEW r \in Requests, BypassAuth(r)
        PROVE  \E s \in Requests : Blamed(s)'
    BY <2>2, <2>0 DEF BypassAuth, Blamed
  <2>3. ASSUME NEW r \in Requests, Serve(r)
        PROVE  \E s \in Requests : Blamed(s)'
    <3>1. CASE pc[r] \in {"incr", "reincr"} /\ Bump(r)
      <4>1. /\ UNCHANGED <<expiry, cred, day>>
            /\ \A q \in Requests : q # r => pc'[q] = pc[q] /\ ticket'[q] = ticket[q]
            /\ \/ /\ ticket'[r] = NextCount(r)
                  /\ NextCount(r) = 1 => pc'[r] = "expire"
               \/ ticket'[r] = ticket[r]
        BY <2>3, <3>1 DEF Serve, Progress, Fail, Lookup, StampDay, Incr, Expire, GetIndex,
             GetRecord, StoreFails, IncrAnswerLost, ExpireAnswerLost, Awaiting
      <4>2. /\ cred[r] \in Tokens /\ day[r] \in Days /\ ticket[r] = 0
            /\ NextCount(r) = count[cred[r]][day[r]] + 1
            /\ count[cred[r]][day[r]] \in Nat
        <5>1. cred[r] \in Tokens /\ day[r] \in Days
          BY <3>1
        <5>2. ticket[r] = 0
          <6>1. ticket[r] \in Nat /\ (ticket[r] > 0 => drawn[r] # {})
            OBVIOUS
          <6>2. pc[r] = "incr" => drawn[r] = {}
            OBVIOUS
          <6>3. pc[r] = "reincr" => ticket[r] = 0
            OBVIOUS
          <6> QED BY <3>1, <6>1, <6>2, <6>3
        <5>3. count \in [Tokens -> [Days -> Nat]]
          OBVIOUS
        <5>4. count[cred[r]][day[r]] \in Nat
          BY <5>1, <5>3
        <5> QED BY <5>1, <5>2, <5>4 DEF NextCount
      <4>3. /\ drawn'[r] = drawn[r] \cup {NextCount(r)}
            /\ \A q \in Requests : q # r => drawn'[q] = drawn[q]
            /\ ~(cred[r] = t /\ day[r] = d) => count'[t][d] = count[t][d]
        <5> DEFINE n == NextCount(r)
        <5>1. /\ drawn' = [drawn EXCEPT ![r] = @ \cup {n}]
              /\ count' = [count EXCEPT ![cred[r]][day[r]] = n]
          BY <3>1 DEF Bump
        <5> HIDE DEF n
        <5>2. n = NextCount(r)
          BY DEF n
        <5> QED BY <5>1, <5>2, <4>2
      <4>4. CASE cred[r] = t /\ day[r] = d /\ count[t][d] = 0
        <5>1. NextCount(r) = 1
          BY <4>2, <4>4
        <5>2. cred'[r] = t /\ day'[r] = d /\ 1 \in drawn'[r]
          BY <4>1, <4>3, <4>4, <5>1
        <5>3. ticket'[r] # 1 \/ pc'[r] = "expire"
          BY <4>1, <4>2, <5>1
        <5> QED BY <5>2, <5>3 DEF Blamed
      <4>5. CASE ~(cred[r] = t /\ day[r] = d /\ count[t][d] = 0)
        <5>1. count[t][d] > 0
          BY <4>3, <4>5
        <5>2. PICK s \in Requests : Blamed(s)
          BY <5>1, <4>1, <2>0
        <5>3. CASE s # r
          <6>1. UNCHANGED <<cred, day>> /\ drawn'[s] = drawn[s] /\ pc'[s] = pc[s] /\ ticket'[s] = ticket[s]
            BY <5>3, <4>1, <4>3
          <6> QED BY <5>2, <6>1 DEF Blamed
        <5>4. CASE s = r
          <6>1. NextCount(r) # 1
            BY <5>1, <5>2, <5>4, <4>2 DEF Blamed
          <6> QED BY <6>1, <5>2, <5>4, <4>1, <4>2, <4>3 DEF Blamed
        <5> QED BY <5>3, <5>4
      <4> QED BY <4>4, <4>5
    <3>2. CASE pc[r] = "expire" /\ SetTTL(r)
      <4>1. count[t][d] > 0 /\ UNCHANGED <<count, cred, day, ticket, drawn>>
            /\ \A s \in Requests : s # r => pc'[s] = pc[s]
        BY <2>3, <3>2 DEF Serve, Progress, Fail, Lookup, StampDay, Incr, Expire, GetIndex,
             GetRecord, StoreFails, IncrAnswerLost, ExpireAnswerLost, Awaiting
      <4>2. expiry[t][d] = Forever /\ ~(cred[r] = t /\ day[r] = d)
        BY <3>2 DEF SetTTL, Spent, QuotaTTL, Forever
      <4>3. PICK s \in Requests : Blamed(s)
        BY <4>1, <4>2, <2>0
      <4>4. s # r
        BY <4>2, <4>3 DEF Blamed
      <4> QED BY <4>1, <4>3, <4>4 DEF Blamed
    <3>3. CASE ~(pc[r] \in {"incr", "reincr"} /\ Bump(r)) /\ ~(pc[r] = "expire" /\ SetTTL(r))
      <4>1. /\ UNCHANGED <<count, expiry, cred, ticket, drawn>>
            /\ \A s \in Requests : s # r => pc'[s] = pc[s] /\ day'[s] = day[s]
            /\ pc[r] \in {"expire", "failed"} => pc'[r] = "failed"
            /\ drawn[r] # {} => day'[r] = day[r]
        BY <2>3, <3>3 DEF Serve, Progress, Fail, Lookup, StampDay, Incr, Expire, GetIndex,
             GetRecord, StoreFails, IncrAnswerLost, ExpireAnswerLost, Awaiting
      <4>2. PICK s \in Requests : Blamed(s)
        BY <4>1, <2>0
      <4> QED BY <4>1, <4>2 DEF Blamed
    <3> QED BY <3>1, <3>2, <3>3
  <2>4. ASSUME NEW r \in Requests, NEW c \in Tokens \cup {Stranger, NoBearer}, Arrive(r, c)
        PROVE  \E s \in Requests : Blamed(s)'
    BY <2>4, <2>0 DEF Arrive, Blamed
  <2>5. CASE Tick
    <3>1. count[t][d] > 0 /\ expiry[t][d] = Forever
      BY <2>5 DEF Tick
    <3> QED BY <2>5, <3>1, <2>0 DEF Tick, Blamed
  <2>6. CASE UNCHANGED vars
    BY <2>6, <2>a DEF vars
  <2>7. QED
    BY <2>1, <2>2, <2>3, <2>4, <2>5, <2>6 DEF Next
<1>3. QED
  BY <1>1, <1>2, ShapeCorrect, PTL DEF Spec

-----------------------------------------------------------------------------
(* Earned refusals.  The units drawn of a token and day have no gaps below
   them, and a key is backed by the unit it last gave.                      *)
Holds(s, t, d, n) == s \in Requests /\ cred[s] = t /\ day[s] = d /\ n \in drawn[s]

Gapless ==
  /\ \A r \in Requests : \A m \in drawn[r] : \A n \in 1..m :
       \E s \in Requests : Holds(s, cred[r], day[r], n)
  /\ \A t \in Tokens, d \in Days, n \in Nat \ {0} : count[t][d] = n =>
       \E s \in Requests : Holds(s, t, d, n)

(* A step that draws no unit leaves all of that as it was; a key that has
   expired counts nothing.                                                  *)
LEMMA GaplessUndrawn ==
  ASSUME Gapless, UNCHANGED <<drawn>>,
         \A s \in Requests : drawn[s] # {} => cred'[s] = cred[s] /\ day'[s] = day[s],
         \A t \in Tokens, d \in Days : count'[t][d] \in {0, count[t][d]}
  PROVE  Gapless'
<1>0. ASSUME NEW t, NEW d, NEW n, NEW s \in Requests, Holds(s, t, d, n)
      PROVE  Holds(s, t, d, n)'
  BY <1>0 DEF Holds
<1>1. ASSUME NEW r \in Requests, NEW m \in drawn'[r], NEW n \in 1..m
      PROVE  \E s \in Requests : Holds(s, cred[r], day[r], n)' /\ cred'[r] = cred[r] /\ day'[r] = day[r]
  <2>1. PICK s \in Requests : Holds(s, cred[r], day[r], n)
    BY <1>1 DEF Gapless
  <2> QED BY <2>1, <1>0
<1>2. ASSUME NEW t \in Tokens, NEW d \in Days, NEW n \in Nat \ {0}, count'[t][d] = n
      PROVE  \E s \in Requests : Holds(s, t, d, n)'
  <2>1. PICK s \in Requests : Holds(s, t, d, n)
    BY <1>2 DEF Gapless
  <2> QED BY <1>0, <2>1
<1> QED
  BY <1>1, <1>2 DEF Gapless, Holds

(* The unit an INCR draws is one above the count, or the first.             *)
LEMMA GaplessDrawn ==
  ASSUME Shape, Gapless, NEW r \in Requests, pc[r] \in {"incr", "reincr"}, Bump(r),
         UNCHANGED <<cred, day>>
  PROVE  Gapless'
<1>1. PICK t \in Tokens, d \in Days, n \in Nat \ {0} :
        /\ cred[r] = t /\ day[r] = d /\ count[t][d] = n - 1
        /\ drawn' = [drawn EXCEPT ![r] = @ \cup {n}]
        /\ count' = [count EXCEPT ![t][d] = n]
  <2>1. /\ cred[r] \in Tokens /\ day[r] \in Days
        /\ count[cred[r]][day[r]] \in Nat
    BY DEF Shape, TypeOK, Credentialed, TicketWhenDrawn
  <2>2. NextCount(r) \in Nat \ {0} /\ count[cred[r]][day[r]] = NextCount(r) - 1
    BY <2>1 DEF NextCount
  <2> QED BY <2>1, <2>2 DEF Bump
<1>2. drawn'[r] = drawn[r] \cup {n} /\ \A s \in Requests : s # r => drawn'[s] = drawn[s]
  BY <1>1 DEF Shape, TypeOK
<1>3. ASSUME NEW s \in Requests, NEW m, NEW u, NEW e, Holds(s, u, e, m)
      PROVE  Holds(s, u, e, m)'
  BY <1>2, <1>3 DEF Holds
<1>4. Holds(r, t, d, n)'
  BY <1>1, <1>2 DEF Holds
<1>5. ASSUME NEW m \in 1..(n - 1)
      PROVE  \E s \in Requests : Holds(s, t, d, m)
  <2>1. n - 1 \in Nat \ {0}
    BY <1>5
  <2>2. PICK s \in Requests : Holds(s, t, d, n - 1)
    BY <1>1, <2>1 DEF Gapless
  <2>3. n - 1 \in drawn[s] /\ cred[s] = t /\ day[s] = d
    BY <2>2 DEF Holds
  <2> QED BY <2>3, <1>5 DEF Gapless
<1>6. ASSUME NEW q \in Requests, NEW k \in drawn'[q], NEW m \in 1..k
      PROVE  \E s \in Requests : Holds(s, cred[q], day[q], m)'
  <2>1. CASE k \in drawn[q]
    <3>1. PICK s \in Requests : Holds(s, cred[q], day[q], m)
      BY <2>1, <1>6 DEF Gapless
    <3> QED BY <3>1, <1>3
  <2>2. CASE k \notin drawn[q]
    <3>1. q = r /\ k = n /\ cred[q] = t /\ day[q] = d
      BY <1>1, <1>2, <1>6, <2>2
    <3>2. CASE m = n
      BY <1>4, <3>1, <3>2 DEF Holds
    <3>3. CASE m # n
      <4>1. m \in 1..(n - 1)
        BY <1>1, <1>6, <3>1, <3>3
      <4>2. PICK s \in Requests : Holds(s, t, d, m)
        BY <4>1, <1>5
      <4> QED BY <4>2, <3>1, <1>3
    <3> QED BY <3>2, <3>3
  <2> QED BY <2>1, <2>2
<1>7. ASSUME NEW u \in Tokens, NEW e \in Days, NEW m \in Nat \ {0}, count'[u][e] = m
      PROVE  \E s \in Requests : Holds(s, u, e, m)'
  <2>1. CASE u = t /\ e = d
    <3>1. m = n
      BY <1>1, <1>7, <2>1 DEF Shape, TypeOK
    <3> QED BY <1>4, <2>1, <3>1
  <2>2. CASE ~(u = t /\ e = d)
    <3>1. count[u][e] = m
      BY <1>1, <1>7, <2>2 DEF Shape, TypeOK
    <3>2. PICK s \in Requests : Holds(s, u, e, m)
      BY <3>1 DEF Gapless
    <3> QED BY <3>2, <1>3
  <2> QED BY <2>1, <2>2
<1> QED
  BY <1>6, <1>7 DEF Gapless, Holds

LEMMA GaplessCorrect == Spec => []Gapless
<1>1. Init => Gapless
  <2> SUFFICES ASSUME Init PROVE Gapless
    OBVIOUS
  <2>1. drawn = [r \in Requests |-> {}] /\ count = [t \in Tokens |-> [d \in Days |-> 0]]
    BY DEF Init
  <2> QED BY <2>1 DEF Gapless
<1>2. Shape /\ Gapless /\ [Next]_vars => Gapless'
  <2> SUFFICES ASSUME Shape, Gapless, [Next]_vars
               PROVE  Gapless'
    OBVIOUS
  <2> USE DEF admin, quota, request
  <2>0. TypeOK /\ TicketWhenDrawn
    BY DEF Shape
  <2>a. ASSUME UNCHANGED <<count, cred, day, drawn>>
        PROVE  Gapless'
    BY <2>a, GaplessUndrawn
  <2>1. ASSUME NEW t \in Tokens, Operate(t)
        PROVE  Gapless'
    BY <2>1, <2>a DEF Operate, MintRecord, MintIndex, MintAnswerLost, MintFails, RevokeIndex, RevokeLoad,
                      RevokeWrite, RevokeAnswerLost, RevokeFails
  <2>2. ASSUME NEW r \in Requests, BypassAuth(r)
        PROVE  Gapless'
    BY <2>2, <2>a DEF BypassAuth
  <2>3. ASSUME NEW r \in Requests, Serve(r)
        PROVE  Gapless'
    <3>1. CASE Incr(r) \/ IncrAnswerLost(r)
      BY <3>1, GaplessDrawn DEF Incr, IncrAnswerLost
    <3>2. CASE StampDay(r)
      BY <2>0, <3>2, GaplessUndrawn DEF StampDay, TicketWhenDrawn, TypeOK
    <3>3. CASE ~(Incr(r) \/ IncrAnswerLost(r)) /\ ~StampDay(r)
      BY <2>3, <3>3, <2>a DEF Serve, Progress, Fail, Lookup, Expire, GetIndex, GetRecord,
           StoreFails, ExpireAnswerLost, SetTTL
    <3> QED BY <3>1, <3>2, <3>3
  <2>4. ASSUME NEW r \in Requests, NEW c \in Tokens \cup {Stranger, NoBearer}, Arrive(r, c)
        PROVE  Gapless'
    BY <2>0, <2>4, GaplessUndrawn DEF Arrive, TicketWhenDrawn, TypeOK
  <2>5. CASE Tick
    BY <2>0, <2>5, GaplessUndrawn DEF Tick, TypeOK
  <2>6. CASE UNCHANGED vars
    BY <2>6, <2>a DEF vars
  <2>7. QED
    BY <2>1, <2>2, <2>3, <2>4, <2>5, <2>6 DEF Next
<1>3. QED
  BY <1>1, <1>2, ShapeCorrect, PTL DEF Spec

(* The index of an issued token is there for good, so a request is refused at
   the quota for its ticket alone.                                          *)
Overdrawn ==
  /\ \A t \in Tokens : mint[t] = "issued" => index[t]
  /\ \A r \in Requests : pc[r] = "exhausted" => ticket[r] > Limit[cred[r]]

LEMMA OverdrawnCorrect == Spec => []Overdrawn
<1>1. Init => Overdrawn
  BY DEF Init, Overdrawn
<1>2. Shape /\ RevocationFinal /\ Overdrawn /\ [Next]_vars => Overdrawn'
  <2> SUFFICES ASSUME Shape, RevocationFinal, Overdrawn, [Next]_vars
               PROVE  Overdrawn'
    OBVIOUS
  <2> USE DEF Overdrawn, Shape, TypeOK, Credentialed, TicketWhenDrawn, Spent, admin, quota, request
  <2>1. ASSUME NEW t \in Tokens, Operate(t)
        PROVE  Overdrawn'
    <3>1. UNCHANGED <<pc, cred, ticket>>
      BY <2>1 DEF Operate, MintRecord, MintIndex, MintAnswerLost, MintFails, RevokeIndex, RevokeLoad,
                  RevokeWrite, RevokeAnswerLost, RevokeFails
    <3>2. \A u \in Tokens : mint'[u] = "issued" => index'[u]
      <4>1. CASE MintIndex(t)
        BY <4>1 DEF MintIndex
      <4>2. CASE MintRecord(t) \/ MintFails(t)
        BY <4>2 DEF MintRecord, MintFails
      <4>a. CASE MintAnswerLost(t)
        <5>1. mint' = mint /\ (index' = index \/ index' = [index EXCEPT ![t] = TRUE])
          BY <4>a DEF MintAnswerLost
        <5> QED BY <5>1
      <4>3. CASE ~MintIndex(t) /\ ~MintRecord(t) /\ ~MintAnswerLost(t) /\ ~MintFails(t)
        BY <2>1, <4>3 DEF Operate, RevokeIndex, RevokeLoad, RevokeWrite, RevokeAnswerLost, RevokeFails
      <4> QED BY <4>1, <4>2, <4>a, <4>3
    <3> QED BY <3>1, <3>2
  <2>2. ASSUME NEW r \in Requests, BypassAuth(r)
        PROVE  Overdrawn'
    BY <2>2 DEF BypassAuth
  <2>3. ASSUME NEW r \in Requests, Serve(r)
        PROVE  Overdrawn'
    <3>1. CASE GetIndex(r)
      BY <3>1 DEF GetIndex
    <3>2. CASE GetRecord(r)
      <4>1. cred[r] \in Tokens /\ record[cred[r]] # "absent"
        BY <3>2 DEF GetRecord, RevocationFinal
      <4>2. ticket[r] \in Nat /\ Limit[cred[r]] \in Nat
        <5>1. Limit \in [Tokens -> Nat]
          OBVIOUS
        <5> QED BY <4>1, <5>1
      <4>3. pc'[r] = "exhausted" => ticket[r] > Limit[cred[r]]
        BY <3>2, <4>1, <4>2 DEF GetRecord, Known, QuotaSpent
      <4> QED BY <3>2, <4>3 DEF GetRecord
    <3>3. CASE ~GetIndex(r) /\ ~GetRecord(r)
      <4>1. /\ UNCHANGED <<mint, index, cred>>
            /\ pc[r] # "exhausted" /\ pc'[r] # "exhausted"
            /\ \A s \in Requests : s # r => pc'[s] = pc[s] /\ ticket'[s] = ticket[s]
        BY <2>3, <3>3 DEF Serve, Progress, Fail, Lookup, StampDay, Incr, Bump, Expire, SetTTL,
             StoreFails, IncrAnswerLost, ExpireAnswerLost, Awaiting
      <4> QED BY <4>1
    <3> QED BY <3>1, <3>2, <3>3
  <2>4. ASSUME NEW r \in Requests, NEW c \in Tokens \cup {Stranger, NoBearer}, Arrive(r, c)
        PROVE  Overdrawn'
    BY <2>4 DEF Arrive
  <2>5. CASE Tick
    BY <2>5 DEF Tick
  <2>6. CASE UNCHANGED vars
    BY <2>6 DEF vars
  <2>7. QED
    BY <2>1, <2>2, <2>3, <2>4, <2>5, <2>6 DEF Next
<1>3. QED
  BY <1>1, <1>2, ShapeCorrect, RevocationCorrect, PTL DEF Spec

(* A refused request's ticket is above the limit, so every unit up to the
   limit was drawn, and nobody who was told one of those was refused on it. *)
THEOREM RefusalsAreEarned == Spec => []NoEarlyRefusal
<1>1. Shape /\ Gapless /\ Overdrawn => NoEarlyRefusal
  <2> SUFFICES ASSUME Shape, Gapless, Overdrawn, NEW r \in Requests, pc[r] = "exhausted",
                      NEW n \in 1..Limit[cred[r]]
               PROVE  \E s \in Requests :
                        /\ cred[s] = cred[r] /\ day[s] = day[r] /\ n \in drawn[s]
                        /\ pc[s] = "exhausted" => ticket[s] # n
    BY DEF NoEarlyRefusal
  <2>1. /\ cred[r] \in Tokens /\ ticket[r] \in drawn[r]
        /\ ticket[r] \in Nat /\ ticket[r] > Limit[cred[r]]
    BY DEF Shape, TypeOK, Credentialed, TicketWhenDrawn, Spent, Overdrawn
  <2>2. Limit[cred[r]] \in Nat
    BY <2>1
  <2>3. n \in 1..ticket[r]
    BY <2>1, <2>2
  <2>4. PICK s \in Requests : Holds(s, cred[r], day[r], n)
    BY <2>1, <2>3 DEF Gapless
  <2>5. pc[s] = "exhausted" => ticket[s] # n
    <3>1. pc[s] = "exhausted" => ticket[s] > Limit[cred[r]]
      BY <2>4 DEF Overdrawn, Holds
    <3>2. ~(n > Limit[cred[r]])
      BY <2>2
    <3> QED BY <3>1, <3>2
  <2> QED BY <2>4, <2>5 DEF Holds
<1>2. QED
  BY <1>1, ShapeCorrect, GaplessCorrect, OverdrawnCorrect, PTL

-----------------------------------------------------------------------------
(* Refinement: the abstract gate's state is a function of the store's.      *)

(* The INCRs, reads and failures of a request between its arrival and its
   outcome are invisible at the gate, as are the halves of mint and revoke. *)
LEMMA StepImplementsGate ==
  ASSUME IInv, IInv', [Next]_vars
  PROVE  [Gate!Next]_(Gate!vars)
<1> USE DEF IInv, TypeOK, admin, quota, request, Gate!vars
<1>1. ASSUME NEW t \in Tokens, Operate(t)
      PROVE  [Gate!Next]_(Gate!vars)
  <2>1. Verdict' = Verdict /\ Presented' = Presented /\ Billed' = Billed
        /\ now' = now /\ arrived' = arrived /\ barred' = barred
    BY <1>1 DEF Operate, MintRecord, MintIndex, MintAnswerLost, MintFails, RevokeIndex, RevokeLoad,
                RevokeWrite, RevokeAnswerLost, RevokeFails, Verdict, Presented, Billed
  <2>2. CASE MintIndex(t)
    <3>1. Issued' = Issued \cup {t} /\ Revoked' = Revoked
      BY <2>2 DEF MintIndex, Issued, Revoked
    <3> QED BY <2>1, <3>1 DEF Gate!Next, Gate!Issue
  <2>3. CASE RevokeWrite(t)
    <3>1. Issued' = Issued /\ Revoked' = Revoked \cup {t}
      BY <2>3 DEF RevokeWrite, Issued, Revoked
    <3> QED BY <2>1, <3>1 DEF Gate!Next, Gate!Revoke
  <2>4. CASE ~MintIndex(t) /\ ~RevokeWrite(t)
    <3>1. /\ \/ mint' = mint
             \/ /\ mint[t] # "issued"
                /\ mint' \in {[mint EXCEPT ![t] = m] : m \in {"recorded", "failed"}}
          /\ \/ revoke' = revoke
             \/ /\ revoke[t] # "done"
                /\ revoke' \in {[revoke EXCEPT ![t] = m] : m \in {"idle", "found", "loaded"}}
      BY <1>1, <2>4 DEF Operate, MintRecord, MintAnswerLost, MintFails, RevokeIndex,
                        RevokeLoad, RevokeAnswerLost, RevokeFails
    <3>2. Issued' = Issued
      BY <3>1 DEF Issued
    <3>3. Revoked' = Revoked
      BY <3>1 DEF Revoked
    <3> QED BY <2>1, <3>2, <3>3
  <2> QED BY <2>2, <2>3, <2>4
<1>2. ASSUME NEW r \in Requests, BypassAuth(r)
      PROVE  [Gate!Next]_(Gate!vars)
  <2>1. Verdict[r] = "none" /\ Verdict' = [Verdict EXCEPT ![r] = "open"]
    BY <1>2 DEF BypassAuth, Verdict, InFlight, Awaiting
  <2>2. UNCHANGED <<now, Issued, Revoked, Presented, Billed, arrived, barred>>
    BY <1>2 DEF BypassAuth, Issued, Revoked, Presented, Billed
  <2> QED BY <2>1, <2>2 DEF Gate!Next, Gate!PassOpen
<1>3. ASSUME NEW r \in Requests, NEW c \in Tokens \cup {Stranger, NoBearer}, Arrive(r, c)
      PROVE  [Gate!Next]_(Gate!vars)
  <2> DEFINE p == IF c \in Tokens THEN c ELSE NoBearer
  <2>1. Verdict[r] = "none"
    BY <1>3 DEF Arrive, Verdict
  <2>2. Verdict' \in {[Verdict EXCEPT ![r] = v] : v \in {"pending", "refused"}}
    <3>1. Verdict' = [Verdict EXCEPT ![r] = IF c = NoBearer THEN "refused" ELSE "pending"]
      BY <1>3 DEF Arrive, Verdict, InFlight, Awaiting
    <3> QED BY <3>1
  <2>3. Presented' = [Presented EXCEPT ![r] = p]
    BY <1>3 DEF Arrive, Presented
  <2>4. barred' = IF p \in Revoked THEN barred \cup {r} ELSE barred
    BY <1>3 DEF Arrive, Revoked
  <2>5. UNCHANGED <<now, Issued, Revoked, Billed>> /\ arrived' = [arrived EXCEPT ![r] = now]
    BY <1>3 DEF Arrive, Issued, Revoked, Billed
  <2>6. Gate!Ask(r, p)
    BY <2>1, <2>2, <2>3, <2>4, <2>5 DEF Gate!Ask
  <2>7. p \in Tokens \cup {NoBearer}
    OBVIOUS
  <2> QED BY <2>6, <2>7 DEF Gate!Next
<1>4. ASSUME NEW r \in Requests, Serve(r)
      PROVE  [Gate!Next]_(Gate!vars)
  <2>1. /\ UNCHANGED <<now, mint, revoke, cred, arrived, barred>>
        /\ pc[r] \in InFlight
        /\ pc' \in [Requests -> {"idle"} \cup InFlight \cup Outcomes]
        /\ \A s \in Requests : s # r => pc'[s] = pc[s] /\ day'[s] = day[s]
        /\ pc'[r] \in InFlight \cup {"unauthorized", "exhausted", "failed", "admitted"}
        /\ pc'[r] = "admitted" => /\ day'[r] = day[r] /\ pc[r] = "record"
                                  /\ ~QuotaSpent(cred[r], ticket[r])
    BY <1>4 DEF Serve, Progress, Fail, Lookup, StampDay, Incr, Bump, Expire, SetTTL, GetIndex, GetRecord,
                StoreFails, IncrAnswerLost, ExpireAnswerLost, InFlight, Awaiting, Outcomes
  <2>2. UNCHANGED <<now, Issued, Revoked, Presented, arrived, barred>> /\ Verdict[r] = "pending"
    BY <2>1 DEF Issued, Revoked, Presented, Verdict, InFlight, Awaiting
  <2>3. CASE pc'[r] \in InFlight
    <3>1. Verdict' = Verdict
      BY <2>1, <2>3 DEF Verdict, InFlight, Awaiting
    <3>2. Billed' = Billed
      BY <2>1, <2>3 DEF Billed, InFlight, Awaiting
    <3> QED BY <2>2, <3>1, <3>2
  <2>4. CASE pc'[r] \in {"unauthorized", "exhausted", "failed"}
    <3>1. Verdict' = [Verdict EXCEPT ![r] = "refused"]
      BY <2>1, <2>4 DEF Verdict, InFlight, Awaiting
    <3>2. Billed' = Billed
      BY <2>1, <2>4 DEF Billed, InFlight, Awaiting
    <3> QED BY <2>2, <3>1, <3>2 DEF Gate!Next, Gate!Refuse
  <2>5. CASE pc'[r] = "admitted"
    <3> DEFINE t == cred[r]
               d == day[r]
    <3>1. t \in Tokens /\ d \in Days /\ Presented[r] = t /\ pc[r] = "record"
      BY <2>1, <2>5 DEF Credentialed, TicketWhenDrawn, Spent, Presented
    <3>2. t \in Issued /\ r \notin barred
      BY <3>1 DEF Issued, Credentialed, RevocationFinal
    <3>3. d \in Gate!Day(arrived[r])..Gate!Day(now)
      <4>1. /\ arrived[r] <= 2 * day[r] + 1 /\ 2 * day[r] <= now
            /\ arrived[r] \in Nat /\ day[r] \in Nat /\ now \in Nat
        BY <3>1 DEF Timely, Spent, Days
      <4>2. arrived[r] \div 2 <= day[r] /\ day[r] <= now \div 2
        BY <4>1
      <4> QED
        BY <4>1, <4>2 DEF Gate!Day
    <3>4. Cardinality(Gate!AdmittedOn(t, d)) < Limit[t]
      <4>1. Gate!AdmittedOn(t, d) = Admitted(t, d)
        <5>1. ASSUME NEW s \in Requests
              PROVE  /\ Verdict[s] = "admitted" <=> pc[s] = "admitted"
                     /\ pc[s] = "admitted" => Presented[s] = cred[s] /\ Billed[s] = day[s]
          BY <5>1 DEF Verdict, Presented, Billed, InFlight, Awaiting, Credentialed, Spent
        <5> QED
          BY <5>1 DEF Gate!AdmittedOn, Admitted
      <4>2. ticket[r] \in 1..Limit[t]
        BY <2>1, <2>5, <3>1 DEF QuotaSpent, TicketWhenDrawn, Spent
      <4>3. r \notin Admitted(t, d)
        BY <3>1 DEF Admitted
      <4> QED
        BY <3>1, <4>1, <4>2, <4>3, RoomForOne
    <3>5. Verdict' = [Verdict EXCEPT ![r] = "admitted"]
      BY <2>1, <2>5 DEF Verdict, InFlight, Awaiting
    <3>a. Billed' = [Billed EXCEPT ![r] = d]
      BY <2>1, <2>5 DEF Billed
    <3>b. \E e \in Gate!Day(arrived[r])..Gate!Day(now) :
            /\ Gate!Cardinality(Gate!AdmittedOn(Presented[r], e)) < Limit[Presented[r]]
            /\ Billed' = [Billed EXCEPT ![r] = e]
      <4>1. Gate!Cardinality(Gate!AdmittedOn(t, d)) = Cardinality(Gate!AdmittedOn(t, d))
        BY DEF Gate!Cardinality, Cardinality
      <4>2. Gate!Cardinality(Gate!AdmittedOn(Presented[r], d)) < Limit[Presented[r]]
        BY <3>1, <3>4, <4>1
      <4> QED BY <3>3, <3>a, <4>2
    <3>6. Gate!Admit(r)
      BY <2>2, <3>1, <3>2, <3>b, <3>5 DEF Gate!Admit
    <3> QED BY <3>6 DEF Gate!Next
  <2> QED BY <2>1, <2>3, <2>4, <2>5
<1>5. CASE Tick
  <2>1. UNCHANGED <<Issued, Revoked, Verdict, Presented, Billed, arrived, barred>>
    BY <1>5 DEF Tick, Issued, Revoked, Verdict, Presented, Billed
  <2> QED BY <1>5, <2>1 DEF Tick, Gate!Next, Gate!Tick
<1>6. CASE UNCHANGED vars
  BY <1>6 DEF vars, Issued, Revoked, Verdict, Presented, Billed
<1> QED
  BY <1>1, <1>2, <1>3, <1>4, <1>5, <1>6 DEF Next

(* Every behaviour of the middleware, the store and the operator's commands
   is one the abstract gate allows.                                         *)
THEOREM StoreImplementsGate == Spec => ImplementsGate
<1>1. Init => Gate!Init
  BY DEF Init, Gate!Init, Verdict, Presented, Billed, Issued, Revoked, NoDay, Gate!NoDay
<1>2. IInv /\ IInv' /\ [Next]_vars => [Gate!Next]_(Gate!vars)
  BY StepImplementsGate
<1> QED
  BY <1>1, <1>2, InductiveInvariant, PTL DEF Spec, ImplementsGate, Gate!Spec
=============================================================================
