------------------------ MODULE MemoryTokenStoreProofs ------------------------
(***************************************************************************)
(* Proofs about MemoryTokenStore for every set of requests and tokens,     *)
(* every limit and every length of run: the inductive invariant, and that  *)
(* the store implements QuotaGate although a restart forgets everything.   *)
(***************************************************************************)
EXTENDS MemoryTokenStore, FunctionTheorems, FiniteSetTheorems, TLAPS

USE MemoryAssumption

(* Every half day of the run belongs to a day that has a counter.           *)
LEMMA DayInRange ==
  ASSUME NEW n \in 0..MaxSlot
  PROVE  Day(n) \in Days
  BY DEF Day, Days

(* A served request takes the next remainder: it is below every remainder told
   on the same token and day, and the counter moves past it.                *)
LEMMA AdmitPreserves ==
  ASSUME IInv, NEW r \in Requests, Admit(r)
  PROVE  IInv'
<1> USE DEF IInv, TypeOK, store, request, history
<1> DEFINE t == cred[r]
           d == Day(now)
           left == Limit[t] - (counters[t][d] + 1)
<1>1. /\ t \in Tokens /\ d \in Days /\ byHash[t] = "live"
      /\ pc[r] = "arrived" /\ counters[t][d] \in Nat /\ left \in Nat
  BY DayInRange DEF Admit, Usable, Spent
<1>2. /\ pc' = [pc EXCEPT ![r] = "admitted"]
      /\ day' = [day EXCEPT ![r] = d]
      /\ counters' = [counters EXCEPT ![t][d] = @ + 1]
      /\ remaining' = [remaining EXCEPT ![r] = left]
      /\ UNCHANGED <<now, byHash, cred, arrived, minted, revoked, barred>>
  BY DEF Admit, Remainder
<1>3. TypeOK'
  BY <1>1, <1>2 DEF Outcomes
<1>4. TokensFinal'
  BY <1>1, <1>2 DEF TokensFinal
<1>5. /\ counters'[t][d] = counters[t][d] + 1
      /\ \A u \in Tokens, e \in Days : <<u, e>> # <<t, d>> => counters'[u][e] = counters[u][e]
  BY <1>1, <1>2
<1>6. RemaindersPassed'
  <2> SUFFICES ASSUME NEW s \in Requests, pc'[s] = "admitted"
               PROVE  /\ cred'[s] \in Tokens /\ day'[s] \in Days
                      /\ remaining'[s] < Limit[cred'[s]]
                      /\ byHash'[cred'[s]] # "absent" =>
                           Limit[cred'[s]] - counters'[cred'[s]][day'[s]] <= remaining'[s]
    BY DEF RemaindersPassed
  <2>1. CASE s = r
    BY <1>1, <1>2, <1>5, <2>1
  <2>2. CASE s # r
    <3>1. /\ pc[s] = "admitted" /\ day'[s] = day[s] /\ remaining'[s] = remaining[s]
      BY <1>2, <2>2
    <3>2. /\ cred[s] \in Tokens /\ day[s] \in Days
          /\ remaining[s] < Limit[cred[s]]
          /\ byHash[cred[s]] # "absent" =>
               Limit[cred[s]] - counters[cred[s]][day[s]] <= remaining[s]
      BY <3>1 DEF RemaindersPassed
    <3>3. counters'[cred[s]][day[s]] \in Nat
          /\ counters[cred[s]][day[s]] <= counters'[cred[s]][day[s]]
      BY <1>1, <1>5, <3>2
    <3> QED
      BY <1>2, <3>1, <3>2, <3>3
  <2> QED BY <2>1, <2>2
<1>7. RemaindersDistinct'
  <2>1. ASSUME NEW s \in Requests, s # r, pc[s] = "admitted", cred[s] = t, day[s] = d
        PROVE  remaining[s] # left
    BY <1>1, <2>1 DEF RemaindersPassed
  <2>2. \A s \in Requests : s # r =>
          pc'[s] = pc[s] /\ day'[s] = day[s] /\ remaining'[s] = remaining[s]
    BY <1>2
  <2>3. day'[r] = d /\ remaining'[r] = left /\ cred' = cred
    BY <1>2
  <2> QED
    BY <2>1, <2>2, <2>3 DEF RemaindersDistinct
<1> QED
  BY <1>2, <1>3, <1>4, <1>6, <1>7 DEF ArrivedBefore

(* The inductive invariant holds in every reachable state.                  *)
THEOREM InductiveInvariant == Spec => []IInv
<1>1. Init => IInv
  BY DayInRange DEF Init, IInv, TypeOK, ArrivedBefore, TokensFinal, RemaindersPassed, RemaindersDistinct
<1>2. IInv /\ [Next]_vars => IInv'
  <2> SUFFICES ASSUME IInv, [Next]_vars PROVE IInv'
    OBVIOUS
  <2> USE DEF IInv, TypeOK, store, request, history
  <2>1. ASSUME NEW t \in Tokens, Mint(t) PROVE IInv'
    BY <2>1 DEF Mint, ArrivedBefore, TokensFinal, RemaindersPassed, RemaindersDistinct
  <2>2. ASSUME NEW t \in Tokens, Revoke(t) PROVE IInv'
    BY <2>2 DEF Revoke, ArrivedBefore, TokensFinal, RemaindersPassed, RemaindersDistinct
  <2>3. ASSUME NEW r \in Requests, BypassAuth(r) PROVE IInv'
    BY <2>3 DEF BypassAuth, Outcomes, ArrivedBefore, TokensFinal, RemaindersPassed, RemaindersDistinct
  <2>4. ASSUME NEW r \in Requests, NEW c \in Tokens \cup {Stranger, NoBearer}, Arrive(r, c)
        PROVE  IInv'
    BY <2>4 DEF Arrive, ArrivedBefore, TokensFinal, RemaindersPassed, RemaindersDistinct
  <2>5. ASSUME NEW r \in Requests, Unauthorized(r) PROVE IInv'
    BY <2>5 DEF Unauthorized, Outcomes, ArrivedBefore, TokensFinal, RemaindersPassed, RemaindersDistinct
  <2>6. ASSUME NEW r \in Requests, Exhausted(r) PROVE IInv'
    BY <2>6, DayInRange
       DEF Exhausted, Outcomes, ArrivedBefore, TokensFinal, RemaindersPassed, RemaindersDistinct
  <2>7. ASSUME NEW r \in Requests, Admit(r) PROVE IInv'
    BY <2>7, AdmitPreserves
  <2>8. CASE Restart
    BY <2>8 DEF Restart, Outcomes, ArrivedBefore, TokensFinal, RemaindersPassed, RemaindersDistinct
  <2>9. CASE Tick
    BY <2>9 DEF Tick, ArrivedBefore, TokensFinal, RemaindersPassed, RemaindersDistinct
  <2>10. CASE UNCHANGED vars
    BY <2>10 DEF vars, ArrivedBefore, TokensFinal, RemaindersPassed, RemaindersDistinct
  <2> QED
    BY <2>1, <2>2, <2>3, <2>4, <2>5, <2>6, <2>7, <2>8, <2>9, <2>10 DEF Next, Authenticate
<1> QED
  BY <1>1, <1>2, PTL DEF Spec

-----------------------------------------------------------------------------
(* The meter, with what its exactness needs of a token not in the store.     *)
Metered ==
  /\ MeterExact
  /\ \A t \in Tokens, d \in Days : byHash[t] = "absent" => counters[t][d] = 0

(* What the served requests were charged to.                                *)
Charges ==
  [r \in Requests |-> IF pc[r] = "admitted" THEN <<cred[r], day[r]>> ELSE <<>>]

(* The remainders told on a token in the store lie between the limit and what
   its counter leaves, so no more requests were served than it counts.      *)
LEMMA ServedWithinCounter ==
  ASSUME IInv, NEW t \in Tokens, NEW d \in Days, byHash[t] # "absent"
  PROVE  IsFiniteSet(Admitted(t, d)) /\ Cardinality(Admitted(t, d)) <= counters[t][d]
<1> DEFINE A == Admitted(t, d)
           left == Limit[t] - counters[t][d]
           f == [r \in A |-> remaining[r]]
<1>1. counters[t][d] \in Nat /\ Limit[t] \in Nat /\ left \in Int
  BY DEF IInv, TypeOK
<1>2. f \in [A -> left..(Limit[t] - 1)]
  BY <1>1 DEF IInv, TypeOK, RemaindersPassed, Admitted
<1>3. \A r, s \in A : f[r] = f[s] => r = s
  BY DEF IInv, RemaindersDistinct, Admitted
<1>4. f \in Injection(A, left..(Limit[t] - 1))
  BY <1>2, <1>3, Fun_IsInj
<1>5. /\ IsFiniteSet(left..(Limit[t] - 1))
      /\ Cardinality(left..(Limit[t] - 1)) = counters[t][d]
  <2> DEFINE top == Limit[t] - 1
  <2>1. top \in Int
    BY <1>1
  <2>2. top - left + 1 = counters[t][d] /\ (left > top => counters[t][d] = 0)
    BY <1>1
  <2> HIDE DEF left, top
  <2>3. /\ IsFiniteSet(left..top)
        /\ Cardinality(left..top) = IF left > top THEN 0 ELSE top - left + 1
    BY <1>1, <2>1, FS_Interval
  <2>4. IsFiniteSet(left..top) /\ Cardinality(left..top) = counters[t][d]
    BY <1>1, <2>1, <2>2, <2>3
  <2> QED
    BY <2>4 DEF top
<1> QED
  BY <1>4, <1>5, FS_Injection

(* A step that leaves the store and the charged requests alone, whatever it
   does to the others, leaves the meter exact.                              *)
LEMMA MeterUntouched ==
  ASSUME Metered, UNCHANGED <<counters, Charges>>,
         \A t \in Tokens : byHash'[t] = "absent" <=> byHash[t] = "absent"
  PROVE  Metered'
<1>1. ASSUME NEW t \in Tokens, NEW d \in Days
      PROVE  Admitted(t, d)' = Admitted(t, d)
  BY <1>1 DEF Admitted, Charges
<1> QED
  BY <1>1 DEF Metered, MeterExact

(* Serving a request adds one to its meter and one to what it measures.      *)
LEMMA AdmitMetered ==
  ASSUME IInv, Metered, NEW r \in Requests, Admit(r),
         NEW t \in Tokens, NEW d \in Days, t = cred[r], d = Day(now)
  PROVE  Metered'
<1> USE DEF IInv, TypeOK, store, request, history
<1>1. byHash[t] = "live" /\ pc[r] = "arrived" /\ counters[t][d] \in Nat
  BY DEF Admit, Usable
<1>2. Admitted(t, d)' = Admitted(t, d) \cup {r} /\ r \notin Admitted(t, d)
  BY <1>1 DEF Admit, Admitted
<1>3. ASSUME NEW u \in Tokens, NEW e \in Days, <<u, e>> # <<t, d>>
      PROVE  Admitted(u, e)' = Admitted(u, e)
  BY <1>1, <1>3 DEF Admit, Admitted
<1>4. Cardinality(Admitted(t, d)') = counters[t][d] + 1
  <2>1. IsFiniteSet(Admitted(t, d))
    BY <1>1, ServedWithinCounter
  <2>2. Cardinality(Admitted(t, d)) = counters[t][d]
    BY <1>1 DEF Metered, MeterExact
  <2>3. Cardinality(Admitted(t, d) \cup {r}) = Cardinality(Admitted(t, d)) + 1
    BY <1>2, <2>1, FS_AddElement
  <2> QED
    BY <1>2, <2>2, <2>3
<1>5. /\ counters'[t][d] = counters[t][d] + 1 /\ byHash' = byHash
      /\ \A u \in Tokens, e \in Days :
           <<u, e>> # <<t, d>> => counters'[u][e] = counters[u][e]
  BY <1>1 DEF Admit
<1>6. ASSUME NEW u \in Tokens, NEW e \in Days, byHash'[u] # "absent"
      PROVE  counters'[u][e] = Cardinality(Admitted(u, e)')
  <2>1. CASE <<u, e>> = <<t, d>>
    BY <1>4, <1>5, <2>1
  <2>2. CASE <<u, e>> # <<t, d>>
    <3>1. counters[u][e] = Cardinality(Admitted(u, e))
      BY <1>5, <1>6 DEF Metered, MeterExact
    <3> QED
      BY <1>3, <1>5, <2>2, <3>1
  <2> QED BY <2>1, <2>2
<1>7. \A u \in Tokens, e \in Days : byHash'[u] = "absent" => counters'[u][e] = 0
  BY <1>1, <1>5 DEF Metered
<1> QED
  BY <1>6, <1>7 DEF Metered, MeterExact

(* The meter is exact in every reachable state, restarts included.          *)
LEMMA MeterCorrect == Spec => []Metered
<1>1. Init => Metered
  BY DEF Init, Metered, MeterExact
<1>2. IInv /\ IInv' /\ Metered /\ [Next]_vars => Metered'
  <2> SUFFICES ASSUME IInv, IInv', Metered, [Next]_vars PROVE Metered'
    OBVIOUS
  <2> USE DEF IInv, TypeOK, store, request, history
  <2>1. ASSUME NEW t \in Tokens, Mint(t) PROVE Metered'
    <3>1. ASSUME NEW u \in Tokens, NEW d \in Days
          PROVE  Admitted(u, d)' = Admitted(u, d)
      BY <2>1, <3>1 DEF Mint, Admitted
    <3>2. \A d \in Days : Admitted(t, d) = {}
      BY <2>1 DEF Mint, Admitted, TokensFinal
    <3>3. \A d \in Days : counters[t][d] = 0 /\ Cardinality(Admitted(t, d)) = 0
      <4>1. byHash[t] = "absent"
        BY <2>1 DEF Mint, TokensFinal
      <4> QED
        BY <3>2, <4>1, FS_EmptySet DEF Metered
    <3>4. /\ counters' = counters
          /\ \A u \in Tokens : byHash'[u] = "absent" => byHash[u] = "absent"
          /\ \A u \in Tokens \ {t} : byHash'[u] = byHash[u]
      BY <2>1 DEF Mint
    <3>5. MeterExact'
      BY <3>1, <3>3, <3>4 DEF Metered, MeterExact
    <3> QED
      BY <3>4, <3>5 DEF Metered
  <2>2. ASSUME NEW r \in Requests, Admit(r) PROVE Metered'
    <3>1. cred[r] \in Tokens /\ Day(now) \in Days
      BY <2>2, DayInRange DEF Admit, Usable
    <3> QED
      BY <2>2, <3>1, AdmitMetered
  <2>3. CASE Restart
    BY <2>3 DEF Restart, Metered, MeterExact
  <2>4. ASSUME UNCHANGED counters,
               \A t \in Tokens : byHash'[t] = "absent" <=> byHash[t] = "absent",
               Charges' = Charges
        PROVE  Metered'
    BY <2>4, MeterUntouched
  <2>5. ASSUME NEW t \in Tokens, Revoke(t) PROVE Metered'
    <3>1. Charges' = Charges
      BY <2>5 DEF Revoke, Charges
    <3> QED BY <2>4, <2>5, <3>1 DEF Revoke
  <2>6. ASSUME NEW r \in Requests, BypassAuth(r) \/ Unauthorized(r) \/ Exhausted(r)
        PROVE  Metered'
    <3>1. Charges' = Charges
      BY <2>6 DEF BypassAuth, Unauthorized, Exhausted, Charges
    <3> QED BY <2>4, <2>6, <3>1 DEF BypassAuth, Unauthorized, Exhausted
  <2>7. ASSUME NEW r \in Requests, NEW c \in Tokens \cup {Stranger, NoBearer}, Arrive(r, c)
        PROVE  Metered'
    <3>1. Charges' = Charges
      BY <2>7 DEF Arrive, Charges
    <3> QED BY <2>4, <2>7, <3>1 DEF Arrive
  <2>8. CASE Tick \/ UNCHANGED vars
    <3>1. Charges' = Charges
      BY <2>8 DEF Tick, vars, Charges
    <3> QED BY <2>4, <2>8, <3>1 DEF Tick, vars
  <2> QED
    BY <2>1, <2>2, <2>3, <2>5, <2>6, <2>7, <2>8 DEF Next, Authenticate
<1> QED
  BY <1>1, <1>2, InductiveInvariant, PTL DEF Spec

(* A counter of a token in the store is the number of requests served on it,
   for any number of requests: a refusal costs nothing, and nothing that was
   served goes uncounted.                                                   *)
THEOREM MeterIsExact == Spec => []MeterExact
<1>1. Metered => MeterExact
  BY DEF Metered
<1> QED
  BY <1>1, MeterCorrect, PTL

-----------------------------------------------------------------------------
(* Only serving a request charges one or tells a remainder.                 *)
LEMMA OnlyAdmitCharges ==
  ASSUME IInv, [Next]_vars, \A r \in Requests : ~Admit(r)
  PROVE  Charges' = Charges /\ remaining' = remaining
<1> USE DEF IInv, TypeOK, store, request, history, Charges
<1>1. ASSUME NEW t \in Tokens, Mint(t) \/ Revoke(t) PROVE Charges' = Charges /\ remaining' = remaining
  BY <1>1 DEF Mint, Revoke
<1>2. ASSUME NEW r \in Requests, BypassAuth(r) \/ Unauthorized(r) \/ Exhausted(r)
      PROVE  Charges' = Charges /\ remaining' = remaining
  BY <1>2 DEF BypassAuth, Unauthorized, Exhausted
<1>3. ASSUME NEW r \in Requests, NEW c \in Tokens \cup {Stranger, NoBearer}, Arrive(r, c)
      PROVE  Charges' = Charges /\ remaining' = remaining
  BY <1>3 DEF Arrive
<1>4. CASE Restart
  BY <1>4 DEF Restart
<1>5. CASE Tick \/ UNCHANGED vars
  BY <1>5 DEF Tick, vars
<1> QED
  BY <1>1, <1>2, <1>3, <1>4, <1>5 DEF Next, Authenticate

(* What a set of served requests is follows from what they were charged to. *)
LEMMA SameCharges ==
  ASSUME Charges' = Charges, NEW t \in Tokens, NEW d \in Days
  PROVE  Admitted(t, d)' = Admitted(t, d)
BY DEF Admitted, Charges

(* Serving r adds it to those served on its token and day, and one to their
   number, which is below the limit before.                                 *)
LEMMA AdmitAddsOne ==
  ASSUME IInv, Metered, NEW r \in Requests, Admit(r),
         NEW t \in Tokens, NEW d \in Days, t = cred[r], d = Day(now)
  PROVE  /\ Admitted(t, d)' = Admitted(t, d) \cup {r} /\ r \notin Admitted(t, d)
         /\ Cardinality(Admitted(t, d)) = counters[t][d]
         /\ Cardinality(Admitted(t, d)') = counters[t][d] + 1
         /\ counters[t][d] \in Nat /\ counters[t][d] < Limit[t]
         /\ \A u \in Tokens, e \in Days : <<u, e>> # <<t, d>> =>
              Admitted(u, e)' = Admitted(u, e) /\ r \notin Admitted(u, e)
<1> USE DEF IInv, TypeOK, store, request, history
<1>1. byHash[t] = "live" /\ pc[r] = "arrived" /\ counters[t][d] \in Nat /\ counters[t][d] < Limit[t]
  BY DEF Admit, Usable, Spent
<1>2. Admitted(t, d)' = Admitted(t, d) \cup {r} /\ r \notin Admitted(t, d)
  BY <1>1 DEF Admit, Admitted
<1>3. \A u \in Tokens, e \in Days : <<u, e>> # <<t, d>> =>
        Admitted(u, e)' = Admitted(u, e) /\ r \notin Admitted(u, e)
  BY <1>1 DEF Admit, Admitted
<1>4. IsFiniteSet(Admitted(t, d)) /\ Cardinality(Admitted(t, d)) = counters[t][d]
  BY <1>1, ServedWithinCounter DEF Metered, MeterExact
<1>5. Cardinality(Admitted(t, d) \cup {r}) = Cardinality(Admitted(t, d)) + 1
  BY <1>2, <1>4, FS_AddElement
<1> QED
  BY <1>1, <1>2, <1>3, <1>4, <1>5

(* A refusal follows as many served requests as the limit allows, and no more
   are served on that token and day after it.                               *)
Earned ==
  /\ \A t \in Tokens, d \in Days : counters[t][d] <= Limit[t]
  /\ \A r \in Requests, t \in Tokens, d \in Days :
       pc[r] = "exhausted" /\ cred[r] = t /\ day[r] = d =>
         Cardinality(Admitted(t, d)) = Limit[t]
  /\ \A r \in Requests : pc[r] = "exhausted" => cred[r] \in Tokens /\ day[r] \in Days

(* No 429 is sent before the limit is used up, in any run.                  *)
THEOREM RefusalsAreEarned == Spec => []RefusalEarned
<1>1. Init => Earned
  BY DEF Init, Earned
<1>2. IInv /\ Metered /\ Earned /\ [Next]_vars => Earned'
  <2> SUFFICES ASSUME IInv, Metered, Earned, [Next]_vars PROVE Earned'
    OBVIOUS
  <2> USE DEF IInv, TypeOK, store, request, history
  <2>1. ASSUME NEW r \in Requests, Admit(r) PROVE Earned'
    <3>1. PICK t \in Tokens, d \in Days : t = cred[r] /\ d = Day(now)
      BY <2>1, DayInRange DEF Admit, Usable
    <3>2. /\ Cardinality(Admitted(t, d)) = counters[t][d]
          /\ counters[t][d] \in Nat /\ counters[t][d] < Limit[t]
          /\ \A u \in Tokens, e \in Days : <<u, e>> # <<t, d>> =>
               Admitted(u, e)' = Admitted(u, e)
      BY <2>1, <3>1, AdmitAddsOne
    <3>3. \A u \in Tokens, e \in Days : counters'[u][e] <= Limit[u]
      BY <2>1, <3>1, <3>2 DEF Admit, Earned
    <3>4. \A s \in Requests : pc'[s] = "exhausted" =>
            pc[s] = "exhausted" /\ cred'[s] = cred[s] /\ day'[s] = day[s]
      BY <2>1 DEF Admit
    <3>5. \A s \in Requests : pc[s] = "exhausted" => <<cred[s], day[s]>> # <<t, d>>
      BY <3>2 DEF Earned
    <3> QED BY <3>2, <3>3, <3>4, <3>5 DEF Earned
  <2>2. ASSUME NEW r \in Requests, Exhausted(r) PROVE Earned'
    <3>1. PICK t \in Tokens, d \in Days : t = cred[r] /\ d = Day(now)
      BY <2>2, DayInRange DEF Exhausted, Usable
    <3>2. Charges' = Charges /\ UNCHANGED <<counters, cred>>
      BY <2>2 DEF Exhausted, Charges
    <3>3. \A u \in Tokens, e \in Days : Admitted(u, e)' = Admitted(u, e)
      BY <3>2, SameCharges
    <3>4. Cardinality(Admitted(t, d)) = Limit[t]
      <4>1. counters[t][d] >= Limit[t] /\ counters[t][d] <= Limit[t] /\ byHash[t] # "absent"
        BY <2>2, <3>1 DEF Exhausted, Usable, Spent, Earned
      <4>2. Cardinality(Admitted(t, d)) = counters[t][d]
        BY <4>1 DEF Metered, MeterExact
      <4>3. counters[t][d] \in Nat /\ Limit[t] \in Nat
        OBVIOUS
      <4>4. \A m, n \in Nat : m >= n /\ m <= n => m = n
        OBVIOUS
      <4>5. counters[t][d] = Limit[t]
        BY <4>1, <4>3, <4>4
      <4> QED BY <4>2, <4>5
    <3>5. /\ pc' = [pc EXCEPT ![r] = "exhausted"] /\ day' = [day EXCEPT ![r] = d]
      BY <2>2, <3>1 DEF Exhausted
    <3> QED BY <3>1, <3>2, <3>3, <3>4, <3>5 DEF Earned
  <2>3. CASE \A r \in Requests : ~Admit(r) /\ ~Exhausted(r)
    <3>1. \A u \in Tokens, e \in Days : Admitted(u, e)' = Admitted(u, e)
      BY <2>3, OnlyAdmitCharges, SameCharges
    <3>2. ASSUME NEW u \in Tokens, NEW e \in Days PROVE counters'[u][e] \in {0, counters[u][e]}
      BY <2>3 DEF Next, Mint, Revoke, BypassAuth, Authenticate, Unauthorized, Arrive, Restart, Tick, vars
    <3>3. ASSUME NEW s \in Requests, pc'[s] = "exhausted"
          PROVE  pc[s] = "exhausted" /\ cred'[s] = cred[s] /\ day'[s] = day[s]
      BY <2>3, <3>3 DEF Next, Mint, Revoke, BypassAuth, Authenticate, Unauthorized, Arrive,
                        Restart, Tick, vars
    <3> QED BY <3>1, <3>2, <3>3 DEF Earned
  <2> QED BY <2>1, <2>2, <2>3
<1>3. Earned => RefusalEarned
  BY DEF Earned, RefusalEarned
<1> QED
  BY <1>1, <1>2, <1>3, InductiveInvariant, MeterCorrect, PTL DEF Spec

(* The remainders clients are told on a token and day go down by one from the
   limit, with no gap and no repeat.                                        *)
THEOREM RemaindersCountDown == Spec => []Countdown
<1> DEFINE Told(t, d) == {remaining[r] : r \in Admitted(t, d)}
           NoGap == \A t \in Tokens, d \in Days :
                      Told(t, d) = (Limit[t] - Cardinality(Admitted(t, d)))..(Limit[t] - 1)
<1>1. Init => NoGap
  <2> SUFFICES ASSUME Init, NEW t \in Tokens, NEW d \in Days
               PROVE  Told(t, d) = (Limit[t] - Cardinality(Admitted(t, d)))..(Limit[t] - 1)
    OBVIOUS
  <2>1. Admitted(t, d) = {} /\ Cardinality({}) = 0
    BY FS_EmptySet DEF Init, Admitted
  <2>2. Limit[t] \in Nat
    OBVIOUS
  <2>3. (Limit[t] - 0)..(Limit[t] - 1) = {}
    BY <2>2
  <2> QED BY <2>1, <2>3
<1>2. IInv /\ Metered /\ NoGap /\ [Next]_vars => NoGap'
  <2> SUFFICES ASSUME IInv, Metered, NoGap, [Next]_vars,
                      NEW u \in Tokens, NEW e \in Days
               PROVE  Told(u, e)' = (Limit[u] - Cardinality(Admitted(u, e)'))..(Limit[u] - 1)
    OBVIOUS
  <2>1. ASSUME NEW r \in Requests, Admit(r)
        PROVE  Told(u, e)' = (Limit[u] - Cardinality(Admitted(u, e)'))..(Limit[u] - 1)
    <3>1. PICK t \in Tokens, d \in Days : t = cred[r] /\ d = Day(now)
      BY <2>1, DayInRange DEF Admit, Usable, IInv, TypeOK
    <3> DEFINE n == counters[t][d]
    <3>2. /\ Admitted(t, d)' = Admitted(t, d) \cup {r} /\ r \notin Admitted(t, d)
          /\ Cardinality(Admitted(t, d)) = n /\ Cardinality(Admitted(t, d)') = n + 1
          /\ n \in Nat /\ n < Limit[t] /\ Limit[t] \in Nat
          /\ <<u, e>> # <<t, d>> => Admitted(u, e)' = Admitted(u, e) /\ r \notin Admitted(u, e)
      BY <2>1, <3>1, AdmitAddsOne
    <3>3. remaining'[r] = Limit[t] - (n + 1) /\ \A s \in Requests : s # r => remaining'[s] = remaining[s]
      BY <2>1, <3>1 DEF Admit, Remainder, IInv, TypeOK
    <3>4. CASE <<u, e>> = <<t, d>>
      <4>1. Told(u, e)' = Told(u, e) \cup {Limit[t] - (n + 1)}
        <5>1. \A s \in Admitted(t, d) : s \in Requests /\ s # r
          BY <3>2 DEF Admitted
        <5>2. \A s \in Admitted(t, d) : remaining'[s] = remaining[s]
          BY <3>3, <5>1
        <5>3. {remaining'[s] : s \in Admitted(t, d) \cup {r}} =
                {remaining[s] : s \in Admitted(t, d)} \cup {Limit[t] - (n + 1)}
          BY <3>3, <5>2
        <5> QED BY <3>2, <3>4, <5>3
      <4>2. Told(u, e) = (Limit[t] - n)..(Limit[t] - 1)
        BY <3>2, <3>4
      <4>3. (Limit[t] - (n + 1))..(Limit[t] - 1) =
              ((Limit[t] - n)..(Limit[t] - 1)) \cup {Limit[t] - (n + 1)}
        BY <3>2
      <4> QED BY <3>2, <3>4, <4>1, <4>2, <4>3
    <3>5. CASE <<u, e>> # <<t, d>>
      <4>1. Admitted(u, e)' = Admitted(u, e) /\ \A s \in Admitted(u, e) : s \in Requests /\ s # r
        BY <3>2, <3>5 DEF Admitted
      <4>2. \A s \in Admitted(u, e) : remaining'[s] = remaining[s]
        BY <3>3, <4>1
      <4>3. Told(u, e)' = Told(u, e)
        BY <4>1, <4>2
      <4> QED BY <4>1, <4>3
    <3> QED BY <3>4, <3>5
  <2>2. CASE \A r \in Requests : ~Admit(r)
    <3>1. Admitted(u, e)' = Admitted(u, e) /\ remaining' = remaining
      BY <2>2, OnlyAdmitCharges, SameCharges
    <3> QED BY <3>1
  <2> QED BY <2>1, <2>2
<1>3. IInv /\ NoGap => Countdown
  <2> SUFFICES ASSUME IInv, NoGap PROVE Countdown
    OBVIOUS
  <2>1. \A t \in Tokens, d \in Days : \A r, s \in Admitted(t, d) : remaining[r] = remaining[s] => r = s
    BY DEF IInv, RemaindersDistinct, Admitted
  <2> QED BY <2>1 DEF Countdown
<1> HIDE DEF NoGap
<1> QED
  BY <1>1, <1>2, <1>3, InductiveInvariant, MeterCorrect, PTL DEF Spec

-----------------------------------------------------------------------------
(* Every step of the store is one of the gate's, or nothing the gate sees.   *)
LEMMA StepImplementsGate ==
  ASSUME IInv, [Next]_vars
  PROVE  [Gate!Next]_(Gate!vars)
<1> USE DEF IInv, TypeOK, store, request, history, Gate!vars
<1>1. ASSUME NEW t \in Tokens, Mint(t) \/ Revoke(t)
      PROVE  [Gate!Next]_(Gate!vars)
  <2>1. UNCHANGED <<now, Verdict, Presented, Billed, arrived, barred>>
    BY <1>1 DEF Mint, Revoke, Verdict, Presented, Billed
  <2>2. CASE Mint(t)
    BY <2>1, <2>2 DEF Mint, Gate!Next, Gate!Issue
  <2>3. CASE Revoke(t)
    BY <2>1, <2>3 DEF Revoke, Gate!Next, Gate!Revoke
  <2> QED BY <1>1, <2>2, <2>3
<1>2. ASSUME NEW r \in Requests, BypassAuth(r)
      PROVE  [Gate!Next]_(Gate!vars)
  <2>1. Verdict[r] = "none" /\ Verdict' = [Verdict EXCEPT ![r] = "open"]
    BY <1>2 DEF BypassAuth, Verdict
  <2>2. UNCHANGED <<now, minted, revoked, Presented, Billed, arrived, barred>>
    BY <1>2 DEF BypassAuth, Presented, Billed
  <2> QED BY <2>1, <2>2 DEF Gate!Next, Gate!PassOpen
<1>3. ASSUME NEW r \in Requests, NEW c \in Tokens \cup {Stranger, NoBearer}, Arrive(r, c)
      PROVE  [Gate!Next]_(Gate!vars)
  <2> DEFINE p == IF c \in Tokens THEN c ELSE NoBearer
  <2>1. Verdict[r] = "none" /\ Verdict' = [Verdict EXCEPT ![r] = "pending"]
    BY <1>3 DEF Arrive, Verdict
  <2>2. Verdict' \in {[Verdict EXCEPT ![r] = v] : v \in {"pending", "refused"}}
    BY <2>1
  <2>3. Presented' = [Presented EXCEPT ![r] = p]
    BY <1>3 DEF Arrive, Presented
  <2>4. barred' = IF p \in revoked THEN barred \cup {r} ELSE barred
    BY <1>3 DEF Arrive
  <2>5. UNCHANGED <<now, minted, revoked, Billed>> /\ arrived' = [arrived EXCEPT ![r] = now]
    BY <1>3 DEF Arrive, Billed
  <2>6. Gate!Ask(r, p)
    BY <2>1, <2>2, <2>3, <2>4, <2>5 DEF Gate!Ask
  <2>7. p \in Tokens \cup {NoBearer}
    OBVIOUS
  <2> QED BY <2>6, <2>7 DEF Gate!Next
<1>4. ASSUME NEW r \in Requests, Unauthorized(r) \/ Exhausted(r)
      PROVE  [Gate!Next]_(Gate!vars)
  <2>1. Verdict[r] = "pending" /\ Verdict' = [Verdict EXCEPT ![r] = "refused"]
    BY <1>4 DEF Unauthorized, Exhausted, Verdict
  <2>2. UNCHANGED <<now, minted, revoked, Presented, arrived, barred>>
    BY <1>4 DEF Unauthorized, Exhausted, Presented
  <2>3. Billed' = Billed
    BY <1>4, DayInRange DEF Unauthorized, Exhausted, Billed
  <2> QED BY <2>1, <2>2, <2>3 DEF Gate!Next, Gate!Refuse
<1>5. ASSUME NEW r \in Requests, Admit(r)
      PROVE  [Gate!Next]_(Gate!vars)
  <2> DEFINE t == cred[r]
             d == Day(now)
  <2>1. /\ t \in Tokens /\ d \in Days /\ byHash[t] = "live"
        /\ pc[r] = "arrived" /\ counters[t][d] < Limit[t]
    BY <1>5, DayInRange DEF Admit, Usable, Spent
  <2>2. t \in minted /\ r \notin barred
    BY <2>1 DEF TokensFinal
  <2>3. /\ Verdict[r] = "pending" /\ Verdict' = [Verdict EXCEPT ![r] = "admitted"]
        /\ Presented[r] = t
        /\ UNCHANGED <<now, minted, revoked, Presented, arrived, barred>>
    BY <1>5, <2>1 DEF Admit, Verdict, Presented
  <2>4. Billed' = [Billed EXCEPT ![r] = d]
    BY <1>5 DEF Admit, Billed
  <2>5. Gate!AdmittedOn(t, d) = Admitted(t, d)
    BY <2>1 DEF Gate!AdmittedOn, Admitted, Verdict, Presented, Billed, RemaindersPassed
  <2>6. Cardinality(Admitted(t, d)) < Limit[t]
    <3>1. IsFiniteSet(Admitted(t, d)) /\ Cardinality(Admitted(t, d)) <= counters[t][d]
      BY <2>1, ServedWithinCounter
    <3> QED
      BY <2>1, <3>1, FS_CardinalityType
  <2>7. Gate!Cardinality(Gate!AdmittedOn(Presented[r], d)) < Limit[Presented[r]]
    <3>1. Gate!Cardinality(Gate!AdmittedOn(t, d)) = Cardinality(Gate!AdmittedOn(t, d))
      BY DEF Gate!Cardinality, Cardinality
    <3> QED BY <2>3, <2>5, <2>6, <3>1
  <2>8. d \in Gate!Day(arrived[r])..Gate!Day(now)
    BY <2>1 DEF ArrivedBefore, Day, Gate!Day
  <2>9. Gate!Admit(r)
    BY <2>2, <2>3, <2>4, <2>7, <2>8 DEF Gate!Admit
  <2> QED BY <2>9 DEF Gate!Next
<1>6. CASE Restart
  <2>1. Verdict' = [s \in Requests |-> IF Verdict[s] = "pending" THEN "refused" ELSE Verdict[s]]
    BY <1>6 DEF Restart, Verdict, Outcomes
  <2>2. UNCHANGED <<now, minted, revoked, Presented, Billed, arrived, barred>>
    BY <1>6 DEF Restart, Presented, Billed
  <2> QED BY <2>1, <2>2 DEF Gate!Next, Gate!Abort
<1>7. CASE Tick
  <2>1. UNCHANGED <<minted, revoked, Verdict, Presented, Billed, arrived, barred>>
    BY <1>7 DEF Tick, Verdict, Presented, Billed
  <2> QED BY <1>7, <2>1 DEF Tick, Gate!Next, Gate!Tick
<1>8. CASE UNCHANGED vars
  BY <1>8 DEF vars, Verdict, Presented, Billed
<1> QED
  BY <1>1, <1>2, <1>3, <1>4, <1>5, <1>6, <1>7, <1>8 DEF Next, Authenticate

(* The in-process store keeps the gate's promise, also when the process ends
   and another one starts without its tokens and counters.                  *)
THEOREM StoreImplementsGate == Spec => ImplementsGate
<1>1. Init => Gate!Init
  BY DEF Init, Gate!Init, Verdict, Presented, Billed, NoDay, Gate!NoDay
<1>2. IInv /\ [Next]_vars => [Gate!Next]_(Gate!vars)
  BY StepImplementsGate
<1> QED
  BY <1>1, <1>2, InductiveInvariant, PTL DEF Spec, ImplementsGate, Gate!Spec
=============================================================================
