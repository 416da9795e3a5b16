------------------------ MODULE SchenkerClientProofs ------------------------
(***************************************************************************)
(* Proofs about SchenkerClient for any number of calls, any concurrency    *)
(* and any number of cookies.                                              *)
(***************************************************************************)
EXTENDS SchenkerClient, SequenceLemmas, FiniteSetTheorems

USE ClientAssumption

-----------------------------------------------------------------------------
(* The two queues *)

Once(q) == \A i, j \in DOMAIN q : q[i] = q[j] => i = j
Members(q) == {q[i] : i \in DOMAIN q}

(* Leaving a queue takes out the call that leaves and nobody else, and does
   not put another one at its head while the head stays.                    *)
LEMMA LeaveQueue ==
  ASSUME NEW q \in Seq(Calls), Once(q), NEW c
  PROVE  /\ Leave(q, c) \in Seq(Calls) /\ Once(Leave(q, c))
         /\ Members(Leave(q, c)) = Members(q) \ {c}
         /\ \A d : d # c /\ IsHead(q, d) => IsHead(Leave(q, c), d)
<1>1. CASE \E j \in DOMAIN q : q[j] = c
  <2> DEFINE p == CHOOSE j \in DOMAIN q : q[j] = c
             w == Drop(q, p)
             place(j) == IF j < p THEN j ELSE j + 1
  <2>1. p \in 1..Len(q) /\ q[p] = c
    BY <1>1
  <2>2. Leave(q, c) = w
    BY <1>1 DEF Leave, Drop
  <2> HIDE DEF p
  <2>3. /\ w \in Seq(Calls) /\ Len(w) = Len(q) - 1
        /\ \A j \in 1..(p - 1) : w[j] = q[j]
        /\ \A j \in p..(Len(q) - 1) : w[j] = q[j + 1]
    BY <2>1, DropElements
  <2> HIDE DEF w
  <2>4. \A j \in DOMAIN w : w[j] = q[place(j)] /\ place(j) \in DOMAIN q \ {p}
    BY <2>1, <2>3
  <2>5. \A i, j \in DOMAIN w : place(i) = place(j) => i = j
    BY <2>1, <2>3
  <2>6. ASSUME NEW i \in DOMAIN q, q[i] # c
        PROVE  \E j \in DOMAIN w : w[j] = q[i]
    <3>1. CASE i < p
      <4>1. i \in DOMAIN w /\ place(i) = i
        BY <2>1, <2>3, <3>1
      <4> QED
        BY <2>4, <4>1
    <3>2. CASE i > p
      <4>1. i - 1 \in DOMAIN w /\ place(i - 1) = i
        BY <2>1, <2>3, <3>2
      <4> QED
        BY <2>4, <4>1
    <3> QED
      BY <2>1, <2>6, <3>1, <3>2
  <2> HIDE DEF place
  <2>7. Once(w)
    BY <2>4, <2>5 DEF Once
  <2>8. Members(w) = Members(q) \ {c}
    <3>1. \A j \in DOMAIN w : w[j] # c
      BY <2>1, <2>4 DEF Once
    <3> QED
      BY <2>4, <2>6, <3>1 DEF Members
  <2>9. ASSUME NEW d, d # c, IsHead(q, d)
        PROVE  IsHead(w, d)
    <3>1. q[1] = d /\ p # 1
      BY <2>1, <2>9 DEF IsHead
    <3>2. w[1] = d /\ Len(w) > 0
      BY <2>1, <2>3, <3>1
    <3> QED
      BY <2>3, <3>2 DEF IsHead
  <2> QED
    BY <2>2, <2>3, <2>7, <2>8, <2>9
<1>2. CASE ~\E j \in DOMAIN q : q[j] = c
  BY <1>2 DEF Leave, Members
<1> QED
  BY <1>1, <1>2

(* Joining adds the call at the end.                                        *)
LEMMA JoinQueue ==
  ASSUME NEW q \in Seq(Calls), Once(q), NEW c \in Calls, c \notin Members(q)
  PROVE  /\ Append(q, c) \in Seq(Calls) /\ Once(Append(q, c))
         /\ Members(Append(q, c)) = Members(q) \cup {c}
         /\ \A d : IsHead(q, d) => IsHead(Append(q, c), d)
<1> DEFINE a == Append(q, c)
<1>1. /\ a \in Seq(Calls) /\ Len(a) = Len(q) + 1 /\ a[Len(a)] = c
      /\ \A j \in 1..Len(q) : a[j] = q[j]
  OBVIOUS
<1> HIDE DEF a
<1>2. Once(a)
  BY <1>1 DEF Once, Members
<1>3. Members(a) = Members(q) \cup {c}
  <2>1. \A j \in DOMAIN a : (j \in DOMAIN q /\ a[j] = q[j]) \/ a[j] = c
    BY <1>1
  <2>2. Len(a) \in DOMAIN a /\ \A j \in DOMAIN q : j \in DOMAIN a
    BY <1>1
  <2> QED
    BY <1>1, <2>1, <2>2 DEF Members
<1>4. \A d : IsHead(q, d) => IsHead(a, d)
  BY <1>1 DEF IsHead
<1> QED
  BY <1>1, <1>2, <1>3, <1>4 DEF a

-----------------------------------------------------------------------------
(* The client *)

Queues ==
  /\ lockq \in Seq(Calls) /\ Once(lockq)
  /\ slotq \in Seq(Calls) /\ Once(slotq)

(* Who primes holds the lock and has found no cookie.                       *)
PrimerHolds == \A c \in Calls : pc[c] = "priming" => IsHead(lockq, c) /\ xsrf = NoCookie

ClientInv ==
  /\ TypeOK /\ Queues /\ IsFiniteSet(slots)
  /\ NothingLeaks /\ PrimerHolds

(* A step moves one call.                                                   *)
LEMMA Moved ==
  ASSUME TypeOK, NEW c \in Calls, NEW p, Goto(c, p)
  PROVE  pc'[c] = p /\ \A d \in Calls \ {c} : pc'[d] = pc[d]
BY DEF TypeOK, Goto

(* A call that begins queues for the lock.                                  *)
LEMMA BeginStep ==
  ASSUME ClientInv, NEW c \in Calls, Begin(c)
  PROVE  ClientInv'
<1> USE DEF ClientInv
<1>1. /\ pc[c] = "idle" /\ pc'[c] = "locking" /\ \A d \in Calls \ {c} : pc'[d] = pc[d]
      /\ UNCHANGED <<cookie, xsrf, slots, slotq, header>> /\ lockq' = Append(lockq, c)
  BY Moved DEF Begin
<1>2. c \notin Members(lockq)
  BY <1>1 DEF NothingLeaks, Members
<1>3. /\ lockq' \in Seq(Calls) /\ Once(lockq') /\ Members(lockq') = Members(lockq) \cup {c}
      /\ \A d : IsHead(lockq, d) => IsHead(lockq', d)
  BY <1>1, <1>2, JoinQueue DEF Queues
<1>4. TypeOK'
  BY <1>1, <1>3 DEF TypeOK, Begin, Goto, Waits
<1>5. NothingLeaks'
  BY <1>1, <1>3 DEF NothingLeaks, Members
<1>6. PrimerHolds'
  BY <1>1, <1>3 DEF PrimerHolds
<1> QED
  BY <1>1, <1>3, <1>4, <1>5, <1>6 DEF Queues

(* Releasing the lock and queueing for a permit is one step, so a call is
   never in both queues or in neither.                                      *)
LEMMA PrimedStep ==
  ASSUME ClientInv, NEW c \in Calls, pc[c] \in {"locking", "priming"}, IsHead(lockq, c),
         NEW token \in NoCookie..MaxCookie, Primed(c, token)
  PROVE  ClientInv'
<1> USE DEF ClientInv
<1>1. /\ pc'[c] = "queued" /\ \A d \in Calls \ {c} : pc'[d] = pc[d]
      /\ UNCHANGED <<cookie, slots, late>> /\ xsrf' = token
      /\ lockq' = Leave(lockq, c) /\ slotq' = Append(slotq, c)
  BY Moved DEF Primed
<1>2. c \notin Members(slotq)
  BY <1>1 DEF NothingLeaks, Members
<1>3. /\ lockq' \in Seq(Calls) /\ Once(lockq') /\ Members(lockq') = Members(lockq) \ {c}
      /\ slotq' \in Seq(Calls) /\ Once(slotq') /\ Members(slotq') = Members(slotq) \cup {c}
  BY <1>1, <1>2, LeaveQueue, JoinQueue DEF Queues
<1>4. TypeOK'
  BY <1>1, <1>3 DEF TypeOK, Primed, Goto, Waits
<1>5. NothingLeaks'
  <2>1. /\ slots = {d \in Calls : pc[d] = "getting"}
        /\ Members(lockq) = {d \in Calls : pc[d] \in {"locking", "priming"}}
        /\ Members(slotq) = {d \in Calls : pc[d] = "queued"}
    BY DEF NothingLeaks, Members
  <2>2. slots' = {d \in Calls : pc'[d] = "getting"}
    BY <1>1, <2>1
  <2>3. Members(lockq') = {d \in Calls : pc'[d] \in {"locking", "priming"}}
    BY <1>1, <1>3, <2>1
  <2>4. Members(slotq') = {d \in Calls : pc'[d] = "queued"}
    BY <1>1, <1>3, <2>1
  <2> QED
    BY <2>2, <2>3, <2>4 DEF NothingLeaks, Members
<1>6. PrimerHolds'
  <2>1. \A d \in Calls \ {c} : pc[d] # "priming"
    BY DEF PrimerHolds, IsHead
  <2> QED
    BY <1>1, <2>1 DEF PrimerHolds
<1> QED
  BY <1>1, <1>3, <1>4, <1>5, <1>6 DEF Queues

(* Who primes holds the lock and has looked for a cookie again.             *)
LEMMA PrimeStep ==
  ASSUME ClientInv, NEW c \in Calls, Prime(c)
  PROVE  ClientInv'
<1> USE DEF ClientInv
<1>1. /\ pc[c] = "locking" /\ IsHead(lockq, c) /\ xsrf = NoCookie
      /\ pc'[c] = "priming" /\ \A d \in Calls \ {c} : pc'[d] = pc[d]
      /\ UNCHANGED <<cookie, xsrf, lockq, slots, slotq, header, late>>
  BY Moved DEF Prime
<1>2. TypeOK'
  BY <1>1 DEF TypeOK, Prime, Goto, Waits
<1>3. NothingLeaks'
  BY <1>1 DEF NothingLeaks
<1>4. PrimerHolds'
  BY <1>1 DEF PrimerHolds
<1> QED
  BY <1>1, <1>2, <1>3, <1>4 DEF Queues

(* A permit is taken only while one is free.                                *)
LEMMA TakeStep ==
  ASSUME ClientInv, NEW c \in Calls, TakeSlot(c)
  PROVE  ClientInv'
<1> USE DEF ClientInv
<1>1. /\ pc[c] = "queued" /\ pc'[c] = "getting" /\ \A d \in Calls \ {c} : pc'[d] = pc[d]
      /\ UNCHANGED <<cookie, xsrf, lockq, header, late>>
      /\ slotq' = Leave(slotq, c) /\ slots' = slots \cup {c} /\ Cardinality(slots) < MaxConcurrency
  BY Moved DEF TakeSlot
<1>2. slotq' \in Seq(Calls) /\ Once(slotq') /\ Members(slotq') = Members(slotq) \ {c}
  BY <1>1, LeaveQueue DEF Queues
<1>3. IsFiniteSet(slots') /\ Cardinality(slots') <= MaxConcurrency
  <2>1. /\ IsFiniteSet(slots \cup {c})
        /\ Cardinality(slots \cup {c}) =
             IF c \in slots THEN Cardinality(slots) ELSE Cardinality(slots) + 1
    BY FS_AddElement
  <2>2. Cardinality(slots) \in Nat
    BY FS_CardinalityType
  <2> QED
    BY <1>1, <2>1, <2>2
<1>4. TypeOK'
  BY <1>1, <1>2, <1>3 DEF TypeOK, TakeSlot, Goto, Waits
<1>5. NothingLeaks'
  <2>1. /\ slots = {d \in Calls : pc[d] = "getting"}
        /\ Members(lockq) = {d \in Calls : pc[d] \in {"locking", "priming"}}
        /\ Members(slotq) = {d \in Calls : pc[d] = "queued"}
    BY DEF NothingLeaks, Members
  <2>2. slots' = {d \in Calls : pc'[d] = "getting"}
    BY <1>1, <2>1
  <2>3. Members(lockq') = {d \in Calls : pc'[d] \in {"locking", "priming"}}
    <3>1. Members(lockq') = Members(lockq)
      BY <1>1 DEF Members
    <3> QED
      BY <1>1, <2>1, <3>1
  <2>4. Members(slotq') = {d \in Calls : pc'[d] = "queued"}
    BY <1>1, <1>2, <2>1
  <2> QED
    BY <2>2, <2>3, <2>4 DEF NothingLeaks, Members
<1>6. PrimerHolds'
  BY <1>1 DEF PrimerHolds
<1> QED
  BY <1>1, <1>2, <1>3, <1>4, <1>5, <1>6 DEF Queues

(* However a call ends, it has left both queues and given its permit back.  *)
LEMMA EndStep ==
  ASSUME ClientInv, NEW c \in Calls, PrimeFails(c) \/ GetReturns(c) \/ Cancel(c)
  PROVE  ClientInv'
<1> USE DEF ClientInv
<1>1. PICK p \in Outcomes : pc'[c] = p /\ Goto(c, p) /\ \A d \in Calls \ {c} : pc'[d] = pc[d]
  BY Moved DEF PrimeFails, GetReturns, Cancel, Outcomes
<1>2. /\ UNCHANGED <<cookie, xsrf, header, late>>
      /\ lockq' = Leave(lockq, c) \/ (lockq' = lockq /\ c \notin Members(lockq))
      /\ slotq' = Leave(slotq, c) \/ (slotq' = slotq /\ c \notin Members(slotq))
      /\ slots' = slots \ {c} \/ (slots' = slots /\ c \notin slots)
  BY DEF PrimeFails, GetReturns, Cancel, NothingLeaks, Members
<1>3. /\ lockq' \in Seq(Calls) /\ Once(lockq') /\ Members(lockq') = Members(lockq) \ {c}
      /\ \A d : d # c /\ IsHead(lockq, d) => IsHead(lockq', d)
      /\ slotq' \in Seq(Calls) /\ Once(slotq') /\ Members(slotq') = Members(slotq) \ {c}
  BY <1>2, LeaveQueue DEF Queues
<1>4. /\ slots' = slots \ {c} /\ slots' \in SUBSET Calls
      /\ IsFiniteSet(slots') /\ Cardinality(slots') <= MaxConcurrency
  <2>1. slots' = slots \ {c} /\ slots' \in SUBSET slots
    BY <1>2
  <2>2. IsFiniteSet(slots') /\ Cardinality(slots') <= Cardinality(slots)
    BY <2>1, FS_Subset
  <2>3. Cardinality(slots) \in Nat /\ Cardinality(slots') \in Nat
    BY <2>2, FS_CardinalityType
  <2> QED
    BY <2>1, <2>2, <2>3 DEF TypeOK
<1>5. TypeOK'
  BY <1>1, <1>2, <1>3, <1>4 DEF TypeOK, Goto, Outcomes
<1>6. NothingLeaks'
  BY <1>1, <1>3, <1>4 DEF NothingLeaks, Members, Outcomes
<1>7. PrimerHolds'
  BY <1>1, <1>2, <1>3 DEF PrimerHolds, Outcomes
<1> QED
  BY <1>3, <1>4, <1>5, <1>6, <1>7 DEF Queues

(* What every run keeps.                                                    *)
LEMMA ClientInvariant == Spec => []ClientInv
<1>1. Init => ClientInv
  <2> SUFFICES ASSUME Init
               PROVE  ClientInv
    OBVIOUS
  <2>1. IsFiniteSet(slots) /\ Cardinality(slots) = 0
    BY FS_EmptySet DEF Init
  <2>2. TypeOK
    BY <2>1 DEF Init, TypeOK, NoCookie
  <2>3. Queues /\ NothingLeaks /\ PrimerHolds
    BY DEF Init, Queues, Once, NothingLeaks, PrimerHolds
  <2> QED
    BY <2>1, <2>2, <2>3 DEF ClientInv
<1>2. ClientInv /\ [Next]_vars => ClientInv'
  <2> SUFFICES ASSUME ClientInv, [Next]_vars
               PROVE  ClientInv'
    OBVIOUS
  <2>1. ASSUME NEW c \in Calls, ReuseCookie(c) \/ PrimeAnswers(c)
        PROVE  ClientInv'
    <3>1. xsrf \in NoCookie..MaxCookie /\ cookie \in NoCookie..MaxCookie
      BY DEF ClientInv, TypeOK, NoCookie
    <3>2. pc[c] \in {"locking", "priming"} /\ IsHead(lockq, c)
      BY <2>1 DEF ReuseCookie, PrimeAnswers, ClientInv, PrimerHolds
    <3>3. \E token \in NoCookie..MaxCookie : Primed(c, token)
      BY <2>1, <3>1 DEF ReuseCookie, PrimeAnswers
    <3> QED
      BY <3>2, <3>3, PrimedStep
  <2>2. CASE Retire \/ UNCHANGED vars
    <3>1. UNCHANGED <<xsrf, lockq, slots, slotq, pc, header, late>> /\ cookie' \in 1..MaxCookie
      BY <2>2 DEF Retire, vars, ClientInv, TypeOK
    <3>2. TypeOK' /\ Queues' /\ NothingLeaks' /\ PrimerHolds' /\ IsFiniteSet(slots)'
      BY <3>1 DEF ClientInv, TypeOK, Queues, NothingLeaks, PrimerHolds
    <3> QED
      BY <3>2 DEF ClientInv
  <2> QED
    BY <2>1, <2>2, BeginStep, PrimeStep, TakeStep, EndStep DEF Next, Work
<1>3. QED
  BY <1>1, <1>2, PTL DEF Spec

-----------------------------------------------------------------------------
(* Every variable keeps its type, and no more than MaxConcurrency calls have
   a permit.                                                                *)
THEOREM TypeCorrect == Spec => []TypeOK
  BY ClientInvariant, PTL DEF ClientInv

(* No permit and no place in a queue outlives the call that has it.         *)
THEOREM NoLeak == Spec => []NothingLeaks
  BY ClientInvariant, PTL DEF ClientInv

(* The page is loaded by one call at a time, and only without a cookie.     *)
THEOREM PrimesAlone == Spec => []PrimedOnce
<1>1. ClientInv => PrimedOnce
  BY DEF ClientInv, PrimerHolds, PrimedOnce, IsHead
<1>2. QED
  BY <1>1, ClientInvariant, PTL

(* At most MaxConcurrency JSON requests and one priming page load, which the
   semaphore does not cover, are at the portal at once.                     *)
THEOREM LoadIsBounded == Spec => []LoadBounded
<1>1. ClientInv => LoadBounded
  <2> SUFFICES ASSUME ClientInv
               PROVE  Cardinality(Requesting) <= MaxConcurrency + 1
    BY DEF LoadBounded
  <2>1. IsFiniteSet(slots) /\ Cardinality(slots) <= MaxConcurrency /\ Cardinality(slots) \in Nat
    BY FS_CardinalityType DEF ClientInv, TypeOK
  <2>2. Requesting = slots \cup {c \in Calls : pc[c] = "priming"}
    BY DEF Requesting, ClientInv, NothingLeaks
  <2>3. CASE \A c \in Calls : pc[c] # "priming"
    <3>1. Requesting = slots
      BY <2>2, <2>3
    <3> QED
      BY <2>1, <3>1
  <2>4. ASSUME NEW c \in Calls, pc[c] = "priming"
        PROVE  Cardinality(Requesting) <= MaxConcurrency + 1
    <3>1. Requesting = slots \cup {c}
      BY <2>2, <2>4 DEF ClientInv, PrimerHolds, IsHead
    <3>2. Cardinality(slots \cup {c}) =
            IF c \in slots THEN Cardinality(slots) ELSE Cardinality(slots) + 1
      BY <2>1, FS_AddElement
    <3> QED
      BY <2>1, <3>1, <3>2
  <2> QED
    BY <2>3, <2>4
<1>2. QED
  BY <1>1, ClientInvariant, PTL
=============================================================================
