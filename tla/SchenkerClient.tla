--------------------------- MODULE SchenkerClient ---------------------------
(***************************************************************************)
(* domains/tracking/server/schenker_client.py: the calls of _get_json that *)
(* share one client, its XSRF cookie behind an asyncio.Lock and its        *)
(* asyncio.Semaphore.  Lock and semaphore serve their waiters in order of  *)
(* arrival; cancellation can hit a call at any wait.                       *)
(*                                                                         *)
(* The portal's cookies are numbered; it may retire the current one, and   *)
(* answers a call that carries a retired one with a 4xx.                   *)
(***************************************************************************)
EXTENDS Integers, Sequences, FiniteSets

CONSTANTS
  Calls,          \* calls of _get_json, each made once
  MaxConcurrency, \* max_concurrency
  MaxCookie       \* bound on how many cookies the portal hands out

ASSUME ClientAssumption ==
  /\ MaxConcurrency \in Nat \ {0}
  /\ MaxCookie \in Nat \ {0}

VARIABLES
  cookie,  \* the portal's current cookie
  xsrf,    \* _xsrf, or NoCookie
  lockq,   \* who holds _xsrf_lock (the head) or waits for it
  slots,   \* who holds a permit of _sem
  slotq,   \* who waits for one
  pc,      \* where each call waits, or its outcome
  header,  \* the cookie a call sends, or NoCookie
  late     \* history: calls that began after the held cookie was retired

vars == <<cookie, xsrf, lockq, slots, slotq, pc, header, late>>

NoCookie == 0
Waits    == {"locking", "priming", "queued", "getting"}
Outcomes == {"ok", "not_found", "unavailable", "cancelled"}

TypeOK ==
  /\ cookie \in 1..MaxCookie
  /\ xsrf \in NoCookie..MaxCookie
  /\ lockq \in Seq(Calls) /\ slotq \in Seq(Calls)
  /\ slots \in SUBSET Calls /\ Cardinality(slots) <= MaxConcurrency
  /\ pc \in [Calls -> {"idle"} \cup Waits \cup Outcomes]
  /\ header \in [Calls -> NoCookie..MaxCookie]
  /\ late \in SUBSET Calls

Init ==
  /\ cookie = 1
  /\ xsrf = NoCookie
  /\ lockq = <<>> /\ slotq = <<>>
  /\ slots = {}
  /\ pc = [c \in Calls |-> "idle"]
  /\ header = [c \in Calls |-> NoCookie]
  /\ late = {}

Goto(c, p) == pc' = [pc EXCEPT ![c] = p]
Leave(q, c) ==
  LET i == CHOOSE j \in DOMAIN q : q[j] = c
  IN IF \E j \in DOMAIN q : q[j] = c THEN SubSeq(q, 1, i - 1) \o SubSeq(q, i + 1, Len(q)) ELSE q
IsHead(q, c) == q # <<>> /\ Head(q) = c

Begin(c) ==
  /\ pc[c] = "idle"
  /\ Goto(c, "locking")
  /\ lockq' = Append(lockq, c)
  /\ late' = IF xsrf # NoCookie /\ xsrf # cookie THEN late \cup {c} ELSE late
  /\ UNCHANGED <<cookie, xsrf, slots, slotq, header>>

(* The lock is released, the header is made up, and the call joins the
   semaphore's queue, all without a wait.                                  *)
Primed(c, token) ==
  /\ xsrf' = token
  /\ lockq' = Leave(lockq, c)
  /\ header' = [header EXCEPT ![c] = token]
  /\ slotq' = Append(slotq, c)
  /\ Goto(c, "queued")
  /\ UNCHANGED <<cookie, slots, late>>

(* A call that gets the lock looks again whether another one has primed.   *)
ReuseCookie(c) ==
  /\ pc[c] = "locking" /\ IsHead(lockq, c) /\ xsrf # NoCookie
  /\ Primed(c, xsrf)

FaultyPrime(c) ==
  /\ pc[c] = "locking" /\ IsHead(lockq, c)
  /\ Goto(c, "priming")
  /\ UNCHANGED <<cookie, xsrf, lockq, slots, slotq, header, late>>
Prime(c) ==
  /\ pc[c] = "locking" /\ IsHead(lockq, c) /\ xsrf = NoCookie
  /\ Goto(c, "priming")
  /\ UNCHANGED <<cookie, xsrf, lockq, slots, slotq, header, late>>

(* The SPA answers, with or without a cookie.                              *)
PrimeAnswers(c) ==
  /\ pc[c] = "priming"
  /\ \/ Primed(c, cookie)
     \/ Primed(c, xsrf)

FaultyPrimeFails(c) ==
  /\ pc[c] = "priming"
  /\ Goto(c, "unavailable")
  /\ UNCHANGED <<cookie, xsrf, lockq, slots, slotq, header, late>>
PrimeFails(c) ==
  /\ pc[c] = "priming"
  /\ lockq' = Leave(lockq, c)
  /\ Goto(c, "unavailable")
  /\ UNCHANGED <<cookie, xsrf, slots, slotq, header, late>>

FaultyTakeSlot(c) ==
  /\ pc[c] = "queued" /\ IsHead(slotq, c) /\ Cardinality(slots) <= MaxConcurrency
  /\ slotq' = Leave(slotq, c)
  /\ slots' = slots \cup {c}
  /\ Goto(c, "getting")
  /\ UNCHANGED <<cookie, xsrf, lockq, header, late>>
TakeSlot(c) ==
  /\ pc[c] = "queued" /\ IsHead(slotq, c) /\ Cardinality(slots) < MaxConcurrency
  /\ slotq' = Leave(slotq, c)
  /\ slots' = slots \cup {c}
  /\ Goto(c, "getting")
  /\ UNCHANGED <<cookie, xsrf, lockq, header, late>>

(* The permit goes back before the status is looked at.  A retired cookie
   earns a 4xx; anything may time out or earn a 429 or a 5xx.              *)
GetReturns(c) ==
  /\ pc[c] = "getting"
  /\ slots' = slots \ {c}
  /\ \/ header[c] = cookie /\ \E p \in {"ok", "not_found"} : Goto(c, p)
     \/ Goto(c, "unavailable")
  /\ UNCHANGED <<cookie, xsrf, lockq, slotq, header, late>>

FaultyCancel(c) ==
  /\ pc[c] \in Waits
  /\ lockq' = Leave(lockq, c)
  /\ slotq' = Leave(slotq, c)
  /\ Goto(c, "cancelled")
  /\ UNCHANGED <<cookie, xsrf, slots, header, late>>
Cancel(c) ==
  /\ pc[c] \in Waits
  /\ lockq' = Leave(lockq, c)
  /\ slotq' = Leave(slotq, c)
  /\ slots' = slots \ {c}
  /\ Goto(c, "cancelled")
  /\ UNCHANGED <<cookie, xsrf, header, late>>

(* The portal retires its cookie.                                          *)
Retire ==
  /\ cookie < MaxCookie
  /\ cookie' = cookie + 1
  /\ UNCHANGED <<xsrf, lockq, slots, slotq, pc, header, late>>

Work(c) ==
  \/ ReuseCookie(c) \/ Prime(c) \/ PrimeAnswers(c) \/ PrimeFails(c)
  \/ TakeSlot(c) \/ GetReturns(c)

Next ==
  \/ \E c \in Calls : Begin(c) \/ Work(c) \/ Cancel(c)
  \/ Retire

Spec == Init /\ [][Next]_vars

(* Every request to the portal is answered or times out, and the event loop
   runs the waiter that a lock or a semaphore woke.  Nobody need cancel.   *)
FairSpec == Spec /\ \A c \in Calls : WF_vars(Work(c))

-----------------------------------------------------------------------------
(* Properties *)

Requesting == {c \in Calls : pc[c] \in {"priming", "getting"}}

(* The portal never sees more than MaxConcurrency JSON requests and, outside
   the semaphore, the one page load that primes the cookie, also when calls
   are cancelled while they queue or fetch.                                 *)
LoadBounded == Cardinality(Requesting) <= MaxConcurrency + 1

(* No permit and no place in a queue outlives the call that has it, so an
   idle client can always be used to its full concurrency again.           *)
NothingLeaks ==
  /\ slots = {c \in Calls : pc[c] = "getting"}
  /\ {lockq[i] : i \in DOMAIN lockq} = {c \in Calls : pc[c] \in {"locking", "priming"}}
  /\ {slotq[i] : i \in DOMAIN slotq} = {c \in Calls : pc[c] = "queued"}

(* However many calls start on a cold client, the portal's page is loaded by
   one at a time, and by nobody once a cookie is held.                     *)
PrimedOnce ==
  \A c \in Calls : pc[c] = "priming" =>
    /\ xsrf = NoCookie
    /\ \A d \in Calls : pc[d] = "priming" => d = c

(* Every call ends, whatever the others do.                                *)
Completed == \A c \in Calls : pc[c] = "locking" ~> pc[c] \in Outcomes

(* What the repository says and the code does not keep *)

(* docs/UPSTREAM.md:87-88, prime "at process boot (or per call if cookies
   expire)": a call that begins after the cookie expired does not send it. *)
ExpiredCookieRefreshed ==
  \A c \in late : pc[c] = "getting" => header[c] = cookie
=============================================================================
