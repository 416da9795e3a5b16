-------------------------- MODULE MemoryTokenStore --------------------------
(***************************************************************************)
(* Bearer authentication over the in-process token store                   *)
(* (domains/auth/server/store.py).  None of the store's coroutines waits   *)
(* for anything, so authenticate() runs from the header to the outcome in  *)
(* one step of the event loop: the check of a counter and its increment    *)
(* cannot be separated.  What can happen is the end of the process, which  *)
(* takes tokens and counters with it.                                      *)
(*                                                                         *)
(* Time is in half days, as in QuotaGate, which this store implements too. *)
(***************************************************************************)
EXTENDS Integers, FiniteSets

CONSTANTS
  Requests,   \* HTTP requests, each served once
  Tokens,     \* tokens that may be minted; stands for id, hash and secret
  Limit,      \* the daily_limit each is minted with
  MaxSlot,    \* the last half day of the run
  Stranger,   \* a secret no token has
  NoBearer    \* no Authorization header, or a malformed one

ASSUME MemoryAssumption ==
  /\ Limit \in [Tokens -> Nat]
  /\ MaxSlot \in Nat
  /\ Stranger \notin Tokens
  /\ NoBearer \notin Tokens

VARIABLES
  now,        \* the current half day
  byHash,     \* _by_hash, reduced to whether revoked_at is set
  counters,   \* _counters, 0 for an absent key
  pc,         \* where each request is, or its HTTP outcome
  cred,       \* the credential it carries
  arrived,    \* the half day it came in
  day,        \* the UTC day it was charged to or refused on, or NoDay
  remaining,  \* the remaining_today it was told
  minted,     \* history: the tokens minted so far
  revoked,    \* history: the tokens revoked so far
  barred      \* history: requests whose token was revoked when they came

store   == <<byHash, counters>>
request == <<cred, arrived, day, remaining>>
history == <<minted, revoked, barred>>
vars    == <<now, byHash, counters, pc, cred, arrived, day, remaining,
             minted, revoked, barred>>

NoDay == -1
Day(slot) == slot \div 2
Days == 0..Day(MaxSlot)
Outcomes == {"open", "admitted", "unauthorized", "exhausted", "failed"}

TypeOK ==
  /\ now \in 0..MaxSlot
  /\ byHash \in [Tokens -> {"absent", "live", "revoked"}]
  /\ counters \in [Tokens -> [Days -> Nat]]
  /\ pc \in [Requests -> {"idle", "arrived"} \cup Outcomes]
  /\ cred \in [Requests -> Tokens \cup {Stranger, NoBearer}]
  /\ arrived \in [Requests -> 0..MaxSlot]
  /\ day \in [Requests -> Days \cup {NoDay}]
  /\ remaining \in [Requests -> Nat]
  /\ minted \in SUBSET Tokens /\ revoked \in SUBSET minted
  /\ barred \in SUBSET Requests

Init ==
  /\ now = 0
  /\ byHash = [t \in Tokens |-> "absent"]
  /\ counters = [t \in Tokens |-> [d \in Days |-> 0]]
  /\ pc = [r \in Requests |-> "idle"]
  /\ cred = [r \in Requests |-> NoBearer]
  /\ arrived = [r \in Requests |-> 0]
  /\ day = [r \in Requests |-> NoDay]
  /\ remaining = [r \in Requests |-> 0]
  /\ minted = {} /\ revoked = {} /\ barred = {}

-----------------------------------------------------------------------------
(* A token is minted with a fresh id and secret, so once in all.            *)
Mint(t) ==
  /\ t \notin minted
  /\ byHash' = [byHash EXCEPT ![t] = "live"]
  /\ minted' = minted \cup {t}
  /\ UNCHANGED <<now, counters, pc, request, revoked, barred>>

(* Revoking an id that is not there does nothing.                           *)
Revoke(t) ==
  /\ byHash[t] # "absent"
  /\ byHash' = [byHash EXCEPT ![t] = "revoked"]
  /\ revoked' = revoked \cup {t}
  /\ UNCHANGED <<now, counters, pc, request, minted, barred>>

BypassAuth(r) ==
  /\ pc[r] = "idle"
  /\ pc' = [pc EXCEPT ![r] = "open"]
  /\ UNCHANGED <<now, store, request, history>>

(* A client can only present a secret that mint has handed out.             *)
Arrive(r, c) ==
  /\ pc[r] = "idle"
  /\ c \in Tokens => c \in minted
  /\ pc' = [pc EXCEPT ![r] = "arrived"]
  /\ cred' = [cred EXCEPT ![r] = c]
  /\ arrived' = [arrived EXCEPT ![r] = now]
  /\ barred' = IF c \in revoked THEN barred \cup {r} ELSE barred
  /\ UNCHANGED <<now, store, day, remaining, minted, revoked>>

FaultyUsable(c) == c \in Tokens /\ byHash[c] # "absent"
Usable(c) == c \in Tokens /\ byHash[c] = "live"

FaultySpent(t, used) == used > Limit[t]
HastySpent(t, used)  == used + 1 >= Limit[t]
Spent(t, used) == used >= Limit[t]

Unauthorized(r) ==
  /\ pc[r] = "arrived" /\ ~Usable(cred[r])
  /\ pc' = [pc EXCEPT ![r] = "unauthorized"]
  /\ UNCHANGED <<now, store, request, history>>

(* consume(), with the day authenticate() has just read from the clock.     *)
FaultyExhausted(r) ==
  /\ pc[r] = "arrived" /\ Usable(cred[r])
  /\ Spent(cred[r], counters[cred[r]][Day(now)])
  /\ pc' = [pc EXCEPT ![r] = "exhausted"]
  /\ day' = [day EXCEPT ![r] = Day(now)]
  /\ counters' = [counters EXCEPT ![cred[r]][Day(now)] = @ + 1]
  /\ UNCHANGED <<now, byHash, cred, arrived, remaining, history>>
Exhausted(r) ==
  /\ pc[r] = "arrived" /\ Usable(cred[r])
  /\ Spent(cred[r], counters[cred[r]][Day(now)])
  /\ pc' = [pc EXCEPT ![r] = "exhausted"]
  /\ day' = [day EXCEPT ![r] = Day(now)]
  /\ UNCHANGED <<now, store, cred, arrived, remaining, history>>

FaultyRemainder(t, used) == Limit[t] - used
Remainder(t, used) == Limit[t] - (used + 1)

Admit(r) ==
  LET t == cred[r]  d == Day(now) IN
  /\ pc[r] = "arrived" /\ Usable(t)
  /\ ~Spent(t, counters[t][d])
  /\ pc' = [pc EXCEPT ![r] = "admitted"]
  /\ day' = [day EXCEPT ![r] = d]
  /\ counters' = [counters EXCEPT ![t][d] = @ + 1]
  /\ remaining' = [remaining EXCEPT ![r] = Remainder(t, counters[t][d])]
  /\ UNCHANGED <<now, byHash, cred, arrived, history>>

(* The process ends and another one starts with an empty store.             *)
Restart ==
  /\ byHash' = [t \in Tokens |-> "absent"]
  /\ counters' = [t \in Tokens |-> [d \in Days |-> 0]]
  /\ pc' = [r \in Requests |-> IF pc[r] = "arrived" THEN "failed" ELSE pc[r]]
  /\ UNCHANGED <<now, request, history>>

Tick ==
  /\ now < MaxSlot
  /\ now' = now + 1
  /\ UNCHANGED <<store, pc, request, history>>

Authenticate(r) == Unauthorized(r) \/ Exhausted(r) \/ Admit(r)

Next ==
  \/ \E t \in Tokens : Mint(t) \/ Revoke(t)
  \/ \E r \in Requests : BypassAuth(r) \/ Authenticate(r)
  \/ \E r \in Requests, c \in Tokens \cup {Stranger, NoBearer} : Arrive(r, c)
  \/ Restart \/ Tick

Spec == Init /\ [][Next]_vars

-----------------------------------------------------------------------------
(* Properties *)

Admitted(t, d) ==
  {r \in Requests : pc[r] = "admitted" /\ cred[r] = t /\ day[r] = d}

(* While a token is in the store its counters count the requests served on
   it and nothing else: unlike over Redis, a refusal costs no unit.         *)
MeterExact ==
  \A t \in Tokens, d \in Days : byHash[t] # "absent" =>
    counters[t][d] = Cardinality(Admitted(t, d))

(* The remainders told on a token and day are Limit - 1, Limit - 2, ... with
   no gap and no repeat, across revocations, midnights and restarts.        *)
Countdown ==
  \A t \in Tokens, d \in Days :
    /\ {remaining[r] : r \in Admitted(t, d)} =
         (Limit[t] - Cardinality(Admitted(t, d)))..(Limit[t] - 1)
    /\ \A r, s \in Admitted(t, d) : remaining[r] = remaining[s] => r = s

(* A 429 is earned by as many served requests as the limit allows.          *)
RefusalEarned ==
  \A r \in Requests : pc[r] = "exhausted" =>
    Cardinality(Admitted(cred[r], day[r])) = Limit[cred[r]]

(* The inductive invariant behind the refinement: the store knows only minted
   tokens, a revoked one is never live again, and the remainders told on a
   token in the store are those its counter has passed.                     *)
TokensFinal ==
  /\ \A t \in Tokens : byHash[t] # "absent" => t \in minted
  /\ \A t \in revoked : byHash[t] # "live"
  /\ \A r \in Requests : cred[r] \in Tokens => cred[r] \in minted
  /\ \A r \in barred : cred[r] \in revoked /\ pc[r] \notin {"idle", "admitted"}

RemaindersPassed ==
  \A r \in Requests : pc[r] = "admitted" =>
    /\ cred[r] \in Tokens /\ day[r] \in Days
    /\ remaining[r] < Limit[cred[r]]
    /\ byHash[cred[r]] # "absent" =>
         Limit[cred[r]] - counters[cred[r]][day[r]] <= remaining[r]

ArrivedBefore == \A r \in Requests : arrived[r] <= now

RemaindersDistinct ==
  \A r, s \in Requests :
    (/\ pc[r] = "admitted" /\ pc[s] = "admitted" /\ r # s
     /\ cred[r] = cred[s] /\ day[r] = day[s]) => remaining[r] # remaining[s]

IInv ==
  TypeOK /\ ArrivedBefore /\ TokensFinal /\ RemaindersPassed /\ RemaindersDistinct

Verdict ==
  [r \in Requests |->
     IF pc[r] = "idle" THEN "none"
     ELSE IF pc[r] = "arrived" THEN "pending"
     ELSE IF pc[r] \in {"open", "admitted"} THEN pc[r] ELSE "refused"]
Presented == [r \in Requests |-> IF cred[r] \in Tokens THEN cred[r] ELSE NoBearer]
Billed    == [r \in Requests |-> IF pc[r] = "admitted" THEN day[r] ELSE NoDay]

Gate == INSTANCE QuotaGate WITH
  Nobody <- NoBearer, verdict <- Verdict, who <- Presented, billed <- Billed,
  asked <- arrived, issued <- minted

(* Every behaviour over this store, the end of the process included, is one
   the abstract gate allows.                                                *)
ImplementsGate == Gate!Spec
=============================================================================
