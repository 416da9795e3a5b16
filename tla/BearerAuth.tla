------------------------------ MODULE BearerAuth ------------------------------
(***************************************************************************)
(* Bearer authentication over the shared Redis token store: the HTTP       *)
(* middleware (domains/auth/server/middleware.py), the store it calls      *)
(* (domains/auth/server/upstash_store.py) and the operator's mint and      *)
(* revoke commands (apps/server/cli.py).                                   *)
(*                                                                         *)
(* Every await of the code is a Redis command over HTTP, so every command  *)
(* is a step, and requests, operators, other server processes and midnight *)
(* interleave between them.  A command may fail before it is applied, or   *)
(* be applied and its answer lost.  The Redis client the store is built on *)
(* (upstash_redis, as Redis(url, token) configures it) then sends the      *)
(* command once more, some seconds later, before it gives up: this does    *)
(* nothing to a GET, a SET or an EXPIRE, but INCR counts twice.  A request *)
(* that is cancelled or whose process dies between two commands looks to   *)
(* the store like a command that failed.                                   *)
(*                                                                         *)
(* Time is counted in half days, since the two durations that matter are   *)
(* the UTC day (2) and the life of a quota key, 36 hours (3).              *)
(***************************************************************************)
EXTENDS Integers, FiniteSets

CONSTANTS
  Requests,   \* HTTP requests, each served once
  Tokens,     \* tokens an operator may mint; stands for id, hash and secret
  Limit,      \* the daily_limit each token is minted with
  MaxSlot,    \* the last half day of the run
  Stranger,   \* a secret no token has
  NoBearer    \* no Authorization header, or a malformed one

ASSUME ConstantsAssumption ==
  /\ Limit \in [Tokens -> Nat]
  /\ MaxSlot \in Nat
  /\ Stranger \notin Tokens
  /\ NoBearer \notin Tokens

VARIABLES
  now,      \* the current half day
  record,   \* token:hash:<hash>, reduced to whether revoked_at is set
  index,    \* token:id:<id> is present
  count,    \* quota:<id>:<day>, 0 when the key is absent
  expiry,   \* the half day at which that key expires, or Forever
  mint,     \* progress of the operator's mint of a token
  revoke,   \* progress of the operator's revocation of a token
  pc,       \* the await each request is at, or its HTTP outcome
  cred,     \* the credential a request carries
  arrived,  \* the half day it came in
  day,      \* the UTC day authenticate() computed, or NoDay
  ticket,   \* new_count, what INCR answered; 0 before
  drawn,    \* history: every count its INCRs reached, heard of or not
  barred    \* history: its token's revocation had completed when it came

admin   == <<record, index, mint, revoke>>
quota   == <<count, expiry>>
request == <<cred, arrived, day, ticket, drawn, barred>>
vars    == <<now, record, index, count, expiry, mint, revoke,
             pc, cred, arrived, day, ticket, drawn, barred>>

Forever  == -1
NoDay    == -1
Day(slot) == slot \div 2
LastDay  == Day(MaxSlot)
Days     == 0..LastDay

FaultyQuotaTTL == 2   \* the key lives as long as the day it counts
QuotaTTL == 3

FaultyQuotaSpent(t, n) == Limit[t] - n <= 0
QuotaSpent(t, n) == Limit[t] - n < 0

Awaiting == {"lookup", "incr", "reincr", "expire", "index", "record"}
InFlight == Awaiting \cup {"dating"}
Outcomes == {"open", "admitted", "unauthorized", "exhausted", "failed"}

TypeOK ==
  /\ now \in 0..MaxSlot
  /\ record \in [Tokens -> {"absent", "live", "revoked"}]
  /\ index \in [Tokens -> BOOLEAN]
  /\ count \in [Tokens -> [Days -> Nat]]
  /\ expiry \in [Tokens -> [Days -> Nat \cup {Forever}]]
  /\ mint \in [Tokens -> {"unminted", "recorded", "issued", "failed"}]
  /\ revoke \in [Tokens -> {"idle", "found", "loaded", "done"}]
  /\ pc \in [Requests -> {"idle"} \cup InFlight \cup Outcomes]
  /\ cred \in [Requests -> Tokens \cup {Stranger, NoBearer}]
  /\ arrived \in [Requests -> 0..MaxSlot]
  /\ day \in [Requests -> Days \cup {NoDay}]
  /\ ticket \in [Requests -> Nat]
  /\ drawn \in [Requests -> SUBSET Nat]
  /\ barred \in SUBSET Requests

Init ==
  /\ now = 0
  /\ record = [t \in Tokens |-> "absent"]
  /\ index = [t \in Tokens |-> FALSE]
  /\ count = [t \in Tokens |-> [d \in Days |-> 0]]
  /\ expiry = [t \in Tokens |-> [d \in Days |-> Forever]]
  /\ mint = [t \in Tokens |-> "unminted"]
  /\ revoke = [t \in Tokens |-> "idle"]
  /\ pc = [r \in Requests |-> "idle"]
  /\ cred = [r \in Requests |-> NoBearer]
  /\ arrived = [r \in Requests |-> 0]
  /\ day = [r \in Requests |-> NoDay]
  /\ ticket = [r \in Requests |-> 0]
  /\ drawn = [r \in Requests |-> {}]
  /\ barred = {}

-----------------------------------------------------------------------------
(* The operator: mint writes the record, then the index, and hands out the
   secret only after both; revoke reads both before it rewrites the record. *)

MintRecord(t) ==
  /\ mint[t] = "unminted"
  /\ record' = [record EXCEPT ![t] = "live"]
  /\ mint' = [mint EXCEPT ![t] = "recorded"]
  /\ UNCHANGED <<now, index, revoke, quota, pc, request>>

MintIndex(t) ==
  /\ mint[t] = "recorded"
  /\ index' = [index EXCEPT ![t] = TRUE]
  /\ mint' = [mint EXCEPT ![t] = "issued"]
  /\ UNCHANGED <<now, record, revoke, quota, pc, request>>

(* A SET whose answer is lost is sent again, or the command fails.          *)
MintAnswerLost(t) ==
  /\ \/ mint[t] = "unminted" /\ record' = [record EXCEPT ![t] = "live"] /\ index' = index
     \/ mint[t] = "recorded" /\ index' = [index EXCEPT ![t] = TRUE] /\ record' = record
  /\ UNCHANGED <<now, mint, revoke, quota, pc, request>>

MintFails(t) ==
  /\ mint[t] \in {"unminted", "recorded"}
  /\ mint' = [mint EXCEPT ![t] = "failed"]
  /\ UNCHANGED <<now, record, index, revoke, quota, pc, request>>

(* An operator knows a token's id from mint's output, or from `tokens list`,
   which shows every record, also one whose mint did not finish.  A missing
   index or record ends the command without a write and without an error, and
   so may the failure of a command it sends, with one.  The operator may try
   again until a revocation is reported as done.                            *)
RevokeIndex(t) ==
  /\ record[t] # "absent" /\ index[t]
  /\ revoke[t] = "idle"
  /\ revoke' = [revoke EXCEPT ![t] = "found"]
  /\ UNCHANGED <<now, record, index, mint, quota, pc, request>>

RevokeLoad(t) ==
  /\ revoke[t] = "found"
  /\ revoke' = [revoke EXCEPT ![t] = IF record[t] = "absent" THEN "idle" ELSE "loaded"]
  /\ UNCHANGED <<now, record, index, mint, quota, pc, request>>

RevokeWrite(t) ==
  /\ revoke[t] = "loaded"
  /\ record' = [record EXCEPT ![t] = "revoked"]
  /\ revoke' = [revoke EXCEPT ![t] = "done"]
  /\ UNCHANGED <<now, index, mint, quota, pc, request>>

RevokeAnswerLost(t) ==
  /\ revoke[t] = "loaded"
  /\ record' = [record EXCEPT ![t] = "revoked"]
  /\ UNCHANGED <<now, index, mint, revoke, quota, pc, request>>

RevokeFails(t) ==
  /\ revoke[t] \in {"found", "loaded"}
  /\ revoke' = [revoke EXCEPT ![t] = "idle"]
  /\ UNCHANGED <<now, record, index, mint, quota, pc, request>>

-----------------------------------------------------------------------------
(* A request: the middleware, authenticate(), lookup() and consume().       *)

(* /healthz, /docs and /openapi.json.                                       *)
BypassAuth(r) ==
  /\ pc[r] = "idle"
  /\ pc' = [pc EXCEPT ![r] = "open"]
  /\ UNCHANGED <<now, admin, quota, request>>

(* A client can only present a secret that mint has handed out.             *)
Arrive(r, c) ==
  /\ pc[r] = "idle"
  /\ c \in Tokens => mint[c] = "issued"
  /\ pc' = [pc EXCEPT ![r] = IF c = NoBearer THEN "unauthorized" ELSE "lookup"]
  /\ cred' = [cred EXCEPT ![r] = c]
  /\ arrived' = [arrived EXCEPT ![r] = now]
  /\ barred' = IF c \in Tokens /\ revoke[c] = "done" THEN barred \cup {r} ELSE barred
  /\ UNCHANGED <<now, admin, quota, day, ticket, drawn>>

Known(c) == c \in Tokens /\ record[c] # "absent"

FaultyUsable(c) == Known(c)
Usable(c) == Known(c) /\ record[c] # "revoked"

Lookup(r) ==
  /\ pc[r] = "lookup"
  /\ pc' = [pc EXCEPT ![r] = IF Usable(cred[r]) THEN "dating" ELSE "unauthorized"]
  /\ UNCHANGED <<now, admin, quota, request>>

(* authenticate() reads the clock when the lookup's answer is in; the answer
   may have travelled past midnight, and the INCR may do so again.          *)
FaultyStampDay(r) ==
  /\ pc[r] = "dating"
  /\ day' = [day EXCEPT ![r] = (now + 1) \div 2]
  /\ pc' = [pc EXCEPT ![r] = "incr"]
  /\ UNCHANGED <<now, admin, quota, cred, arrived, ticket, drawn, barred>>
StampDay(r) ==
  /\ pc[r] = "dating"
  /\ day' = [day EXCEPT ![r] = Day(now)]
  /\ pc' = [pc EXCEPT ![r] = "incr"]
  /\ UNCHANGED <<now, admin, quota, cred, arrived, ticket, drawn, barred>>

(* INCR makes an absent key, without a TTL, or bumps a present one.         *)
NextCount(r) == count[cred[r]][day[r]] + 1

Bump(r) ==
  /\ count' = [count EXCEPT ![cred[r]][day[r]] = NextCount(r)]
  /\ drawn' = [drawn EXCEPT ![r] = @ \cup {NextCount(r)}]

FaultyIncr(r) ==
  /\ pc[r] \in {"incr", "reincr"}
  /\ Bump(r)
  /\ ticket' = [ticket EXCEPT ![r] = NextCount(r)]
  /\ pc' = [pc EXCEPT ![r] = IF count[cred[r]][day[r]] = 1 THEN "expire" ELSE "index"]
  /\ UNCHANGED <<now, admin, expiry, cred, arrived, day, barred>>
(* The answer arrives: to the first sending or to the second.               *)
Incr(r) ==
  /\ pc[r] \in {"incr", "reincr"}
  /\ Bump(r)
  /\ ticket' = [ticket EXCEPT ![r] = NextCount(r)]
  /\ pc' = [pc EXCEPT ![r] = IF NextCount(r) = 1 THEN "expire" ELSE "index"]
  /\ UNCHANGED <<now, admin, expiry, cred, arrived, day, barred>>

(* The answer is lost: INCR is sent again, and after that nothing is.       *)
IncrAnswerLost(r) ==
  /\ pc[r] \in {"incr", "reincr"}
  /\ Bump(r)
  /\ pc' = [pc EXCEPT ![r] = IF pc[r] = "incr" THEN "reincr" ELSE "failed"]
  /\ UNCHANGED <<now, admin, expiry, cred, arrived, day, ticket, barred>>

SetTTL(r) == expiry' = [expiry EXCEPT ![cred[r]][day[r]] = now + QuotaTTL]

Expire(r) ==
  /\ pc[r] = "expire"
  /\ SetTTL(r)
  /\ pc' = [pc EXCEPT ![r] = "index"]
  /\ UNCHANGED <<now, admin, count, request>>

(* Applied, and to be sent again or to fail.                                *)
ExpireAnswerLost(r) ==
  /\ pc[r] = "expire"
  /\ SetTTL(r)
  /\ UNCHANGED <<now, admin, count, pc, request>>

GetIndex(r) ==
  /\ pc[r] = "index"
  /\ pc' = [pc EXCEPT ![r] = IF index[cred[r]] THEN "record" ELSE "exhausted"]
  /\ UNCHANGED <<now, admin, quota, request>>

(* consume() reads the record for its limit alone: not for revoked_at.      *)
GetRecord(r) ==
  /\ pc[r] = "record"
  /\ pc' = [pc EXCEPT ![r] = IF ~Known(cred[r]) \/ QuotaSpent(cred[r], ticket[r])
                             THEN "exhausted" ELSE "admitted"]
  /\ UNCHANGED <<now, admin, quota, request>>

(* UpstreamUnavailableError is not among the exceptions the middleware turns
   into a response: the request ends as a bare 500.                         *)
StoreFails(r) ==
  /\ pc[r] \in Awaiting
  /\ pc' = [pc EXCEPT ![r] = "failed"]
  /\ UNCHANGED <<now, admin, quota, request>>

-----------------------------------------------------------------------------
(* A half day passes and Redis drops the keys whose time has come.  Bound:
   no request outlives the half day after the one it came in, i.e. it lasts
   12 hours at the very most.                                               *)
Expired(t, d) == expiry[t][d] # Forever /\ expiry[t][d] <= now + 1

Tick ==
  /\ now < MaxSlot
  /\ \A r \in Requests : pc[r] \in InFlight => arrived[r] = now
  /\ now' = now + 1
  /\ count' = [t \in Tokens |-> [d \in Days |->
                  IF Expired(t, d) THEN 0 ELSE count[t][d]]]
  /\ expiry' = [t \in Tokens |-> [d \in Days |->
                  IF Expired(t, d) THEN Forever ELSE expiry[t][d]]]
  /\ UNCHANGED <<admin, pc, request>>

Operate(t) ==
  \/ MintRecord(t) \/ MintIndex(t) \/ MintAnswerLost(t) \/ MintFails(t)
  \/ RevokeIndex(t) \/ RevokeLoad(t) \/ RevokeWrite(t) \/ RevokeAnswerLost(t) \/ RevokeFails(t)

Progress(r) ==
  \/ Lookup(r) \/ StampDay(r) \/ Incr(r) \/ Expire(r) \/ GetIndex(r) \/ GetRecord(r)

Fail(r) == StoreFails(r) \/ IncrAnswerLost(r) \/ ExpireAnswerLost(r)

Serve(r) == Progress(r) \/ Fail(r)

Next ==
  \/ \E t \in Tokens : Operate(t)
  \/ \E r \in Requests : BypassAuth(r) \/ Serve(r)
  \/ \E r \in Requests, c \in Tokens \cup {Stranger, NoBearer} : Arrive(r, c)
  \/ Tick

Spec == Init /\ [][Next]_vars

-----------------------------------------------------------------------------
(* Properties *)

Admitted(t, d) ==
  {r \in Requests : pc[r] = "admitted" /\ cred[r] = t /\ day[r] = d}

(* No token is admitted more often on one UTC day than its daily_limit,
   however INCR, EXPIRE, key expiry, midnight and failures interleave: the
   claim of docs/AUTH.md:90 for consume().                                  *)
QuotaRespected ==
  \A t \in Tokens, d \in Days : Cardinality(Admitted(t, d)) <= Limit[t]

(* The remaining_today a client is told is never told twice: the requests
   admitted on one token and day hold different tickets, none above the
   limit, so the countdown a client watches has no repeats.                 *)
RemainingDistinct ==
  \A r, s \in Requests :
    /\ pc[r] = "admitted" => ticket[r] \in 1..Limit[cred[r]]
    /\ (/\ r # s /\ pc[r] = "admitted" /\ pc[s] = "admitted"
        /\ cred[r] = cred[s] /\ day[r] = day[s])
         => ticket[r] # ticket[s]

(* A 429 is earned: when a request on an intact token is refused for quota,
   every unit of that day's limit has been drawn, each by a request that was
   not refused on that unit.  Failed requests, and requests whose INCR was
   sent twice, use units up; refused ones use none.                         *)
NoEarlyRefusal ==
  \A r \in Requests : pc[r] = "exhausted" =>
    \A n \in 1..Limit[cred[r]] : \E s \in Requests :
      /\ cred[s] = cred[r] /\ day[s] = day[r] /\ n \in drawn[s]
      /\ pc[s] = "exhausted" => ticket[s] # n

(* INCR and EXPIRE are two commands, and only the request that is answered 1
   sends EXPIRE: a key is without a TTL only while the request that made it is
   about to do so, or because that request failed on the way, or because it
   never heard of its 1 (an admitted request too can leave a key behind).   *)
LeakOnlyByLoss ==
  \A t \in Tokens, d \in Days : count[t][d] > 0 /\ expiry[t][d] = Forever =>
    \E r \in Requests :
      /\ cred[r] = t /\ day[r] = d /\ 1 \in drawn[r]
      /\ ticket[r] # 1 \/ pc[r] \in {"expire", "failed"}

(* Once `tokens revoke` has rewritten the record, no request that comes
   afterwards is admitted, although consume() itself never looks at
   revoked_at and lookup and consume are separate commands.                 *)
RevocationHolds == \A r \in barred : pc[r] # "admitted"

-----------------------------------------------------------------------------
(* The inductive invariant behind the properties above, part by part.       *)

Spent   == {"expire", "index", "record", "admitted", "exhausted"}

(* A request presents only issued tokens, and only one whose token was found
   gets as far as the quota.                                                *)
Credentialed ==
  \A r \in Requests :
    /\ cred[r] \in Tokens => mint[cred[r]] = "issued"
    /\ pc[r] \in {"dating", "incr", "reincr"} \cup Spent => cred[r] \in Tokens

(* A request draws after it has a day, and keeps the ticket it was told.    *)
TicketWhenDrawn ==
  \A r \in Requests :
    /\ pc[r] \in {"idle", "lookup", "dating", "incr"} => drawn[r] = {}
    /\ pc[r] = "reincr" => ticket[r] = 0
    /\ pc[r] \in Spent => ticket[r] > 0
    /\ pc[r] \in {"incr", "reincr"} \cup Spent => day[r] \in Days
    /\ ticket[r] > 0 => ticket[r] \in drawn[r]
    /\ drawn[r] # {} => cred[r] \in Tokens /\ day[r] \in Days
    /\ 0 \notin drawn[r]

(* A request is charged to a day it was in flight on; so its INCR reaches
   Redis less than 12 hours after the end of that day.                      *)
Timely ==
  \A r \in Requests :
    /\ pc[r] \in InFlight => arrived[r] <= now /\ now <= arrived[r] + 1
    /\ pc[r] \in {"incr", "reincr"} \cup Spent => arrived[r] <= 2 * day[r] + 1 /\ 2 * day[r] <= now

(* No quota key expires before every INCR for its day has reached Redis.    *)
KeyOutlivesDay ==
  \A t \in Tokens, d \in Days : expiry[t][d] # Forever => 2 * d + 3 <= expiry[t][d]

(* While an INCR for a day is possible, its key counts all that was drawn.  *)
TicketsCounted ==
  \A r \in Requests : \A n \in drawn[r] :
    n <= count[cred[r]][day[r]] \/ 2 * day[r] + 3 <= now

TicketsDistinct ==
  \A r, s \in Requests :
    r # s /\ cred[r] = cred[s] /\ day[r] = day[s] => drawn[r] \cap drawn[s] = {}

AdmittedWithinLimit ==
  \A r \in Requests : pc[r] = "admitted" => ticket[r] <= Limit[cred[r]]

(* A completed revocation is for good: mint may write a record twice, but not
   once there is an index, and revocation starts only when there is one.    *)
RevocationFinal ==
  /\ \A t \in Tokens :
       /\ mint[t] = "unminted" => ~index[t]
       /\ revoke[t] \in {"found", "loaded", "done"} => index[t]
       /\ mint[t] \in {"recorded", "issued"} => record[t] # "absent"
       /\ revoke[t] = "done" => record[t] = "revoked"
  /\ \A r \in barred :
       /\ cred[r] \in Tokens
       /\ revoke[cred[r]] = "done"
       /\ pc[r] \in {"lookup", "unauthorized", "failed"}

(* Together they are inductive: every other property follows from them.     *)
IInv ==
  /\ TypeOK
  /\ Credentialed
  /\ TicketWhenDrawn
  /\ Timely
  /\ KeyOutlivesDay
  /\ TicketsCounted
  /\ TicketsDistinct
  /\ AdmittedWithinLimit
  /\ RevocationFinal

-----------------------------------------------------------------------------
(* The store implements the abstract gate, seen through these functions.    *)
Verdict ==
  [r \in Requests |->
     IF pc[r] = "idle" THEN "none"
     ELSE IF pc[r] \in InFlight THEN "pending"
     ELSE IF pc[r] \in {"open", "admitted"} THEN pc[r] ELSE "refused"]
Presented == [r \in Requests |-> IF cred[r] \in Tokens THEN cred[r] ELSE NoBearer]
Billed    == [r \in Requests |-> IF pc[r] = "admitted" THEN day[r] ELSE NoDay]
Issued    == {t \in Tokens : mint[t] = "issued"}
Revoked   == {t \in Tokens : revoke[t] = "done"}

Gate == INSTANCE QuotaGate WITH
  Nobody <- NoBearer, verdict <- Verdict, who <- Presented, billed <- Billed,
  asked <- arrived, issued <- Issued, revoked <- Revoked

(* Every behaviour of the middleware, the store and the operator's commands
   is one the abstract gate allows.                                         *)
ImplementsGate == Gate!Spec

(* What the repository says and the code does not keep *)

(* upstash_store.py:66-69, "the auth middleware returns a clean 502": no
   request ends in an error the middleware does not map.                    *)
StoreFailureIsClean == \A r \in Requests : pc[r] # "failed"
=============================================================================
