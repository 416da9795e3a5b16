------------------------------ MODULE QuotaGate ------------------------------
(***************************************************************************)
(* What bearer authentication promises its callers, whatever store keeps   *)
(* the tokens: a request is admitted once, on one token and one UTC day;   *)
(* the token was issued and was not already revoked when the request came; *)
(* and no token is admitted more often on a day than its daily limit.      *)
(* There is no store, no command and no counter here: the quota is counted *)
(* directly over the requests that were admitted.                          *)
(***************************************************************************)
EXTENDS Integers, FiniteSets

CONSTANTS Requests, Tokens, Limit, MaxSlot, Nobody

VARIABLES now,      \* the time, in half days since some UTC midnight
          issued,   \* tokens whose secret an operator was handed
          revoked,  \* tokens whose revocation was carried out
          verdict,  \* what became of each request
          who,      \* the token a request presented, or Nobody
          billed,   \* the UTC day an admitted request was charged to
          asked,    \* the half day a request came in
          barred    \* requests whose token was revoked before they came

vars == <<now, issued, revoked, verdict, who, billed, asked, barred>>

NoDay == -1
Day(slot) == slot \div 2

Init ==
  /\ now = 0
  /\ issued = {}
  /\ revoked = {}
  /\ verdict = [r \in Requests |-> "none"]
  /\ who = [r \in Requests |-> Nobody]
  /\ billed = [r \in Requests |-> NoDay]
  /\ asked = [r \in Requests |-> 0]
  /\ barred = {}

AdmittedOn(t, d) ==
  {r \in Requests : verdict[r] = "admitted" /\ who[r] = t /\ billed[r] = d}

Issue(t) ==
  /\ issued' = issued \cup {t}
  /\ UNCHANGED <<now, revoked, verdict, who, billed, asked, barred>>

Revoke(t) ==
  /\ revoked' = revoked \cup {t}
  /\ UNCHANGED <<now, issued, verdict, who, billed, asked, barred>>

(* A request that presents no token may be let through (the open paths) or
   turned away at once.                                                    *)
Ask(r, c) ==
  /\ verdict[r] = "none"
  /\ verdict' \in {[verdict EXCEPT ![r] = v] : v \in {"pending", "refused"}}
  /\ who' = [who EXCEPT ![r] = c]
  /\ asked' = [asked EXCEPT ![r] = now]
  /\ barred' = IF c \in revoked THEN barred \cup {r} ELSE barred
  /\ UNCHANGED <<now, issued, revoked, billed>>

PassOpen(r) ==
  /\ verdict[r] = "none"
  /\ verdict' = [verdict EXCEPT ![r] = "open"]
  /\ UNCHANGED <<now, issued, revoked, who, billed, asked, barred>>

Admit(r) ==
  /\ verdict[r] = "pending"
  /\ who[r] \in issued
  /\ r \notin barred
  /\ \E d \in Day(asked[r])..Day(now) :
       /\ Cardinality(AdmittedOn(who[r], d)) < Limit[who[r]]
       /\ billed' = [billed EXCEPT ![r] = d]
  /\ verdict' = [verdict EXCEPT ![r] = "admitted"]
  /\ UNCHANGED <<now, issued, revoked, who, asked, barred>>

Refuse(r) ==
  /\ verdict[r] = "pending"
  /\ verdict' = [verdict EXCEPT ![r] = "refused"]
  /\ UNCHANGED <<now, issued, revoked, who, billed, asked, barred>>

(* A server that goes down turns away everybody it has not answered.        *)
Abort ==
  /\ verdict' = [r \in Requests |-> IF verdict[r] = "pending" THEN "refused"
                                                          ELSE verdict[r]]
  /\ UNCHANGED <<now, issued, revoked, who, billed, asked, barred>>

Tick ==
  /\ now < MaxSlot
  /\ now' = now + 1
  /\ UNCHANGED <<issued, revoked, verdict, who, billed, asked, barred>>

Next ==
  \/ \E t \in Tokens : Issue(t) \/ Revoke(t)
  \/ \E r \in Requests, c \in Tokens \cup {Nobody} : Ask(r, c)
  \/ \E r \in Requests : PassOpen(r) \/ Admit(r) \/ Refuse(r)
  \/ Abort \/ Tick

Spec == Init /\ [][Next]_vars
=============================================================================
