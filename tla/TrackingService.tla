--------------------------- MODULE TrackingService ---------------------------
(***************************************************************************)
(* domains/tracking/server/service.py: get_shipment() for many concurrent  *)
(* requests of one process, with its response cache (TTLCache), its        *)
(* circuit breaker (CircuitBreaker) and the upstream it asks.              *)
(*                                                                         *)
(* The event loop switches requests only where one waits for the network.  *)
(* TTLCache never waits, so a request looks at the cache and at the        *)
(* breaker in one step, and records an outcome, fills the cache and        *)
(* answers in one step; in between come resolve, fetch_detail and the      *)
(* fallback's page load.  The upstream answers in one step and the answer  *)
(* arrives in another, so answers can overtake each other.                 *)
(***************************************************************************)
EXTENDS Integers, Sequences, FiniteSets

CONSTANTS
  Requests,     \* calls of get_shipment, each made once
  Refs,         \* tracking references, stripped
  MaxVersion,   \* bound on how often upstream updates a shipment
  MaxTime,      \* bound on the clock
  HasFallback,  \* whether DB2ST_HTML_FALLBACK configured one
  Threshold, Cooldown, MaxSize, TTL

ASSUME TrackingAssumption ==
  /\ Threshold \in Nat \ {0} /\ Cooldown \in Nat
  /\ MaxSize \in Nat /\ TTL \in Nat
  /\ MaxTime \in Nat /\ MaxVersion \in Nat \ {0}
  /\ HasFallback \in BOOLEAN

VARIABLES
  now,       \* time.monotonic()
  failures, openedAt,   \* the breaker
  data,      \* the response cache
  world,     \* upstream's version of each shipment, 0 when it has none
  pc,        \* where each request waits, or its outcome
  ref,       \* the reference it asks for
  version,   \* the upstream version it carries or answered
  via,       \* where its shipment came from
  ended,     \* when it answered with a shipment
  streak,    \* history: failures of the primary since it last answered
  trials     \* history: requests that found the breaker half-open

Breaker == INSTANCE CircuitBreaker
Cache   == INSTANCE TTLCache

breaker == <<failures, openedAt>>
answer  == <<via, ended>>
vars == <<now, failures, openedAt, data, world, pc, ref, version, via, ended, streak, trials>>

OnPrimary == {"resolving", "detail", "landing"}
OnFallback == {"scraping", "scraped"}
Outcomes == {"shipment", "not_found", "unavailable", "escaped"}
Nowhere == "nowhere"

TypeOK ==
  /\ now \in 0..MaxTime
  /\ failures \in Nat
  /\ openedAt \in 0..MaxTime \cup {Breaker!Never}
  /\ data \in Seq([key : Refs, expires : 0..(MaxTime + TTL), value : 1..MaxVersion])
  /\ world \in [Refs -> 0..MaxVersion]
  /\ pc \in [Requests -> {"idle"} \cup OnPrimary \cup OnFallback \cup Outcomes]
  /\ ref \in [Requests -> Refs]
  /\ version \in [Requests -> 0..MaxVersion]
  /\ via \in [Requests -> {Nowhere, "cache", "json", "html"}]
  /\ ended \in [Requests -> 0..MaxTime]
  /\ streak \in Nat
  /\ trials \in SUBSET Requests

Init ==
  /\ now = 0
  /\ Breaker!BreakerInit
  /\ data = <<>>
  /\ world \in [Refs -> {0, 1}]
  /\ pc = [r \in Requests |-> "idle"]
  /\ ref \in [Requests -> Refs]
  /\ version = [r \in Requests |-> 0]
  /\ via = [r \in Requests |-> Nowhere]
  /\ ended = [r \in Requests |-> 0]
  /\ streak = 0
  /\ trials = {}

-----------------------------------------------------------------------------
Goto(r, p) == pc' = [pc EXCEPT ![r] = p]

Finish(r) == Goto(r, "shipment") /\ ended' = [ended EXCEPT ![r] = now]

(* Answer with a shipment and keep it in the cache.                         *)
Deliver(r, source) ==
  /\ Finish(r)
  /\ via' = [via EXCEPT ![r] = source]
  /\ data' = Cache!AfterSet(ref[r], version[r])

FallbackOrFail(r) == Goto(r, IF HasFallback THEN "scraping" ELSE "unavailable")

PrimaryAnswered == Breaker!RecordSuccess /\ streak' = 0

-----------------------------------------------------------------------------
(* get_shipment up to its first wait.                                       *)
Start(r) ==
  /\ pc[r] = "idle"
  /\ data' = Cache!AfterGet(ref[r])
  /\ UNCHANGED <<now, breaker, world, ref, streak>>
  /\ \/ /\ Cache!Hit(ref[r])
        /\ version' = [version EXCEPT ![r] = Cache!EntryOf(ref[r]).value]
        /\ via' = [via EXCEPT ![r] = "cache"]
        /\ Finish(r)
        /\ UNCHANGED trials
     \/ /\ ~Cache!Hit(ref[r]) /\ Breaker!Open
        /\ FallbackOrFail(r)
        /\ UNCHANGED <<version, answer, trials>>
     \/ /\ ~Cache!Hit(ref[r]) /\ ~Breaker!Open
        /\ Goto(r, "resolving")
        /\ trials' = IF Breaker!State = "half_open" THEN trials \cup {r} ELSE trials
        /\ UNCHANGED <<version, answer>>

Resolve(r) ==
  /\ pc[r] = "resolving" /\ world[ref[r]] > 0
  /\ Goto(r, "detail")
  /\ UNCHANGED <<now, breaker, data, world, ref, version, answer, streak, trials>>

ReadDetail(r) ==
  /\ pc[r] = "detail"
  /\ version' = [version EXCEPT ![r] = world[ref[r]]]
  /\ Goto(r, "landing")
  /\ UNCHANGED <<now, breaker, data, world, ref, answer, streak, trials>>

RetryingNotFound(r) ==
  /\ pc[r] \in {"resolving", "detail"}
  /\ Goto(r, "resolving")
  /\ PrimaryAnswered
  /\ UNCHANGED <<now, data, world, ref, version, answer, trials>>

(* An empty resolver list, or a 404 from either call: the request fails but
   the upstream is well.                                                    *)
NotFound(r) ==
  /\ pc[r] \in {"resolving", "detail"}
  /\ Goto(r, "not_found")
  /\ PrimaryAnswered
  /\ UNCHANGED <<now, data, world, ref, version, answer, trials>>

FaultyLand(r) ==
  /\ pc[r] = "landing"
  /\ IF Breaker!Open THEN UNCHANGED breaker ELSE Breaker!RecordSuccess
  /\ streak' = 0
  /\ Deliver(r, "json")
  /\ UNCHANGED <<now, world, ref, version, trials>>
(* The detail arrives and parses.                                           *)
Land(r) ==
  /\ pc[r] = "landing"
  /\ PrimaryAnswered
  /\ Deliver(r, "json")
  /\ UNCHANGED <<now, world, ref, version, trials>>

(* UpstreamUnavailableError from either call, or ParseError of the detail.  *)
PrimaryFails(r) ==
  /\ pc[r] \in OnPrimary
  /\ Breaker!RecordFailure
  /\ streak' = streak + 1
  /\ FallbackOrFail(r)
  /\ UNCHANGED <<now, data, world, ref, version, answer, trials>>

(* An exception outside the two taxonomies the service catches, or the
   request's cancellation: the breaker learns nothing.                      *)
Escape(r) ==
  /\ pc[r] \in OnPrimary \cup OnFallback
  /\ Goto(r, "escaped")
  /\ UNCHANGED <<now, breaker, data, world, ref, version, answer, streak, trials>>

FaultyScrape(r) ==
  /\ pc[r] = "scraping"
  /\ version' = [version EXCEPT ![r] = world[ref[r]]]
  /\ Goto(r, "scraped")
  /\ UNCHANGED <<now, breaker, data, world, ref, answer, streak, trials>>
(* A page without the marks of a shipment is an error, never a shipment.     *)
Scrape(r) ==
  /\ pc[r] = "scraping" /\ world[ref[r]] > 0
  /\ version' = [version EXCEPT ![r] = world[ref[r]]]
  /\ Goto(r, "scraped")
  /\ UNCHANGED <<now, breaker, data, world, ref, answer, streak, trials>>

FaultyLandScrape(r) ==
  /\ pc[r] = "scraped"
  /\ Finish(r)
  /\ via' = [via EXCEPT ![r] = "html"]
  /\ UNCHANGED <<now, breaker, data, world, ref, version, streak, trials>>
LandScrape(r) ==
  /\ pc[r] = "scraped"
  /\ Deliver(r, "html")
  /\ UNCHANGED <<now, breaker, world, ref, version, streak, trials>>

(* The fallback's own error reaches the caller and nobody else.             *)
ScrapeFails(r) ==
  /\ pc[r] \in OnFallback
  /\ \/ Goto(r, "unavailable")
     \/ pc[r] = "scraping" /\ world[ref[r]] = 0 /\ Goto(r, "not_found")
  /\ UNCHANGED <<now, breaker, data, world, ref, version, answer, streak, trials>>

-----------------------------------------------------------------------------
(* Upstream gains or updates a shipment.                                    *)
Publish(k) ==
  /\ world[k] < MaxVersion
  /\ world' = [world EXCEPT ![k] = @ + 1]
  /\ UNCHANGED <<now, breaker, data, pc, ref, version, answer, streak, trials>>

Tick ==
  /\ now < MaxTime
  /\ now' = now + 1
  /\ UNCHANGED <<breaker, data, world, pc, ref, version, answer, streak, trials>>

Progress(r) ==
  \/ Resolve(r) \/ ReadDetail(r) \/ NotFound(r) \/ Land(r) \/ PrimaryFails(r)
  \/ Scrape(r) \/ LandScrape(r) \/ ScrapeFails(r)

Next ==
  \/ \E r \in Requests : Start(r) \/ Progress(r) \/ Escape(r)
  \/ \E k \in Refs : Publish(k)
  \/ Tick

Spec == Init /\ [][Next]_vars

(* Every network call returns or times out, and the event loop resumes every
   task whose call has returned.  No request need be cancelled.             *)
FairSpec == Spec /\ \A r \in Requests : WF_vars(Progress(r))

-----------------------------------------------------------------------------
(* Properties *)

Fetched(r) == pc[r] = "shipment" /\ via[r] \in {"json", "html"}

(* A cached answer is one that some request fetched for the same reference
   less than TTL before, even when slow answers overtake fast ones and the
   fallback's answers mix with the primary's.                               *)
FreshAnswers ==
  \A r \in Requests : pc[r] = "shipment" /\ via[r] = "cache" =>
    \E s \in Requests :
      /\ Fetched(s) /\ ref[s] = ref[r] /\ version[s] = version[r]
      /\ ended[s] <= ended[r] /\ ended[r] < ended[s] + TTL

(* The cache carries through an outage: a request for a reference that any
   other request fetched less than TTL ago never goes upstream, also when the
   answer came from the fallback.  (It needs a cache with room for every
   reference in use.)                                                       *)
CacheAbsorbs ==
  [][\A r \in Requests :
       /\ pc[r] = "idle" /\ pc'[r] # "idle"
       /\ \E s \in Requests : Fetched(s) /\ ref[s] = ref[r] /\ now < ended[s] + TTL
       => pc'[r] = "shipment"]_vars

(* A shipment from the primary ends an outage: while the breaker is tripped
   the primary has delivered nothing since it tripped, also no late answer to
   a request sent before or in the half-open state, and the count stands at
   the threshold or above.                                                   *)
RecoveryCloses ==
  /\ Breaker!Consistent
  /\ Breaker!Tripped =>
       \A r \in Requests : pc[r] = "shipment" /\ via[r] = "json" => ended[r] <= openedAt

(* After a streak of Threshold failures no request is sent to the primary
   until the cooldown has passed or the primary has answered one of those
   still on their way.                                                      *)
Shielded ==
  [][\A r \in Requests :
       pc[r] = "idle" /\ pc'[r] = "resolving" =>
         streak < Threshold \/ now >= openedAt + Cooldown]_vars

(* Every call of get_shipment ends.                                         *)
Answered ==
  \A r \in Requests : pc[r] \in OnPrimary \cup OnFallback ~> pc[r] \in Outcomes

(* What callers see of a request, and the copies that the fetched ones made. *)
StageOf(p) ==
  CASE p = "idle" -> "idle"
    [] p \in {"resolving", "detail", "scraping"} -> "asking"
    [] p \in {"landing", "scraped"} -> "holding"
    [] p = "shipment" -> "shown"
    [] OTHER -> "failed"
Stage == [r \in Requests |-> StageOf(pc[r])]
Version == [r \in Requests |-> IF StageOf(pc[r]) \in {"holding", "shown"} THEN version[r] ELSE 0]
Shelf == {[ref |-> ref[r], version |-> version[r], since |-> ended[r]] :
            r \in {s \in Requests : Fetched(s)}}

Lookup == INSTANCE ShipmentLookup WITH stage <- Stage, version <- Version, shelf <- Shelf

(* get_shipment over the in-process cache keeps the promise of ShipmentLookup:
   a shipment is shown because upstream had it while the request waited, or
   because a copy of it less than TTL old was at hand.                      *)
ImplementsLookup == Lookup!Spec

(* What the repository says and the code does not keep *)

(* circuit_breaker.py:6, "after cooldown, one trial request is allowed".    *)
OneTrial ==
  Breaker!State = "half_open" =>
    Cardinality({r \in trials : pc[r] \in OnPrimary}) <= 1

(* html_fallback.py:138-142, a failed page load is mapped to an
   UpstreamUnavailableError so that "the service-layer breaker counts it as a
   failure".                                                                *)
FallbackFailureCounts ==
  [][\A r \in Requests :
       pc[r] \in OnFallback /\ pc'[r] = "unavailable" => failures' = failures + 1]_vars
=============================================================================
