-------------------------------- MODULE Fleet --------------------------------
(***************************************************************************)
(* Several server processes that share the Upstash response cache          *)
(* (shared/upstash_cache.py) under get_shipment, and their life:           *)
(* build_deps, serving, AppDeps.aclose on shutdown, death and restart.     *)
(*                                                                         *)
(* Unlike the in-process cache this one waits: its GET and its SET are     *)
(* HTTP calls that can fail. A SET whose answer is lost is sent again by   *)
(* the Redis client (upstash_redis, with its defaults), and one that timed *)
(* out may still be applied later. Entries outlive the process that wrote  *)
(* them and are read by processes of another release. What the primary,    *)
(* the breaker and the fallback do in between is TrackingService's         *)
(* subject; here one action reads the upstream or fails. No fallback is    *)
(* configured, the default.                                                *)
(***************************************************************************)
EXTENDS Integers, FiniteSets

CONSTANTS
  Pods,        \* server processes
  Release,     \* the release each of them runs
  Requests,    \* calls of get_shipment, each made once
  Refs,        \* tracking references, stripped
  MaxVersion,  \* bound on how often upstream updates a shipment
  MaxTime,     \* bound on the clock
  TTL          \* response_cache_ttl_seconds

ASSUME FleetAssumption ==
  /\ Release \in [Pods -> Nat] /\ "nowhere" \notin Pods
  /\ MaxVersion \in Nat \ {0} /\ MaxTime \in Nat
  /\ TTL \in Nat \ {0}

VARIABLES
  now,      \* Redis's clock
  world,    \* upstream's version of each shipment, 0 when it has none
  store,    \* the Redis keys, Empty or an entry
  pc,       \* where each request waits, or its outcome
  ref,      \* the reference it asks for
  pod,      \* the process that serves it
  version,  \* the version it carries or answered
  late,     \* requests whose SET is still on its way
  gone,     \* requests in progress whose caller has hung up
  phase,    \* the life of each process
  open      \* the connection pools it holds open

request == <<pc, ref, pod, version, gone>>
process == <<phase, open>>
cache   == <<store, late>>
vars == <<now, world, store, pc, ref, pod, version, late, gone, phase, open>>

Empty   == [version |-> 0, release |-> 0, expires |-> 0]
Nowhere == "nowhere"

Pools  == {"client", "cache", "tokens"}
Waits  == {"reading", "fetching", "saving"}
Ends   == {"shipment", "rejected", "error", "raised", "escaped", "lost"}
Phases == {"down", "serving", "closing_client", "closing_cache", "closing_tokens",
           "closed", "aborted"}

TypeOK ==
  /\ now \in 0..MaxTime
  /\ world \in [Refs -> 0..MaxVersion]
  /\ store \in [Refs -> {Empty} \cup
       [version : 1..MaxVersion, release : Nat, expires : 0..(MaxTime + TTL)]]
  /\ pc \in [Requests -> {"idle"} \cup Waits \cup Ends]
  /\ ref \in [Requests -> Refs]
  /\ pod \in [Requests -> Pods \cup {Nowhere}]
  /\ \A r \in Requests : pc[r] \in Waits \/ r \in late <=> pod[r] \in Pods
  /\ version \in [Requests -> 0..MaxVersion]
  /\ late \in SUBSET Requests /\ gone \in SUBSET Requests
  /\ phase \in [Pods -> Phases]
  /\ open \in [Pods -> SUBSET Pools]

Init ==
  /\ now = 0
  /\ world \in [Refs -> {0, 1}]
  /\ store = [k \in Refs |-> Empty]
  /\ pc = [r \in Requests |-> "idle"]
  /\ ref \in [Requests -> Refs]
  /\ pod = [r \in Requests |-> Nowhere]
  /\ version = [r \in Requests |-> 0]
  /\ late = {} /\ gone = {}
  /\ phase = [p \in Pods |-> "down"]
  /\ open = [p \in Pods |-> {}]

-----------------------------------------------------------------------------
(* One call of get_shipment *)

Goto(r, p) == pc' = [pc EXCEPT ![r] = p]
Up(r, pool) == pool \in open[pod[r]]

(* The call returns or raises, and its task is forgotten.                   *)
End(r, outcome) ==
  /\ Goto(r, outcome)
  /\ pod' = [pod EXCEPT ![r] = Nowhere]
  /\ gone' = gone \ {r}

(* The tool checks its argument before it asks the service.                 *)
Reject(r) ==
  /\ pc[r] = "idle"
  /\ Goto(r, "rejected")
  /\ UNCHANGED <<now, world, cache, ref, pod, version, gone, process>>

Arrive(r, p) ==
  /\ pc[r] = "idle" /\ phase[p] = "serving"
  /\ pod' = [pod EXCEPT ![r] = p]
  /\ Goto(r, "reading")
  /\ UNCHANGED <<now, world, cache, ref, version, gone, process>>

(* SET ... EX: an expired entry is gone on the next GET.                     *)
FaultyLive(k) == store[k] # Empty
Live(k) == store[k] # Empty /\ now < store[k].expires

(* Models forbid unknown fields, so an entry of a newer release does not
   decode; older ones do, new fields having defaults.                       *)
Decodes(p, k) == store[k].release <= Release[p]

Hit(r) ==
  /\ pc[r] = "reading" /\ Up(r, "cache")
  /\ Live(ref[r]) /\ Decodes(pod[r], ref[r])
  /\ version' = [version EXCEPT ![r] = store[ref[r]].version]
  /\ End(r, "shipment")
  /\ UNCHANGED <<now, world, cache, ref, process>>

(* Nothing there, a read that failed, a pool already closed or an entry that
   does not decode: all alike a miss.                                       *)
Miss(r) ==
  /\ pc[r] = "reading"
  /\ Goto(r, "fetching")
  /\ UNCHANGED <<now, world, cache, ref, pod, version, gone, process>>

FaultyFetch(r) ==
  /\ pc[r] = "fetching" /\ Up(r, "client")
  /\ version' = [version EXCEPT ![r] = world[ref[r]]]
  /\ Goto(r, "saving")
  /\ UNCHANGED <<now, world, cache, ref, pod, gone, process>>
Fetch(r) ==
  /\ pc[r] = "fetching" /\ Up(r, "client") /\ world[ref[r]] > 0
  /\ version' = [version EXCEPT ![r] = world[ref[r]]]
  /\ Goto(r, "saving")
  /\ UNCHANGED <<now, world, cache, ref, pod, gone, process>>

(* The client refuses, the reference is unknown, the upstream is down or the
   breaker open; or the detail arrives and parse_detail raises an error that
   the service does not map.  Nor does anybody map the RuntimeError that
   httpx makes of a closed client.                                          *)
FetchFails(r) ==
  /\ pc[r] = "fetching"
  /\ \/ End(r, "error")
     \/ Up(r, "client") /\ End(r, "raised")
     \/ ~Up(r, "client") /\ End(r, "escaped")
  /\ UNCHANGED <<now, world, cache, ref, version, process>>

(* SET is applied, with a life of TTL from now.                             *)
Stored(r) ==
  store' = [store EXCEPT ![ref[r]] =
    [version |-> version[r], release |-> Release[pod[r]], expires |-> now + TTL]]

Save(r) ==
  /\ pc[r] = "saving" /\ Up(r, "cache")
  /\ Stored(r)
  /\ End(r, "shipment")
  /\ UNCHANGED <<now, world, late, ref, version, process>>

(* Applied, and to be sent again or given up.                               *)
SaveAnswerLost(r) ==
  /\ pc[r] = "saving" /\ Up(r, "cache")
  /\ Stored(r)
  /\ UNCHANGED <<now, world, late, ref, version, pc, pod, gone, process>>

(* A write that fails is swallowed; one that timed out is still on its way. *)
SaveFails(r) ==
  /\ pc[r] = "saving"
  /\ \/ End(r, "shipment") /\ UNCHANGED late
     \/ /\ Up(r, "cache")
        /\ Goto(r, "shipment")
        /\ gone' = gone \ {r}
        /\ late' = late \cup {r}
        /\ UNCHANGED pod
  /\ UNCHANGED <<now, world, store, ref, version, process>>

LateSave(r) ==
  /\ r \in late
  /\ late' = late \ {r}
  /\ Stored(r)
  /\ pod' = [pod EXCEPT ![r] = Nowhere]
  /\ UNCHANGED <<now, world, pc, ref, version, gone, process>>

(* The caller hangs up; the tool call goes on in the session manager's task
   group.                                                                   *)
HangUp(r) ==
  /\ pc[r] \in Waits /\ r \notin gone
  /\ gone' = gone \cup {r}
  /\ UNCHANGED <<now, world, cache, pc, ref, pod, version, process>>

-----------------------------------------------------------------------------
(* One process *)

OnPod(p) == {r \in Requests : pod[r] = p /\ pc[r] \in Waits}

MoveOn(p, q) == phase' = [phase EXCEPT ![p] = q]

Boot(p) ==
  /\ phase[p] = "down"
  /\ MoveOn(p, "serving")
  /\ open' = [open EXCEPT ![p] = Pools]
  /\ UNCHANGED <<now, world, cache, request>>

FaultyStop(p) ==
  /\ phase[p] = "serving"
  /\ MoveOn(p, "closing_client")
  /\ UNCHANGED <<now, world, cache, request, open>>
(* The server has waited for every connection to end before the lifespan
   ends; only calls nobody waits for are still there.                       *)
Stop(p) ==
  /\ phase[p] = "serving" /\ OnPod(p) \subseteq gone
  /\ MoveOn(p, "closing_client")
  /\ UNCHANGED <<now, world, cache, request, open>>

(* AppDeps.aclose: the client, the service's cache, the token store.         *)
Closes == [closing_client |-> "client", closing_cache |-> "cache", closing_tokens |-> "tokens"]
FaultyThen ==
  [closing_client |-> "closing_tokens", closing_cache |-> "closing_tokens",
   closing_tokens |-> "closed"]
Then ==
  [closing_client |-> "closing_cache", closing_cache |-> "closing_tokens",
   closing_tokens |-> "closed"]

Close(p) ==
  /\ phase[p] \in DOMAIN Closes
  /\ open' = [open EXCEPT ![p] = @ \ {Closes[phase[p]]}]
  /\ MoveOn(p, Then[phase[p]])
  /\ UNCHANGED <<now, world, cache, request>>

(* A close that raises ends the shutdown there.                             *)
CloseRaises(p) ==
  /\ phase[p] \in DOMAIN Closes
  /\ MoveOn(p, "aborted")
  /\ UNCHANGED <<now, world, cache, request, open>>

(* The process ends, after its shutdown or by force; what it was doing is
   lost and the system takes its connections.  Redis keeps what it has.     *)
Die(p) ==
  /\ phase[p] # "down"
  /\ MoveOn(p, "down")
  /\ open' = [open EXCEPT ![p] = {}]
  /\ pc' = [r \in Requests |-> IF r \in OnPod(p) THEN "lost" ELSE pc[r]]
  /\ pod' = [r \in Requests |-> IF r \in OnPod(p) THEN Nowhere ELSE pod[r]]
  /\ gone' = gone \ OnPod(p)
  /\ UNCHANGED <<now, world, cache, ref, version>>

-----------------------------------------------------------------------------
Publish(k) ==
  /\ world[k] < MaxVersion
  /\ world' = [world EXCEPT ![k] = @ + 1]
  /\ UNCHANGED <<now, cache, request, process>>

Tick ==
  /\ now < MaxTime
  /\ now' = now + 1
  /\ UNCHANGED <<world, cache, request, process>>

Progress(r) ==
  \/ Hit(r) \/ Miss(r) \/ Fetch(r) \/ FetchFails(r)
  \/ Save(r) \/ SaveAnswerLost(r) \/ SaveFails(r)

Closing(p) == Close(p) \/ CloseRaises(p)

Next ==
  \/ \E r \in Requests : Reject(r) \/ Progress(r) \/ LateSave(r) \/ HangUp(r)
  \/ \E r \in Requests, p \in Pods : Arrive(r, p)
  \/ \E p \in Pods : Boot(p) \/ Stop(p) \/ Closing(p) \/ Die(p)
  \/ \E k \in Refs : Publish(k)
  \/ Tick

Spec == Init /\ [][Next]_vars

-----------------------------------------------------------------------------
(* Properties *)

(* The cache is an optimisation and shutdown is orderly: what goes wrong with
   the cache (an outage, a closed pool, an entry of another release) and with
   a client that is closed too early never reaches somebody who still waits.
   Errors of the payload ("raised") do: they are the subject of Payloads.   *)
OnlyTheGoneEscape ==
  [][\A r \in Requests : pc[r] \in Waits /\ pc'[r] = "escaped" => r \in gone]_vars

(* A shutdown that ran to its end has closed every pool, unless the close of
   an earlier one raised.                                                   *)
LeftOpenOnlyByFailure ==
  \A p \in Pods : phase[p] = "closed" => open[p] = {}

StageOf(p) ==
  CASE p = "idle" -> "idle"
    [] p \in {"reading", "fetching"} -> "asking"
    [] p = "saving" -> "holding"
    [] p = "shipment" -> "shown"
    [] OTHER -> "failed"
Stage == [r \in Requests |-> StageOf(pc[r])]
Version == [r \in Requests |-> IF StageOf(pc[r]) \in {"holding", "shown"} THEN version[r] ELSE 0]
Shelf == {[ref |-> k, version |-> store[k].version, since |-> store[k].expires - TTL] :
            k \in {l \in Refs : store[l] # Empty}}

Lookup == INSTANCE ShipmentLookup WITH stage <- Stage, version <- Version, shelf <- Shelf

(* The same promise as with the in-process cache, although writes of several
   processes overtake each other, arrive late or are lost, and entries
   outlive the process that made them.                                      *)
ImplementsLookup == Lookup!Spec
=============================================================================
