# db2st-mcp in TLA+

db2st-mcp is a small Python server that answers "where is my DB Schenker / DSV
shipment?" over MCP. This directory models the parts of it where order, failure
and concurrency decide whether it is correct, checks the models with TLC and
proves the main results with TLAPS. Paths below are relative to
`src/db2st_mcp/`.

## Inventory

| Component | State | Operations | Talks to |
|---|---|---|---|
| Bearer middleware, `domains/auth/server/middleware.py` | none between requests | header check, lookup, day stamp, consume, response | a token store |
| Upstash token store, `domains/auth/server/upstash_store.py` | Redis: `token:hash`, `token:id`, `quota:<id>:<day>` | lookup, consume, mint, revoke, list | Redis over HTTP, shared by every process and the CLI |
| In-memory token store, `domains/auth/server/store.py` | `_by_hash`, `_counters` | the same | nobody; dies with the process |
| Command line, `apps/server/cli.py` | none | mint, tokens revoke, tokens list, serve, stdio | the token store, from its own process |
| Tracking service, `domains/tracking/server/service.py` | its cache, breaker and fallback | get_shipment | cache, breaker, client, parser, fallback |
| Response cache, `shared/cache.py` | an OrderedDict | get, set | the service |
| Shared response cache, `shared/upstash_cache.py` | Redis keys with EX | get, set, aclose | Redis over HTTP |
| Circuit breaker, `shared/circuit_breaker.py` | failure count, trip time | open, record_success, record_failure | the service |
| Upstream client, `domains/tracking/server/schenker_client.py` | XSRF token, lock, semaphore | resolve, fetch_detail, _prime_xsrf, _get_json | the DSV portal |
| Parser, `domains/tracking/server/parser.py` | none | parse_resolver, parse_detail | pure |
| HTML fallback, `domains/tracking/server/html_fallback.py` | none (a browser per call) | fetch | the portal's page |
| Drift detector, `shared/drift.py` | `_seen` | check | log only |
| Wiring and lifecycle, `apps/server/main.py`, `dependencies.py`, `middleware.py` | the singletons | build, aclose, request ids | everything |
| MCP tools, `apps/server/mcp_app.py`, `domains/tracking/server/tool.py` | none | argument checks | the service |
| Settings, errors, logging, tracing, `shared/` | process settings | - | - |

What is hard in it:

* **Auth over Redis** has no transactions: INCR, EXPIRE and two GETs are separate
  HTTP calls, any of which can fail before or after it is applied, while other
  processes, an operator and midnight interleave. It is correct when no token is
  over-admitted on a UTC day, no 429 comes before the day's limit is drawn, and a
  revocation holds.
* **get_shipment** reads the cache and the breaker before it waits for the network
  and reports to them afterwards: results arrive late and out of order. It is
  correct when the breaker shields the upstream while it is down and closes once it
  answers, cached answers are fresh, and everybody is answered.
* **The upstream client** shares one cookie, one lock and one semaphore among
  concurrent calls that can be cancelled at any wait. It is correct when nothing
  leaks, load is bounded, the cookie is loaded once and every call ends.
* **The caches** must stay bounded, evict what is least used, and not serve what
  has expired.
* **The shared cache** is Redis: its writes can be lost or applied late, and its
  entries outlive processes and releases. It is correct when nobody can tell it
  from a private one, except by what it has forgotten.
* **Parsing** must tell events in order and once, keep sender and receiver apart,
  and fail only in ways the service knows, whatever the payload; **shutdown** must
  close everything without failing a call somebody waits for.

## Modules

| Module | Models | Its state and the code's |
|---|---|---|
| `QuotaGate` | what authentication promises, without any store | the requests themselves; the quota is counted over the admitted ones |
| `BearerAuth` | middleware + Upstash store + operator | `record`/`index`/`count`/`expiry` are the Redis keys, `pc` is the await a request is at, `day`/`ticket` its locals |
| `MemoryTokenStore` | middleware + in-memory store | `byHash`, `counters` |
| `TTLCache` | the cache's operations, as operators on `data` | `data` is the OrderedDict, least recent first |
| `ExpiringMap` | what a cache may answer | an expiring map that may forget |
| `ResponseCache` | `TTLCache` used in any order, with history | adds `reply`, `latest`, `since` |
| `CircuitBreaker` | the breaker's operations | `failures` = `_failures`, `openedAt` = `_opened_at` |
| `ShipmentLookup` | what get_shipment promises, whichever cache is behind it | the upstream's versions, the copies made of them and what callers were shown |
| `TrackingService` | get_shipment, with `TTLCache` and `CircuitBreaker` as instances over its own variables, the client's two calls and the fallback's page load | `pc` is the await a request is at; `version` stands for the shipment's content |
| `Fleet` | get_shipment over the shared Redis cache in several processes, and their life: build_deps, lifespan, AppDeps.aclose, death, restart | `store` is the Redis keys, `phase` and `open` what AppDeps holds, `gone` the callers who hung up |
| `SchenkerClient` | _get_json with lock, semaphore and cookie | `lockq`, `slots`, `slotq` are the waiters and holders asyncio keeps |
| `Timeline` | list.sort and list comprehensions, by the place each element goes to | used by the next two |
| `Parser` | resolver and detail payloads, with every alias and default | operators on JSON values |
| `HtmlFallback` | a rendered page: sections, statuses, events, package | operators on the page's pieces |
| `Payloads` | the service's three readings, each of any input | `input`, `output` |
| `SequenceLemmas` | lemmas on taking an element out of a sequence | |
| `BearerAuthProofs`, `MemoryTokenStoreProofs`, `TrackingServiceProofs`, `FleetProofs`, `ResponseCacheProofs`, `SchenkerClientProofs`, `PayloadsProofs` | theorems | |
| `MC*` | instances for TLC | |

An action is the code between two awaits that really give up control. With Redis
or HTTP behind it an await is a step; `TTLCache`, the breaker and the in-memory
store never wait, so calls of theirs are part of the step that makes them. Where
a command's answer can be lost after it took effect there is an action for that
(`MintAnswerLost`, `RevokeAnswerLost`, `IncrAnswerLost`, `ExpireAnswerLost`,
`SaveAnswerLost`, `LateSave`). Cancellation of a request or the death of a server process
between two commands looks to the token store like a failed command.

Both uses of Redis go through `upstash_redis`, whose source is not in this
repository. The models rest on what is known of it as `Redis(url, token)` sets it
up (`upstash_store.py:43`): a command that gets no answer is sent once more and then
fails. A GET, a SET or an EXPIRE does no more the second time. INCR counts again,
so one request may draw two units, and be told 2 where its first draw was the 1
that makes the key (`IncrAnswerLost`, the stage `reincr`, and `drawn` beside
`ticket`).

How they compose: `TrackingService` is one process with everything it owns and
leaves the cache's waits out, because the in-process cache has none; `Fleet` is
several processes around the cache that does wait and reduces the primary, the
breaker and the fallback to one read that answers or fails. Both are shown to
implement `ShipmentLookup`. What a shipment consists of is `Payloads`' subject.

Abstractions: a token's id, hash and secret are one model value; a shipment is
its reference and the version of it upstream had; a status line, log, body or
format is left out. A JSON text is a blank, a date, a number or a word, and a page
is the sequence of pieces its regular expressions see (with underscores for the
spaces of a status phrase). Time is in half days in the
auth modules, because the two durations that matter are the UTC day and the 36
hours of a quota key, and in abstract units elsewhere. The operators `Faulty...`
and the few other variants next to a definition are what the definition would be
with a plausible mistake in it; nothing uses them but the mutation runs listed in
`PROJECT.json`.

## Runs

| Run | Instance | Shows |
|---|---|---|
| `auth_quota` | 3 requests, 1 token, limit 2, 4 half days; each request may draw twice | safety of the Upstash path, the inductive invariant, refinement of `QuotaGate` |
| `auth_502` | 2 requests | *violated*: a store failure is not mapped to a response |
| `memory` | 3 requests, 2 tokens, limits 2 and 1, restarts | the in-memory store's meter, countdown, refusals and refinement |
| `cache` | 3 keys, 2 values, room for 2 | bound, LRU, freshness, refinement of `ExpiringMap` |
| `tracking` | 3 requests for one reference, fallback, threshold, cooldown and TTL of 2, upstream updates, fairness | cached answers are fresh and absorb requests, the breaker shields and closes on recovery, refinement of `ShipmentLookup`, every call ends |
| `tracking_trial` | 3 requests | *violated*: one trial request when half-open |
| `tracking_fallback` | 2 requests | *violated*: the breaker counts a failure of the fallback |
| `fleet` | 3 requests, 2 processes of 2 releases, TTL 1 | shutdown closes everything, neither it nor the cache fails a waiting caller, refinement of `ShipmentLookup` |
| `client` | 4 calls, 2 permits, 2 cookies, fairness | bounded load, no leaks, one priming, every call ends |
| `client_cookie` | 2 calls, 2 cookies | *violated*: an expired cookie is refreshed |
| `payloads` | some 16,000 payloads and pages | the resolver's wrappings agree, gaps cost no shipment, histories are complete, the cap drops the oldest, parties and statuses are not mixed up |
| `payloads_taxonomy` | the same inputs | *violated*: a detail payload fails with a `ParseError` or not at all |

**Bounds.** The number of requests, the clock (`MaxSlot`, `MaxTime`), the
upstream's updates (`MaxVersion`) and the portal's cookies (`MaxCookie`) are
bounded. Three requests are the fewest with which a counter can be drawn, expire
and be drawn again while a third is between two commands; four half days are two
UTC days and the expiry of the first day's key. Two failures and one late success
or late failure exercise every order in which the breaker can be told; with three
requests nobody is left to come after a second trip, so a clock that reaches one
cooldown and one TTL is enough. Requests for different references meet only in
the breaker and in the cache's evictions, which `cache` and the proofs cover. In
`fleet` one process writes, another reads, and a third write can arrive late; the
instant at which a copy expires is reached. `payloads` combines, for each question,
all the fields that decide it, with histories of up to four events and a cap of 2
for the code's 30. `BearerAuth` has one more bound that matters to what it says: no
request lasts beyond the half day after the one it came in (12 hours). With longer
requests a stale INCR could re-create an expired key. The client's second sending of a command falls within the same bound: it comes after
some seconds. Deadlock is not checked where requests are made once each: when all
are done the system rightly stops.

**Symmetry** is used for requests, keys and values in runs without liveness
properties; no property singles one out. `tracking` has none. Two runs have a
**view**, which makes one state of those that differ only in what no action and
no property looks at again: in `auth_quota` the half day in which an already
answered request came (`arrived` is read for requests in flight only), in `fleet`
how a request failed and which version an answered one was shown (both are judged
by action properties in the step that sets them, and TLC judges every step, also
one that leads to a state it has seen).

**Fairness**, in `tracking` and `client`. Weak fairness of each request's own
progress: a call or a page load returns or times out (httpx and Playwright have
timeouts), and the event loop resumes every task that is ready. No fairness is
assumed of arrivals, cancellation, upstream's updates or particular outcomes: a
call may fail for ever.
In `SchenkerClient` the lock and the semaphore serve their waiters in order, as
asyncio's do, which is what makes weak fairness enough.

## Proofs

All for any number of requests, tokens, references, processes and calls, any limits
and any length of run; the assumptions are the constants' types
(`ConstantsAssumption`, `MemoryAssumption`, `TrackingAssumption`,
`FleetAssumption`, `CacheAssumption` and `RunAssumption`, `ClientAssumption`,
`FallbackAssumption`, and for the inputs of `Payloads` `ResolverAssumption`,
`DetailAssumption` and `PageAssumption`: a JSON list and a page are finite sequences,
a date has an instant, and a regular expression that finds a date or a time finds
its three or two numbers). TLC evaluates each of them in a run. One theorem,
`CacheCarriesOutages`, has a hypothesis of its own: finitely many references, no
more than `MaxSize`. Without it eviction may drop what was fetched a moment ago.

* `BearerAuthProofs`: `IInv` is inductive, in four layers. (1) *Shape*: a request
  gets to the quota only with a found token, a day, and from INCR on a ticket.
  (2) *Timing*: a request draws on a day it was in flight on (`Timely`), and a
  key's 36 hours from its first INCR reach 12 hours into the next day
  (`KeyOutlivesDay`); so no key expires before the last INCR of its day. (3)
  *Tickets*: therefore the key counts every ticket of its day (`TicketsCounted`), a
  new one is above all others (`BumpDistinct`), and tickets are distinct; this is
  why a TTL no shorter than 36 hours is needed. (4) *Revocation*: mint writes a
  record once, so a revoked record stays revoked. `QuotaIsRespected` follows by
  counting: admitted requests of a token and day map one to one into `1..Limit`.
  `RefusalsAreEarned` counts the other way: units have no gaps below them
  (`Gapless`), an issued token's index and record stay (`Overdrawn`), so below a
  refused ticket every unit up to `Limit` was drawn, by requests that were not
  refused on it. It does not say that so many *others* came: a request whose INCR
  was sent twice drew two of them. `LeaksOnlyByLoss` carries a witness along:
  whoever drew unit 1.
  `StoreImplementsGate` is the refinement: a step is `Issue`, `Revoke`, `Ask`,
  `PassOpen`, `Admit`, `Refuse`, `Tick` or invisible.
* `MemoryTokenStoreProofs`: the invariant (remainders already told lie above what
  the counter leaves), `MeterIsExact`, from it `RefusalsAreEarned` and
  `RemaindersCountDown`, and the refinement with restarts.
* `TrackingServiceProofs`: `PrimaryIsShielded` from the breaker alone (its count is
  the primary's failures since it last answered, `CountIsStreak`);
  `RecoveryClosesBreaker` adds `Quiet`: a trip comes after every answer given so
  far, and any later one undoes it, whichever state its request was sent in;
  `CachedAnswersAreFresh` from `LookupInv`: every entry of the cache
  is the copy of a fetch that has ended, with its life counted from that end
  (`Backed`), and whoever reads the detail was resolved (`Located`). With it
  `ServiceImplementsLookup`, step by step, and `TypeCorrect`.
  `CacheCarriesOutages` needs the converse of `Backed`, `ShelterInv`: the cache has
  one entry per reference (`Apart`), and the copy of every fetch is there until its
  TTL is over, or a later one that lives longer (`Sheltered`). A get only removes
  what has expired; a set evicts only from a cache that is over its size, which one
  entry per reference can never be when there is room for all references: this is
  where the hypothesis is used, by counting.
* `FleetProofs`: `Orderly` (a process that serves has all its pools, one that
  closes has lost them in order, and only abandoned calls are left on it) gives
  `ShutdownIsComplete` and `OnlyTheGoneSeeShutdown`. `FleetImplementsLookup` reads
  the shelf of copies off Redis itself (an entry was made TTL before it expires),
  so every SET, second, late or foreign, has to be a copy its writer really held.
* `ResponseCacheProofs`: `CacheInv` says what the sequence is: one entry per key, no
  more than `MaxSize`, each the latest value set (`Faithful`), in order of use
  (`Recency`). LRU eviction follows by counting the keys after an entry, and the
  refinement from `Faithful`.
* `SchenkerClientProofs`: `ClientInv` ties each queue and permit to the calls whose
  `pc` says they are in it, without repeats (`Queues`), and the primer to the head
  of the lock's queue (`PrimerHolds`). `LoadIsBounded` follows: at most
  `MaxConcurrency` JSON requests hold a permit, and one page load is outside the
  semaphore.
* `PayloadsProofs`: `Reading` (the output is nothing yet, or what its input reads as)
  is the invariant; the work is in the lemmas. A sort or a choice of elements is an
  order of places (`ArrangedOrders`): every place goes to the number of those before
  it, which is one to one because no two places are level, and onto by counting. So
  no induction is needed for lists of any length. From it follow `HistoryComplete`
  (the chosen entries, sorted, are reached by a bijection that keeps level entries in
  order), `NewestHistory` (a cut after the sort loses only what is older) and
  `FirstNamedPreferred`. `WrappingIrrelevant` compares the ways to a list (an empty
  one gives way to the next name); `GapsTolerated` follows each
  number and date that raises back through the aliases to the value in the payload;
  `StatusNamed` uses the order of the keywords, `PartiesSeparate` where a section
  ends. `InstantsFollowCalendar` and `RoundsToNearestEven` say that the integers and
  the rounding of the model are the calendar's and the decimal module's.

Every invariant and action property of the passing runs is thus proved. Only
model-checked: liveness (`Answered` and `Completed`), because the prover has neither
fairness nor ENABLED; and the five runs that find a violation, whose traces are
their result. Not proved at all: the `address` regular expression, the package of a
page beyond its rounding, and parties on pages where labels repeat or come in
another order, which `PartiesApart` does not speak of.

## Where the code and its documentation disagree

Five of these have a run that shows the trace:

* after the cooldown *every* request is let through until one reports
  (`tracking_trial`; `circuit_breaker.py:6` promises one);
* failures of the fallback are not counted by the breaker (`tracking_fallback`;
  `html_fallback.py:138-142` and `tracking/DOMAIN.md:108-109` say they are);
* a payload that mixes times with and without a zone, or has a number that is not
  finite, ends in an exception the service does not catch (`payloads_taxonomy`;
  `tracking/DOMAIN.md:95` says a parse that raises is a `ParseError`, `parser.py:8`
  that missing pieces surface as None; `ToleratesGaps` says nothing else fails);
* an unreachable token store ends in an unmapped exception (`auth_502`;
  `upstash_store.py:66-69` promises a clean 502);
* a cookie the portal retired is sent for the life of the process
  (`client_cookie`; `docs/UPSTREAM.md:87-88` says it is primed again).

Others follow from properties that hold, or were met while reading:

* a quota key is left without a TTL when its maker fails between INCR and EXPIRE, or
  never hears that it drew the 1, and may then be admitted (`LeakOnlyByLoss` says
  there is no other way; `upstash_store.py:9` says TTL 36h, and line 85 that the TTL
  is set on the first write);
* one request can use two units of quota when the client sends its INCR again
  (`NoEarlyRefusal` allows it; `middleware.py:3` says it consumes one);
* a 404 of the detail path, as after a rename, ends the request and counts as a
  success (`NotFound` of `TrackingService`; `docs/UPSTREAM.md:100` expects the
  fallback, and `parser.py:80-81` that the resolver's other candidates are tried);
* an open breaker closes inside its cooldown when a request sent earlier succeeds
  (`circuit_breaker.py:3` draws open -> half-open -> closed; `Shielded` allows it);
* `tokens revoke` reports success for a token whose mint stopped before the index
  was written; nobody was given that token's secret;
* the JSON path returns events oldest first, as `HistoryFaithful` says, and the
  fallback newest first (`NewestFirst` of `HtmlFallback`); `mcp_app.py:95`,
  `tool.py:63-64` and `tracking/DOMAIN.md:12` say chronological of both.
  `NewestKept` takes no side: it speaks of what is kept, not of the order;
* a close that raises leaves the pools after it open (`LeftOpenOnlyByFailure`
  leaves that case out; `dependencies.py:37` says every dependency is released);
* a browser that cannot be launched raises past the fallback's error mapping
  (`html_fallback.py:120`), which `TrackingService` has as `Escape`;
* the drift detector fingerprints two levels of keys where its docstring speaks of
  the top-level ones.

## Not modelled

* **Schema drift detector**: the shapes it has seen decide between two log lines;
  nothing reads them.
* **Settings, error classes, logging, tracing, request ids**: no state that a
  property would be about. Which store or cache is built is a choice of settings;
  each choice has its module.
* **Scripts and deployment files**: documentation checks, smoke and load tests and
  manifests around the program.
* **Of the HTML fallback** the browser itself and the location and description of
  an event; **of the MCP tools** registration, transport security and wording.
* **`tokens list` and `aclose` of the token store** change nothing in a store.

## Plan

Done: all modules above, their runs and proofs. Left, should the code change: a
breaker that admits one trial and a client that primes again would each turn a
violated run into a property that holds, and the reading of event locations would
extend `HtmlFallback`.
