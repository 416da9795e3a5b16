----------------------------- MODULE FleetProofs -----------------------------
(***************************************************************************)
(* Proofs about Fleet for any number of processes, releases, requests and  *)
(* references, any life of an entry, and any run length.                   *)
(***************************************************************************)
EXTENDS Fleet, TLAPS

USE FleetAssumption

-----------------------------------------------------------------------------
(* Types *)

(* A request that has a SET to make, or one under way, carries a shipment,
   and one whose SET is still under way has answered.                       *)
Carrying ==
  \A r \in Requests :
    /\ pc[r] = "saving" => version[r] > 0
    /\ r \in late => pc[r] = "shipment" /\ version[r] > 0

TypeInv == TypeOK /\ Carrying

(* Types hold in every run.                                                 *)
LEMMA TypeInvariant == Spec => []TypeInv
<1> USE DEF TypeInv, TypeOK, Carrying, Waits, Ends, Phases, Pools, Nowhere
<1>1. Init => TypeInv
  BY DEF Init, Empty
<1>2. TypeInv /\ [Next]_vars => TypeInv'
  <2> SUFFICES ASSUME TypeInv, [Next]_vars
               PROVE  TypeInv'
    OBVIOUS
  <2> USE DEF request, process, cache, Goto, End, Up
  <2>1. ASSUME NEW r \in Requests, Reject(r)
        PROVE  TypeInv'
    BY <2>1 DEF Reject
  <2>2. ASSUME NEW r \in Requests, NEW p \in Pods, Arrive(r, p)
        PROVE  TypeInv'
    BY <2>2 DEF Arrive
  <2>3. ASSUME NEW r \in Requests, Hit(r)
        PROVE  TypeInv'
    BY <2>3 DEF Hit, Live, Empty
  <2>4. ASSUME NEW r \in Requests, Miss(r)
        PROVE  TypeInv'
    BY <2>4 DEF Miss
  <2>5. ASSUME NEW r \in Requests, Fetch(r)
        PROVE  TypeInv'
    BY <2>5 DEF Fetch
  <2>6. ASSUME NEW r \in Requests, FetchFails(r)
        PROVE  TypeInv'
    BY <2>6 DEF FetchFails
  <2>7. ASSUME NEW r \in Requests, Save(r)
        PROVE  TypeInv'
    BY <2>7 DEF Save, Stored
  <2>a. ASSUME NEW r \in Requests, SaveAnswerLost(r)
        PROVE  TypeInv'
    BY <2>a DEF SaveAnswerLost, Stored
  <2>8. ASSUME NEW r \in Requests, SaveFails(r)
        PROVE  TypeInv'
    <3>1. pc[r] = "saving" /\ pc' = [pc EXCEPT ![r] = "shipment"] /\ gone' = gone \ {r}
      BY <2>8 DEF SaveFails
    <3>2. \/ pod' = [pod EXCEPT ![r] = Nowhere] /\ late' = late
          \/ pod' = pod /\ late' = late \cup {r}
      BY <2>8 DEF SaveFails
    <3>3. UNCHANGED <<now, world, store, ref, version, phase, open>>
      BY <2>8 DEF SaveFails
    <3> QED
      BY <3>1, <3>2, <3>3
  <2>9. ASSUME NEW r \in Requests, LateSave(r)
        PROVE  TypeInv'
    <3>1. /\ r \in late /\ pc[r] = "shipment" /\ pod[r] \in Pods /\ version[r] \in 1..MaxVersion
          /\ late' = late \ {r} /\ pod' = [pod EXCEPT ![r] = Nowhere]
          /\ UNCHANGED <<now, world, pc, ref, version, gone, phase, open>>
      BY <2>9 DEF LateSave
    <3>2. store' \in [Refs -> {Empty} \cup
            [version : 1..MaxVersion, release : Nat, expires : 0..(MaxTime + TTL)]]
      BY <2>9, <3>1 DEF LateSave, Stored
    <3> QED
      BY <3>1, <3>2
  <2>10. ASSUME NEW r \in Requests, HangUp(r)
         PROVE  TypeInv'
    BY <2>10 DEF HangUp
  <2>11. ASSUME NEW p \in Pods, Boot(p) \/ Stop(p) \/ CloseRaises(p)
         PROVE  TypeInv'
    <3>1. phase' \in [Pods -> Phases]
      BY <2>11 DEF Boot, Stop, CloseRaises, MoveOn, Closes
    <3>2. open' \in [Pods -> SUBSET Pools]
      BY <2>11 DEF Boot, Stop, CloseRaises
    <3>3. UNCHANGED <<now, world, store, pc, ref, pod, version, late, gone>>
      BY <2>11 DEF Boot, Stop, CloseRaises
    <3> QED
      BY <3>1, <3>2, <3>3
  <2>12. ASSUME NEW p \in Pods, Close(p)
         PROVE  TypeInv'
    BY <2>12 DEF Close, MoveOn, Closes, Then
  <2>13. ASSUME NEW p \in Pods, Die(p)
         PROVE  TypeInv'
    BY <2>13 DEF Die, MoveOn, OnPod
  <2>14. ASSUME NEW k \in Refs, Publish(k)
         PROVE  TypeInv'
    BY <2>14 DEF Publish
  <2>15. CASE Tick
    BY <2>15 DEF Tick
  <2>16. CASE UNCHANGED vars
    BY <2>16 DEF vars
  <2> QED
    BY <2>1, <2>2, <2>3, <2>4, <2>5, <2>6, <2>7, <2>a, <2>8, <2>9, <2>10, <2>11, <2>12, <2>13, <2>14,
       <2>15, <2>16 DEF Next, Progress, Closing
<1>3. QED
  BY <1>1, <1>2, PTL DEF Spec

(* Every variable keeps its type: in particular every key of the store that
   is not empty holds a shipment, and exactly the requests in progress, or
   with a SET under way, have a process.                                    *)
THEOREM TypeCorrect == Spec => []TypeOK
  BY TypeInvariant, PTL DEF TypeInv

-----------------------------------------------------------------------------
(* Shutdown *)

(* A process that serves has all its pools; one that does not has only calls
   nobody waits for.  The pools are closed in their order.                  *)
Orderly ==
  \A p \in Pods :
    /\ phase[p] = "serving" => open[p] = Pools
    /\ phase[p] # "serving" => \A r \in Requests : pod[r] = p /\ pc[r] \in Waits => r \in gone
    /\ phase[p] \in {"closing_cache", "closing_tokens", "closed"} => "client" \notin open[p]
    /\ phase[p] \in {"closing_tokens", "closed"} => "cache" \notin open[p]
    /\ phase[p] = "closed" => "tokens" \notin open[p]

(* The steps of a call: they leave the processes alone, and a call nobody
   waits for stays one until it ends.                                       *)
LEMMA CallKeepsOrder ==
  ASSUME TypeInv, Orderly, NEW r \in Requests,
         Reject(r) \/ Progress(r) \/ LateSave(r) \/ HangUp(r)
  PROVE  Orderly'
<1> USE DEF TypeInv, TypeOK
<1>1. UNCHANGED <<phase, open>>
  BY DEF Reject, Progress, Hit, Miss, Fetch, FetchFails, Save, SaveAnswerLost, SaveFails, LateSave, HangUp, process
<1>2. \A q \in Requests : pc'[q] \in Waits => pc[q] \in Waits /\ pod'[q] = pod[q]
  BY DEF Reject, Progress, Hit, Miss, Fetch, FetchFails, Save, SaveAnswerLost, SaveFails, LateSave, HangUp,
         Goto, End, Waits, Ends, Carrying
<1>3. \A q \in Requests : q \in gone /\ pc'[q] \in Waits => q \in gone'
  BY DEF Reject, Progress, Hit, Miss, Fetch, FetchFails, Save, SaveAnswerLost, SaveFails, LateSave, HangUp,
         Goto, End, Waits, Ends
<1> QED
  BY <1>1, <1>2, <1>3 DEF Orderly

(* The steps of a process: it stops when nobody waits and closes in order.  *)
LEMMA ProcessKeepsOrder ==
  ASSUME TypeInv, Orderly, NEW p \in Pods, Boot(p) \/ Stop(p) \/ Closing(p) \/ Die(p)
  PROVE  Orderly'
<1> USE DEF TypeInv, TypeOK, Orderly, MoveOn
<1>1. CASE Boot(p)
  BY <1>1 DEF Boot, request
<1>2. CASE Stop(p)
  BY <1>2 DEF Stop, request, OnPod
<1>3. CASE Close(p)
  <2>1. UNCHANGED <<pc, pod, gone>>
    BY <1>3 DEF Close, request
  <2>2. \A q \in Pods \ {p} : phase'[q] = phase[q] /\ open'[q] = open[q]
    BY <1>3 DEF Close
  <2>3. /\ phase[p] \in {"closing_client", "closing_cache", "closing_tokens"}
        /\ open'[p] = open[p] \ {Closes[phase[p]]} /\ phase'[p] = Then[phase[p]]
    BY <1>3 DEF Close, Closes
  <2>4. /\ phase[p] = "closing_client" => phase'[p] = "closing_cache" /\ "client" \notin open'[p]
        /\ phase[p] = "closing_cache" => phase'[p] = "closing_tokens" /\ "cache" \notin open'[p]
        /\ phase[p] = "closing_tokens" => phase'[p] = "closed" /\ "tokens" \notin open'[p]
        /\ open'[p] \subseteq open[p]
    BY <2>3 DEF Closes, Then
  <2> QED
    BY <2>1, <2>2, <2>3, <2>4
<1>4. CASE CloseRaises(p)
  BY <1>4 DEF CloseRaises, request, Closes
<1>5. CASE Die(p)
  <2>1. \A q \in Pods \ {p} : phase'[q] = phase[q] /\ open'[q] = open[q]
    BY <1>5 DEF Die
  <2>2. phase'[p] = "down" /\ open'[p] = {}
    BY <1>5 DEF Die
  <2>3. \A q \in Requests : pc'[q] \in Waits =>
          pc[q] \in Waits /\ pod[q] # p /\ pod'[q] = pod[q] /\ (q \in gone => q \in gone')
    BY <1>5 DEF Die, OnPod, Waits
  <2> QED
    BY <2>1, <2>2, <2>3
<1> QED
  BY <1>1, <1>2, <1>3, <1>4, <1>5 DEF Closing

(* Shutdown is orderly in every run.                                        *)
LEMMA OrderInvariant == Spec => []Orderly
<1>1. Init => Orderly
  BY DEF Init, Orderly, Waits
<1>2. TypeInv /\ Orderly /\ [Next]_vars => Orderly'
  <2> SUFFICES ASSUME TypeInv, Orderly, [Next]_vars
               PROVE  Orderly'
    OBVIOUS
  <2>1. ASSUME NEW r \in Requests, NEW p \in Pods, Arrive(r, p)
        PROVE  Orderly'
    BY <2>1 DEF Arrive, Goto, process, Orderly, TypeInv, TypeOK
  <2>2. CASE Tick \/ (\E k \in Refs : Publish(k)) \/ UNCHANGED vars
    BY <2>2 DEF Tick, Publish, vars, request, process, Orderly
  <2> QED
    BY <2>1, <2>2, CallKeepsOrder, ProcessKeepsOrder DEF Next
<1>3. QED
  BY <1>1, <1>2, TypeInvariant, PTL DEF Spec

(* A shutdown that ran to its end has closed every pool.                    *)
THEOREM ShutdownIsComplete == Spec => []LeftOpenOnlyByFailure
<1>1. TypeInv /\ Orderly => LeftOpenOnlyByFailure
  BY DEF TypeInv, TypeOK, Orderly, LeftOpenOnlyByFailure, Pools
<1>2. QED
  BY <1>1, TypeInvariant, OrderInvariant, PTL

(* No trouble with the cache, and no client closed too early, ends a request
   that somebody waits for in an error the service does not know.           *)
THEOREM OnlyTheGoneSeeShutdown == Spec => OnlyTheGoneEscape
<1>1. TypeInv /\ Orderly /\ [Next]_vars =>
        [\A r \in Requests : pc[r] \in Waits /\ pc'[r] = "escaped" => r \in gone]_vars
  <2> SUFFICES ASSUME TypeInv, Orderly, Next,
                      NEW r \in Requests, pc[r] \in Waits, pc'[r] = "escaped"
               PROVE  r \in gone
    BY DEF vars
  <2> USE DEF TypeInv, TypeOK, Waits
  <2>1. ASSUME NEW q \in Requests, FetchFails(q)
        PROVE  q = r /\ ~Up(r, "client")
    BY <2>1 DEF FetchFails, End, Goto
  <2>2. ~Up(r, "client")
    <3>1. ASSUME NEW q \in Requests, Reject(q) \/ Hit(q) \/ Miss(q) \/ Fetch(q) \/ Save(q)
                   \/ SaveAnswerLost(q) \/ SaveFails(q) \/ LateSave(q) \/ HangUp(q)
          PROVE  FALSE
      BY <3>1 DEF Reject, Hit, Miss, Fetch, Save, SaveAnswerLost, SaveFails, LateSave, HangUp, End, Goto
    <3>2. ASSUME NEW q \in Requests, NEW p \in Pods, Arrive(q, p)
          PROVE  FALSE
      BY <3>2 DEF Arrive, Goto
    <3>3. ASSUME NEW p \in Pods, Boot(p) \/ Stop(p) \/ Closing(p) \/ Die(p)
          PROVE  FALSE
      BY <3>3 DEF Boot, Stop, Closing, Close, CloseRaises, Die, request
    <3>4. ~(Tick \/ \E k \in Refs : Publish(k))
      BY DEF Tick, Publish, request
    <3> QED
      BY <2>1, <3>1, <3>2, <3>3, <3>4 DEF Next, Progress
  <2>3. pod[r] \in Pods
    OBVIOUS
  <2> QED
    BY <2>2, <2>3 DEF Up, Orderly, Pools
<1>2. QED
  BY <1>1, TypeInvariant, OrderInvariant, PTL DEF Spec, OnlyTheGoneEscape

-----------------------------------------------------------------------------
(* The refinement *)

(* A SET, in time, twice or late, puts its copy on the shelf, in the place of
   the one there was.                                                       *)
LEMMA CopyMade ==
  ASSUME TypeInv, NEW r \in Requests, Stored(r), version[r] > 0, UNCHANGED <<now, version>>
  PROVE  Shelf' \subseteq Shelf \cup {[ref |-> ref[r], version |-> version[r], since |-> now]}
<1> USE DEF TypeInv, TypeOK
<1>1. /\ ref[r] \in Refs /\ now \in Nat
      /\ store'[ref[r]].version = version[r] /\ store'[ref[r]].expires - TTL = now
      /\ \A k \in Refs \ {ref[r]} : store'[k] = store[k]
  BY DEF Stored
<1> DEFINE new == [ref |-> ref[r], version |-> version[r], since |-> now]
           Made(k) == [ref |-> k, version |-> store[k].version, since |-> store[k].expires - TTL]
<1>2. ASSUME NEW c \in Shelf'
      PROVE  c \in Shelf \cup {new}
  <2>1. PICK k \in Refs : store'[k] # Empty /\ c = Made(k)'
    BY <1>2 DEF Shelf
  <2>2. CASE k = ref[r]
    BY <1>1, <2>1, <2>2
  <2>3. CASE k # ref[r]
    <3>1. store'[k] = store[k]
      BY <1>1, <2>3
    <3>2. c = Made(k) /\ store[k] # Empty
      BY <2>1, <3>1
    <3> QED BY <3>2 DEF Shelf
  <2> QED BY <2>2, <2>3
<1> QED
  BY <1>2

Carries(p) == StageOf(p) \in {"holding", "shown"}

(* What a step that moves one request is for the abstract specification.    *)
LEMMA StageMoves ==
  ASSUME TypeOK, NEW r \in Requests, NEW p, pc' = [pc EXCEPT ![r] = p],
         \A q \in Requests \ {r} : version'[q] = version[q]
  PROVE  /\ Stage' = [Stage EXCEPT ![r] = StageOf(p)]
         /\ Version' = [Version EXCEPT ![r] = IF Carries(p) THEN version'[r] ELSE 0]
<1>1. pc'[r] = p /\ \A q \in Requests \ {r} : pc'[q] = pc[q]
  BY DEF TypeOK
<1>2. /\ \A q \in Requests : Stage[q] = StageOf(pc[q]) /\ Stage'[q] = StageOf(pc'[q])
      /\ \A q \in Requests : Version[q] = IF Carries(pc[q]) THEN version[q] ELSE 0
      /\ \A q \in Requests : Version'[q] = IF Carries(pc'[q]) THEN version'[q] ELSE 0
  BY DEF Stage, Version, Carries
<1>3. /\ Stage = [q \in Requests |-> Stage[q]] /\ Stage' = [q \in Requests |-> Stage'[q]]
      /\ Version = [q \in Requests |-> Version[q]] /\ Version' = [q \in Requests |-> Version'[q]]
  BY DEF Stage, Version
<1> HIDE DEF Stage, Version, Carries, StageOf
<1>4. Stage' = [Stage EXCEPT ![r] = StageOf(p)]
  BY <1>1, <1>2, <1>3
<1>5. Version' = [Version EXCEPT ![r] = IF Carries(p) THEN version'[r] ELSE 0]
  BY <1>1, <1>2, <1>3
<1> QED
  BY <1>4, <1>5

(* The steps that move one request without a SET ask, read, fail, show what
   was read without a copy, or go unseen.                                   *)
LEMMA CallMaps ==
  ASSUME TypeInv, NEW r \in Requests,
         Reject(r) \/ Miss(r) \/ Fetch(r) \/ FetchFails(r) \/ SaveFails(r)
           \/ (\E p \in Pods : Arrive(r, p))
  PROVE  [Lookup!Next]_Lookup!vars
<1> USE DEF TypeInv
<1>1. /\ UNCHANGED <<now, world, ref, store>>
      /\ pc[r] \in {"idle", "reading", "fetching", "saving"}
  BY DEF Reject, Miss, Fetch, FetchFails, SaveFails, Arrive, cache
<1> DEFINE Moved(p) ==
      /\ pc' = [pc EXCEPT ![r] = p]
      /\ \/ p = "reading" /\ pc[r] = "idle"
         \/ p = "fetching" /\ pc[r] = "reading"
         \/ /\ p = "saving" /\ pc[r] = "fetching" /\ world[ref[r]] > 0
            /\ version' = [version EXCEPT ![r] = world[ref[r]]]
         \/ p = "shipment" /\ pc[r] = "saving"
         \/ p \in {"rejected", "error", "raised", "escaped"}
      /\ p # "saving" => version' = version
<1>2. PICK p \in {"reading", "fetching", "saving", "shipment", "rejected", "error", "raised",
                  "escaped"} : Moved(p)
  <2>1. Reject(r) => Moved("rejected")
    BY DEF Reject, Goto
  <2>2. Miss(r) => Moved("fetching")
    BY DEF Miss, Goto
  <2>3. Fetch(r) => Moved("saving")
    BY DEF Fetch, Goto
  <2>4. FetchFails(r) => Moved("error") \/ Moved("raised") \/ Moved("escaped")
    BY DEF FetchFails, End, Goto
  <2>5. SaveFails(r) => Moved("shipment")
    BY DEF SaveFails, End, Goto
  <2>6. ASSUME NEW n \in Pods, Arrive(r, n)
        PROVE  Moved("reading")
    BY <2>6 DEF Arrive, Goto
  <2> HIDE DEF Moved
  <2> QED
    BY <2>1, <2>2, <2>3, <2>4, <2>5, <2>6
<1>3. \A q \in Requests \ {r} : version'[q] = version[q] /\ pc'[q] = pc[q]
  BY <1>2 DEF TypeOK
<1>5. Shelf' = Shelf
  BY <1>1 DEF Shelf
<1>6. /\ Stage' = [Stage EXCEPT ![r] = StageOf(p)]
      /\ Version' = [Version EXCEPT ![r] = IF Carries(p) THEN version'[r] ELSE 0]
  BY <1>2, <1>3, StageMoves
<1>7. /\ Stage[r] = StageOf(pc[r]) /\ Version[r] = IF Carries(pc[r]) THEN version[r] ELSE 0
      /\ Stage \in [Requests -> {StageOf(pc[q]) : q \in Requests}]
      /\ Version = [q \in Requests |-> Version[q]]
  BY DEF Stage, Version, Carries
<1>8. CASE p = "reading" /\ pc[r] = "idle"
  <2>1. Lookup!Ask(r)
    BY <1>1, <1>5, <1>6, <1>7, <1>8 DEF Lookup!Ask, Lookup!To, StageOf, Carries
  <2> QED
    BY <1>5, <2>1 DEF Lookup!Next
<1>9. CASE p = "fetching" /\ pc[r] = "reading"
  <2>1. StageOf(p) = Stage[r] /\ Version[r] = 0 /\ ~Carries(p)
    BY <1>7, <1>9 DEF StageOf, Carries
  <2>2. Stage' = Stage /\ Version' = Version
    BY <1>6, <1>7, <2>1
  <2> QED
    BY <1>1, <1>5, <2>2 DEF Lookup!vars
<1>10. CASE p = "saving" /\ pc[r] = "fetching"
  <2>1. version'[r] = world[ref[r]] /\ world[ref[r]] > 0
    BY <1>2, <1>10 DEF TypeOK
  <2>2. StageOf(p) = "holding" /\ Carries(p) /\ Stage[r] = "asking"
    BY <1>7, <1>10 DEF StageOf, Carries
  <2>3. Lookup!Read(r)
    BY <1>1, <1>5, <1>6, <2>1, <2>2 DEF Lookup!Read, Lookup!To
  <2> QED
    BY <1>5, <2>3 DEF Lookup!Next
<1>11. CASE p = "shipment" /\ pc[r] = "saving"
  <2>1. /\ StageOf(p) = "shown" /\ Carries(p) /\ Stage[r] = "holding" /\ Version[r] = version[r]
        /\ version' = version
    BY <1>2, <1>7, <1>11 DEF StageOf, Carries
  <2>2. Lookup!Show(r)
    BY <1>1, <1>5, <1>6, <2>1 DEF Lookup!Show, Lookup!Put, Lookup!To
  <2> QED
    BY <1>5, <2>2 DEF Lookup!Next
<1>12. CASE p \in {"rejected", "error", "raised", "escaped"}
  <2>1. StageOf(p) = "failed" /\ ~Carries(p) /\ Stage[r] \in {"idle", "asking", "holding"}
    BY <1>1, <1>7, <1>12 DEF StageOf, Carries
  <2>2. Lookup!Fail({r})
    BY <1>1, <1>5, <1>6, <1>7, <2>1 DEF Lookup!Fail
  <2> QED
    BY <1>5, <2>2 DEF Lookup!Next
<1> QED
  BY <1>2, <1>8, <1>9, <1>10, <1>11, <1>12

(* A hit reuses the copy that the entry it found is.                        *)
LEMMA HitMaps ==
  ASSUME TypeInv, NEW r \in Requests, Hit(r)
  PROVE  Lookup!Next
<1> USE DEF TypeInv
<1>1. /\ UNCHANGED <<now, world, ref, store>>
      /\ pc[r] = "reading" /\ pc' = [pc EXCEPT ![r] = "shipment"]
      /\ version' = [version EXCEPT ![r] = store[ref[r]].version]
      /\ store[ref[r]] # Empty /\ now < store[ref[r]].expires
  BY DEF Hit, End, Goto, Live, cache
<1>3. \A q \in Requests \ {r} : version'[q] = version[q] /\ pc'[q] = pc[q]
  BY <1>1 DEF TypeOK
<1>5. Shelf' = Shelf
  BY <1>1 DEF Shelf
<1> DEFINE k == ref[r]
           c == [ref |-> k, version |-> store[k].version, since |-> store[k].expires - TTL]
<1>6. c \in Shelf
  BY <1>1 DEF Shelf, TypeOK
<1>7. c.ref = ref[r] /\ now < c.since + TTL /\ c.version = version'[r]
  <2>1. store[k].expires \in Nat /\ TTL \in Nat
    BY <1>1 DEF TypeOK, Empty
  <2>2. c.since + TTL = store[k].expires
    BY <2>1
  <2> QED
    BY <1>1, <2>2 DEF TypeOK
<1> HIDE DEF c
<1>8. StageOf("shipment") = "shown" /\ Carries("shipment") /\ Stage[r] = "asking"
  BY <1>1 DEF StageOf, Carries, Stage
<1>9. Stage' = [Stage EXCEPT ![r] = "shown"] /\ Version' = [Version EXCEPT ![r] = c.version]
  <2>1. \A q \in Requests \ {r} : version'[q] = version[q]
    BY <1>3
  <2>2. /\ Stage' = [Stage EXCEPT ![r] = StageOf("shipment")]
        /\ Version' = [Version EXCEPT ![r] = IF Carries("shipment") THEN version'[r] ELSE 0]
    BY <1>1, <2>1, StageMoves
  <2> QED
    BY <1>7, <1>8, <2>2
<1>10. Lookup!Reuse(r)
  <2>1. Lookup!To(r, "shown", c.version)
    BY <1>1, <1>9 DEF Lookup!To
  <2> QED
    BY <1>5, <1>6, <1>7, <1>8, <2>1 DEF Lookup!Reuse
<1> QED
  BY <1>5, <1>10 DEF Lookup!Next

(* A SET in time shows and copies; one whose answer is lost copies what is
   still held, and one that is late what was shown.                         *)
LEMMA SetMaps ==
  ASSUME TypeInv, NEW r \in Requests, Save(r) \/ SaveAnswerLost(r) \/ LateSave(r)
  PROVE  Lookup!Next
<1> USE DEF TypeInv
<1>1. UNCHANGED <<now, world, ref, version>> /\ Stored(r) /\ version[r] > 0
  BY DEF Save, SaveAnswerLost, LateSave, Carrying
<1>2. Shelf' \subseteq Shelf \cup {[ref |-> ref[r], version |-> version[r], since |-> now]}
  BY <1>1, CopyMade
<1>3. CASE Save(r)
  <2>1. pc[r] = "saving" /\ pc' = [pc EXCEPT ![r] = "shipment"]
    BY <1>3 DEF Save, End, Goto
  <2>2. StageOf("shipment") = "shown" /\ Carries("shipment")
        /\ Stage[r] = "holding" /\ Version[r] = version[r]
    BY <2>1 DEF StageOf, Carries, Stage, Version
  <2>3. Stage' = [Stage EXCEPT ![r] = "shown"] /\ Version' = [Version EXCEPT ![r] = Version[r]]
    BY <1>1, <2>1, <2>2, StageMoves
  <2>4. Lookup!Show(r)
    BY <1>1, <1>2, <2>2, <2>3 DEF Lookup!Show, Lookup!Put, Lookup!To, Lookup!Copy
  <2> QED
    BY <2>4 DEF Lookup!Next
<1>4. CASE SaveAnswerLost(r) \/ LateSave(r)
  <2>1. pc[r] \in {"saving", "shipment"} /\ pc' = pc
    BY <1>4 DEF SaveAnswerLost, LateSave, Carrying
  <2>2. Stage[r] \in {"holding", "shown"} /\ Version[r] = version[r]
    BY <2>1 DEF Stage, Version, StageOf
  <2>3. Stage' = Stage /\ Version' = Version
    BY <1>1, <2>1 DEF Stage, Version
  <2>4. Lookup!Shelve(r)
    BY <1>1, <1>2, <2>2, <2>3 DEF Lookup!Shelve, Lookup!Put, Lookup!Copy
  <2> QED
    BY <2>4 DEF Lookup!Next
<1> QED
  BY <1>3, <1>4

(* The calls in progress of a process that dies fail together.              *)
LEMMA DieMaps ==
  ASSUME TypeInv, NEW p \in Pods, Die(p)
  PROVE  Lookup!Next
<1> USE DEF TypeInv
<1> DEFINE R == OnPod(p)
<1>1. /\ UNCHANGED <<now, world, ref, version, store>>
      /\ R \in SUBSET Requests /\ \A q \in R : pc[q] \in Waits
      /\ pc' = [q \in Requests |-> IF q \in R THEN "lost" ELSE pc[q]]
  BY DEF Die, cache, OnPod
<1> HIDE DEF R
<1>3. Shelf' = Shelf
  BY <1>1 DEF Shelf
<1>4. \A q \in R : Stage[q] \in {"idle", "asking", "holding"}
  BY <1>1 DEF Stage, StageOf, Waits
<1>5. Stage' = [q \in Requests |-> IF q \in R THEN "failed" ELSE Stage[q]]
  BY <1>1 DEF Stage, StageOf
<1>6. Version' = [q \in Requests |-> IF q \in R THEN 0 ELSE Version[q]]
  BY <1>1 DEF Version, StageOf
<1>7. Lookup!Fail(R)
  BY <1>1, <1>3, <1>4, <1>5, <1>6 DEF Lookup!Fail
<1> QED
  BY <1>1, <1>3, <1>7 DEF Lookup!Next

(* Hanging up, starting and stopping go unseen; time and upstream are the
   same in both specifications.                                             *)
LEMMA OutsideMaps ==
  ASSUME TypeInv,
         \/ \E r \in Requests : HangUp(r)
         \/ \E p \in Pods : Boot(p) \/ Stop(p) \/ Closing(p)
         \/ \E k \in Refs : Publish(k)
         \/ Tick \/ UNCHANGED vars
  PROVE  [Lookup!Next]_Lookup!vars
<1>1. UNCHANGED <<pc, ref, version, store>>
  BY DEF HangUp, Boot, Stop, Closing, Close, CloseRaises, Publish, Tick, vars, request, cache
<1>3. Shelf' = Shelf
  BY <1>1 DEF Shelf
<1>4. Stage' = Stage /\ Version' = Version
  BY <1>1 DEF Stage, Version
<1>5. CASE Tick
  BY <1>1, <1>3, <1>4, <1>5 DEF Tick, Lookup!Tick, Lookup!Next
<1>6. ASSUME NEW k \in Refs, Publish(k)
      PROVE  Lookup!Publish(k)
  BY <1>1, <1>3, <1>4, <1>6 DEF Publish, Lookup!Publish
<1>7. CASE \/ \E r \in Requests : HangUp(r)
           \/ \E p \in Pods : Boot(p) \/ Stop(p) \/ Closing(p)
           \/ UNCHANGED vars
  <2>1. UNCHANGED <<now, world>>
    BY <1>7 DEF HangUp, Boot, Stop, Closing, Close, CloseRaises, vars
  <2> QED
    BY <1>1, <1>3, <1>4, <2>1 DEF Lookup!vars
<1> QED
  BY <1>3, <1>5, <1>6, <1>7 DEF Lookup!Next

(* Every step is one of the abstract specification, or goes unseen there.   *)
LEMMA FleetStep ==
  ASSUME TypeInv, [Next]_vars
  PROVE  [Lookup!Next]_Lookup!vars
<1>1. CASE \E r \in Requests : Reject(r) \/ Progress(r) \/ LateSave(r) \/ HangUp(r)
  BY <1>1, CallMaps, HitMaps, SetMaps, OutsideMaps DEF Progress
<1>2. CASE \E r \in Requests, p \in Pods : Arrive(r, p)
  BY <1>2, CallMaps
<1>3. CASE \E p \in Pods : Boot(p) \/ Stop(p) \/ Closing(p) \/ Die(p)
  BY <1>3, OutsideMaps, DieMaps
<1>4. CASE (\E k \in Refs : Publish(k)) \/ Tick \/ UNCHANGED vars
  BY <1>4, OutsideMaps
<1> QED
  BY <1>1, <1>2, <1>3, <1>4 DEF Next

(* Several processes over the shared cache keep the promise of one: every
   answer was read from upstream while its caller waited, or is a copy less
   than TTL old.                                                            *)
THEOREM FleetImplementsLookup == Spec => ImplementsLookup
<1>1. Init => Lookup!Init
  <2> SUFFICES ASSUME Init
               PROVE  Lookup!Init
    OBVIOUS
  <2>1. world \in [Refs -> 0..MaxVersion]
    BY DEF Init
  <2>2. Stage = [r \in Requests |-> "idle"] /\ Version = [r \in Requests |-> 0]
    BY DEF Init, Stage, Version, StageOf
  <2>3. Shelf = {}
    BY DEF Init, Shelf
  <2> QED
    BY <2>1, <2>2, <2>3 DEF Init, Lookup!Init
<1>2. TypeInv /\ [Next]_vars => [Lookup!Next]_Lookup!vars
  BY FleetStep
<1>3. QED
  BY <1>1, <1>2, TypeInvariant, PTL DEF Spec, ImplementsLookup, Lookup!Spec
=============================================================================
