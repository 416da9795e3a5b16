------------------------------ MODULE Payloads ------------------------------
(***************************************************************************)
(* The three readings of upstream's answers in get_shipment: the resolver  *)
(* payload, the detail payload and, in the fallback, the rendered page.    *)
(* Each behaviour reads one input.                                         *)
(***************************************************************************)
EXTENDS Parser, HtmlFallback

CONSTANTS ResolverPayloads, DetailPayloads, Pages

(* What is inside a JSON value: the fields of an object, the elements of the
   lists among them.                                                        *)
ValuesOf(v) == IF IsObject(v) THEN {v.has[k] : k \in DOMAIN v.has} ELSE {}
Inside(S) == UNION {ValuesOf(v) : v \in S}
EntriesOf(v) == UNION {Range(w.of) : w \in {u \in ValuesOf(v) : u.is = "list"}}

Json(v) ==
  /\ v.is = "inf" => v = Infinity
  /\ v.is = "date" => v.at \in Int
  /\ v.is = "list" => v.of \in Seq(Range(v.of))

(* What the parser takes for the list of a resolver payload, and the values
   of a detail payload that it looks at, are JSON values.                    *)
ASSUME ResolverAssumption == \A payload \in ResolverPayloads : Json(Items(payload))

ASSUME DetailAssumption ==
  \A payload \in DetailPayloads :
    LET fields == ValuesOf(payload)
        inner  == Inside(fields)
    IN \A v \in fields \cup inner \cup Inside(inner) \cup Inside(EntriesOf(payload)) : Json(v)

(* What the regular expressions find in a piece of a page.                   *)
ASSUME PageAssumption ==
  \A page \in Pages :
    /\ page.body \in Seq(Range(page.body)) /\ page.rows \in Seq(Range(page.rows))
    /\ \A p \in Range(page.body) \cup Range(page.rows) :
         /\ p.date \in Seq(Nat) /\ Len(p.date) \in {0, 3}
         /\ p.time \in Seq(Nat) /\ Len(p.time) \in {0, 2}
         /\ p.says \subseteq Range(Keywords)

VARIABLES
  stage,   \* which of the three answers is read
  input,
  output

vars == <<stage, input, output>>

Pending == [out |-> "pending"]

Init ==
  /\ \/ stage = "resolver" /\ input \in ResolverPayloads
     \/ stage = "detail"   /\ input \in DetailPayloads
     \/ stage = "page"     /\ input \in Pages
  /\ output = Pending

Read(at, result) ==
  /\ stage = at /\ output = Pending
  /\ output' = result
  /\ UNCHANGED <<stage, input>>

ReadResolver == Read("resolver", Resolve(input))
ReadDetail   == Read("detail", Detail(input))
ReadPage     == Read("page", Scrape(input))

Next == ReadResolver \/ ReadDetail \/ ReadPage

Spec == Init /\ [][Next]_vars

Shown(at) == stage = at /\ output.out = "shipment"

-----------------------------------------------------------------------------
(* Properties *)

(* The resolver wraps its list in "shipments", in "items" or not at all: the
   same candidate is preferred.                                             *)
AnyWrapping ==
  stage = "resolver" /\ output # Pending /\ input.is = "list" =>
    /\ Resolve(Object([shipments |-> input])) = output
    /\ Resolve(Object([items |-> input])) = output
    /\ Resolve(Object([shipments |-> List(<<>>), items |-> input])) = output

(* A detail payload that is an object becomes a shipment whatever is missing
   or misplaced in it, as long as its numbers are finite and its events are
   all with a time zone or all without; what is no object is a ParseError.    *)
ToleratesGaps ==
  stage = "detail" /\ output # Pending =>
    LET fields == Inside(Inside({input}))
        dates  == {v \in Inside(EntriesOf(input)) : v.is = "date"}
        finite == (fields \cup Inside(fields)) \cap {NaN, Infinity} = {}
        alike  == \A d, e \in dates : d.zone = e.zone
    IN IF IsObject(input) THEN finite /\ alike => output.out = "shipment"
       ELSE output.out = "ParseError"

(* Of a payload with one list of events every entry that is an object with a
   date is in the history once, oldest first, and entries of one instant keep
   their order.                                                              *)
HistoryFaithful ==
  Shown("detail") =>
    \A n \in Range(HistoryNames) :
      /\ Get(input, n).is = "list"
      /\ \A m \in Range(HistoryNames) \ {n} : Falsy(Get(input, m))
      => LET told    == output.history
             entries == Get(input, n).of
             dated   == {i \in DOMAIN entries :
                           IsObject(entries[i]) /\ Event(entries[i]).at.is = "date"}
         IN \E from \in Bijection(DOMAIN told, dated) :
              /\ \A i \in DOMAIN told : told[i] = Event(entries[from[i]])
              /\ \A i, j \in DOMAIN told :
                   i < j => \/ told[i].at.at < told[j].at.at
                            \/ told[i].at.at = told[j].at.at /\ from[i] < from[j]

(* The history scraped from a page holds events of the page, each once, and
   leaves one out only when it is full and has nothing older.               *)
NewestKept ==
  Shown("page") =>
    LET h == output.history
    IN /\ \A i, j \in DOMAIN h : h[i] = h[j] => i = j
       /\ Range(h) \subseteq Range(ParsedEvents(input))
       /\ \A e \in Range(ParsedEvents(input)) \ Range(h) :
            Len(h) = MaxEvents /\ \A i \in DOMAIN h : h[i].at >= e.at

(* On a page that names the sender and then the receiver, nothing of one
   party is told of the other.                                              *)
PartiesApart ==
  Shown("page") =>
    \A i, j \in DOMAIN input.body :
      LET body   == input.body
          labels == [k \in DOMAIN body |-> body[k].label]
          told(party) == {party.name, party.address} \ {Absent}
      IN /\ input.senderName = Absent /\ input.receiverName = Absent
         /\ i < j /\ labels[i] = "Sender" /\ labels[j] \in {"Receiver", "Consignee"}
         /\ \A k \in DOMAIN body \ {i, j} : labels[k] \notin {"Sender", "Receiver", "Consignee"}
         => /\ told(output.sender)   \subseteq {body[k].text : k \in (i + 1)..(j - 1)}
            /\ told(output.receiver) \subseteq {body[k].text : k \in (j + 1)..Len(body)}

(* An event scraped from a page carries a status its text names, never
   "delivered" for a parcel still out for delivery nor "loaded" for one that
   was not loaded.                                                          *)
SpecificStatus ==
  Shown("page") =>
    \A e \in Range(output.history) :
      \E p \in Range(input.rows \o input.body) :
        /\ IsEvent(p) /\ ParseDatetime(p.date, p.time) = e.at
        /\ Mentions(p, e.status) \/ (e.status = "event" /\ p.says = {})
        /\ e.status = "delivered" => "out_for_delivery" \notin p.says
        /\ e.status = "loaded"    => "not_loaded" \notin p.says

(* What the repository says and the code does not keep *)

(* tracking/DOMAIN.md:95, "detail endpoint returns non-dict, or parse raises"
   is a ParseError.                                                         *)
FailsInTaxonomy == stage = "detail" => output.out \in {"pending", "shipment", "ParseError"}
=============================================================================
