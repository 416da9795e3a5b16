------------------------------- MODULE Parser -------------------------------
(***************************************************************************)
(* domains/tracking/server/parser.py: what becomes of the JSON the         *)
(* upstream answers.  A JSON value is a record with a kind "is": objects   *)
(* have fields ("has"), lists have elements ("of"), numbers and dates have *)
(* a value; a text is blank, a word, or junk that is neither date nor      *)
(* number.  json.loads also reads NaN and Infinity.                        *)
(***************************************************************************)
EXTENDS Timeline, SequencesExt

None  == [is |-> "none"]       \* null, or no such field
Empty == [is |-> "empty"]      \* ""
Blank == [is |-> "blank"]      \* spaces only
Junk  == [is |-> "junk"]
NaN   == [is |-> "nan"]
Infinity == [is |-> "inf"]
Number(n) == [is |-> "number", n |-> n]
Word(w)   == [is |-> "word", word |-> w]
Date(zone, at) == [is |-> "date", zone |-> zone, at |-> at]
List(s)   == [is |-> "list", of |-> s]
Object(f) == [is |-> "object", has |-> f]

IsObject(v) == v.is = "object"

Falsy(v) == v \in {None, Empty, Number(0), List(<<>>), Object(<<>>)}

Get(o, k) == IF k \in DOMAIN o.has THEN o.has[k] ELSE None

(* o.get(n1) or o.get(n2) or ...: the first that is truthy, else the last.  *)
FirstOf(o, names) ==
  LET held == {i \in DOMAIN names : ~Falsy(Get(o, names[i]))}
  IN Get(o, names[IF held = {} THEN Len(names) ELSE Min(held)])

ObjectOf(o, names) ==
  LET v == FirstOf(o, names) IN IF IsObject(v) THEN v ELSE Object(<<>>)

Text(v) == IF v \in {None, Empty, Blank} THEN None ELSE v
OrElse(v, default) == IF v = None THEN default ELSE v

Decimal(v) == IF v.is \in {"number", "nan", "inf"} THEN v ELSE None

FaultyInteger(v) == IF v.is \in {"number", "inf", "list"} THEN v ELSE None
(* int() of an infinity raises an OverflowError, which nobody catches.       *)
Integer(v) == IF v.is \in {"number", "inf"} THEN v ELSE None

Datetime(v) == IF v.is = "date" THEN v ELSE None

-----------------------------------------------------------------------------
(* The resolver *)

Classify(v) ==
  CASE v.is # "word" -> "unknown"
    [] v.word \in {"land_se", "se", "sweden"} -> "land_se"
    [] v.word \in {"land_au", "au", "nz", "domestic_au_nz"} -> "land_au"
    [] v.word \in {"ocean", "sea"} -> "ocean"
    [] v.word \in {"land", "air", "dsv", "atol", "cos"} -> v.word
    [] OTHER -> "unknown"

FaultyItems(payload) ==
  CASE payload.is = "list" -> payload
    [] IsObject(payload) -> Get(payload, "shipments")
    [] OTHER -> None
(* payload.get("shipments", []) or payload.get("items", []): the default is
   for a missing key, a null stays what it is.                              *)
Items(payload) ==
  CASE payload.is = "list" -> payload
    [] IsObject(payload) ->
         LET first == Get(payload, "shipments")
         IN IF ~Falsy(first) THEN first
            ELSE IF "items" \in DOMAIN payload.has THEN payload.has["items"] ELSE List(<<>>)
    [] OTHER -> None

Candidate(item) ==
  [type |-> Classify(FirstOf(item, <<"type", "shipmentType", "transport">>)),
   id   |-> Text(FirstOf(item, <<"id", "reference", "shipmentId">>))]

Candidates(items) ==
  LET named == Chosen(items, {i \in DOMAIN items :
                                IsObject(items[i]) /\ Candidate(items[i]).id # None})
  IN [k \in DOMAIN named |-> Candidate(named[k])]

(* parse_resolver, and what SchenkerClient.resolve takes from it.            *)
Resolve(payload) ==
  LET items == Items(payload)
  IN IF items.is # "list" THEN [out |-> "ParseError"]
     ELSE IF Candidates(items.of) = <<>> THEN [out |-> "NotFoundError"]
     ELSE [out |-> "candidate", preferred |-> Head(Candidates(items.of))]

-----------------------------------------------------------------------------
(* The detail *)

Address(node) ==
  LET inner == IF IsObject(Get(node, "address")) THEN Get(node, "address") ELSE node
  IN [street      |-> Text(FirstOf(inner, <<"street", "addressLine1", "addressLine">>)),
      postal_code |-> Text(FirstOf(inner, <<"postalCode", "zipCode">>)),
      city        |-> Text(Get(inner, "city")),
      country     |-> Text(FirstOf(inner, <<"country", "countryCode">>))]

Party(payload, names) ==
  LET node == ObjectOf(payload, names)
  IN [name |-> OrElse(Text(FirstOf(node, <<"name", "companyName">>)), Empty),
      address |-> Address(node)]

Package(payload) ==
  LET pkg  == ObjectOf(payload, <<"package", "goods">>)
      dims == ObjectOf(pkg, <<"dimensions">>)
      side(s) == Integer(IF Falsy(Get(dims, s)) THEN Get(pkg, s) ELSE Get(dims, s))
      count == Integer(FirstOf(pkg, <<"pieceCount", "pieces", "colli">>))
  IN [weight_kg   |-> Decimal(FirstOf(pkg, <<"weight", "weightKg">>)),
      length_cm   |-> side("length"),
      width_cm    |-> side("width"),
      height_cm   |-> side("height"),
      piece_count |-> IF Falsy(count) THEN Number(1) ELSE count,
      volume_m3   |-> Decimal(FirstOf(pkg, <<"volume", "volumeM3">>))]

Event(entry) ==
  [at     |-> Datetime(FirstOf(entry, <<"at", "timestamp", "eventTime">>)),
   status |-> OrElse(Text(FirstOf(entry, <<"status", "statusCode", "type">>)), Word("unknown")),
   location    |-> Text(FirstOf(entry, <<"location", "place", "city">>)),
   description |-> Text(FirstOf(entry, <<"description", "statusDescription", "text">>))]

HistoryNames == <<"events", "history", "trackingEvents", "statusHistory">>

(* The entries that are objects and have a date.                             *)
Datable(entries) == {i \in DOMAIN entries : IsObject(entries[i]) /\ Event(entries[i]).at # None}

Dated(entries) ==
  LET dated == Chosen(entries, Datable(entries)) IN [k \in DOMAIN dated |-> Event(dated[k])]

Recorded(payload) ==
  LET raw == FirstOf(payload, HistoryNames) IN IF raw.is = "list" THEN Dated(raw.of) ELSE <<>>

FaultyHistory(payload) == Recorded(payload)
History(payload) ==
  LET events == Recorded(payload)
  IN Sorted(events, [i \in DOMAIN events |-> events[i].at.at])

(* Times with and without a zone cannot be compared.                         *)
Zones(events) == {events[i].at.zone : i \in DOMAIN events}

Detail(payload) ==
  IF ~IsObject(payload) THEN [out |-> "ParseError"]
  ELSE
    LET package == Package(payload)
        ints    == {package[f] : f \in {"length_cm", "width_cm", "height_cm", "piece_count"}}
        numbers == {package.weight_kg, package.volume_m3}
    IN CASE \E v \in ints : v.is \notin {"none", "number"} -> [out |-> "OverflowError"]
         [] numbers \cap {NaN, Infinity} # {} -> [out |-> "ValidationError"]
         [] Cardinality(Zones(Recorded(payload))) > 1 -> [out |-> "TypeError"]
         [] OTHER ->
              [out      |-> "shipment",
               sender   |-> Party(payload, <<"sender", "from", "consignor">>),
               receiver |-> Party(payload, <<"receiver", "to", "consignee">>),
               package  |-> package,
               history  |-> History(payload)]
=============================================================================
