---------------------------- MODULE HtmlFallback ----------------------------
(***************************************************************************)
(* domains/tracking/server/html_fallback.py: what the fallback makes of a  *)
(* rendered page.  The body is a sequence of pieces, cut at line ends and  *)
(* around the labels that _section_between looks for (a line that tells an *)
(* event holds none); a row of the events table is a piece too.  What the  *)
(* regular expressions find in a piece is part of it; the location and the *)
(* description of an event are left out.                                   *)
(***************************************************************************)
EXTENDS Timeline, SequencesExt

CONSTANT MaxEvents   \* 30 in the code

ASSUME FallbackAssumption == MaxEvents \in Nat

Absent == "absent"

(* A piece: its text; the label and the marker it holds; whether it has four
   digits in a row, and then perhaps a whole address; and as an event, its
   length, whether it is a table header, the numbers of its date and time,
   and the status phrases in it.                                            *)
Piece(text) ==
  [text |-> text, label |-> Absent, marker |-> Absent, digits |-> "none",
   length |-> 10, header |-> FALSE, date |-> <<>>, time |-> <<>>, says |-> {}]

-----------------------------------------------------------------------------
(* Sender and receiver *)

FaultySectionBetween(body, start, ends) ==
  LET starts == {i \in DOMAIN body : body[i].label = start}
  IN IF starts = {} THEN <<>> ELSE SubSeq(body, Min(starts) + 1, Len(body))
(* Nothing, when the label is missing and when nothing follows it.           *)
SectionBetween(body, start, ends) ==
  LET starts == {i \in DOMAIN body : body[i].label = start}
      stops  == {i \in DOMAIN body : i > Min(starts) /\ body[i].label \in ends}
  IN IF starts = {} THEN <<>>
     ELSE SubSeq(body, Min(starts) + 1, IF stops = {} THEN Len(body) ELSE Min(stops) - 1)

NoParty == [name |-> Absent, address |-> Absent]

(* The first line is the name; of the first line with four digits in a row
   the address is taken, if it is one.                                      *)
ExtractParty(section) ==
  LET numbered == {i \in DOMAIN section : section[i].digits # "none"}
      line     == section[Min(numbered)]
  IN IF section = <<>> THEN NoParty
     ELSE [name    |-> section[1].text,
           address |-> IF numbered # {} /\ line.digits = "address" THEN line.text ELSE Absent]

SenderEnds   == {"Receiver", "Consignee", "Package", "Shipment", "Weight"}
ReceiverEnds == {"Package", "Shipment", "Weight", "Details", "History", "Events"}

Sender(page) ==
  IF page.senderName # Absent THEN [name |-> page.senderName, address |-> Absent]
  ELSE ExtractParty(SectionBetween(page.body, "Sender", SenderEnds))

Receiver(page) ==
  LET section == SectionBetween(page.body, "Receiver", ReceiverEnds)
  IN IF page.receiverName # Absent THEN [name |-> page.receiverName, address |-> Absent]
     ELSE ExtractParty(IF section # <<>> THEN section
                       ELSE SectionBetween(page.body, "Consignee", ReceiverEnds))

-----------------------------------------------------------------------------
(* Events *)

(* The spaces of the phrases are underscores here.                           *)
Keywords == <<"out_for_delivery", "not_loaded", "delivered", "collected", "departed",
              "arrived", "loaded", "booked", "picked_up", "in_transit">>

(* keyword in text: "not loaded" also holds "loaded".                        *)
Mentions(piece, k) == k \in piece.says \/ (k = "loaded" /\ "not_loaded" \in piece.says)

FaultyDetectStatus(piece) ==
  LET held == {i \in DOMAIN Keywords : Mentions(piece, Keywords[i])}
  IN IF held = {} THEN "event" ELSE Keywords[Max(held)]
DetectStatus(piece) ==
  LET held == {i \in DOMAIN Keywords : Mentions(piece, Keywords[i])}
  IN IF held = {} THEN "event" ELSE Keywords[Min(held)]

DaysIn(y, m) ==
  IF m = 2 THEN IF y % 4 = 0 /\ (y % 100 # 0 \/ y % 400 = 0) THEN 29 ELSE 28
  ELSE IF m \in {4, 6, 9, 11} THEN 30 ELSE 31

(* A date has its year first or last, told by four digits in front (a year
   before 1000 only last); a missing time is midnight, an impossible date or
   time is no instant at all.                                               *)
NoInstant == -1
ParseDatetime(date, time) ==
  LET ymd == IF date[1] >= 1000 THEN date ELSE Reverse(date)
      hm  == IF time = <<>> THEN <<0, 0>> ELSE time
  IN IF /\ ymd[1] > 0 /\ ymd[2] \in 1..12 /\ ymd[3] \in 1..DaysIn(ymd[1], ymd[2])
        /\ hm[1] \in 0..23 /\ hm[2] \in 0..59
     THEN (((ymd[1] * 12 + ymd[2]) * 31 + ymd[3]) * 24 + hm[1]) * 60 + hm[2]
     ELSE NoInstant

IsEvent(piece) ==
  /\ piece.length \in 10..300 /\ ~piece.header
  /\ piece.date # <<>> /\ ParseDatetime(piece.date, piece.time) # NoInstant

EventOf(piece) ==
  [at |-> ParseDatetime(piece.date, piece.time), status |-> DetectStatus(piece)]

Events(pieces) ==
  LET some == Chosen(pieces, {i \in DOMAIN pieces : IsEvent(pieces[i])})
  IN [k \in DOMAIN some |-> EventOf(some[k])]

ParsedEvents(page) ==
  IF Events(page.rows) # <<>> THEN Events(page.rows) ELSE Events(page.body)

FirstOnly(events) ==
  Chosen(events, {i \in DOMAIN events : \A j \in 1..(i - 1) : events[j] # events[i]})

Cut(events) == IF Len(events) > MaxEvents THEN SubSeq(events, 1, MaxEvents) ELSE events

NewestFirst(events) == Sorted(events, [i \in DOMAIN events |-> -events[i].at])

FaultyDedupeAndSort(events) == NewestFirst(Cut(FirstOnly(events)))
DedupeAndSort(events) == Cut(NewestFirst(FirstOnly(events)))

-----------------------------------------------------------------------------
(* The package *)

(* quantize rounds half to even.                                             *)
HalfEven(a, b) ==
  LET q == a \div b  r == a % b
  IN IF 2 * r > b \/ (2 * r = b /\ q % 2 = 1) THEN q + 1 ELSE q

(* Hundredths of a kilogram.  Without a unit the weight is in kilograms,
   unless the next word begins with a t or lb, which is taken for one.      *)
Weight(page) ==
  IF page.weight = <<>> THEN Absent
  ELSE CASE page.unit = "t"  -> page.weight[1] * 100000
         [] page.unit = "lb" -> HalfEven(page.weight[1] * 453592, 10000)
         [] OTHER            -> page.weight[1] * 100

ExtractPackage(page) ==
  [weight_kg |-> Weight(page), volume_m3 |-> page.volume,
   piece_count |-> IF page.pieces = <<>> THEN 1 ELSE page.pieces[1]]

-----------------------------------------------------------------------------
Shows(page, marker) == \E i \in DOMAIN page.body : page.body[i].marker = marker

ToShipment(page) ==
  [out |-> "shipment", sender |-> Sender(page), receiver |-> Receiver(page),
   package |-> ExtractPackage(page), history |-> DedupeAndSort(ParsedEvents(page))]

(* PlaywrightHtmlFallback.fetch after the browser has closed.                *)
Scrape(page) ==
  IF Shows(page, "not found") THEN [out |-> "NotFoundError"]
  ELSE IF ~Shows(page, "detail") THEN [out |-> "UpstreamUnavailableError"]
  ELSE ToShipment(page)
=============================================================================
