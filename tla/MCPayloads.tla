----------------------------- MODULE MCPayloads -----------------------------
(* Bounded inputs for Payloads: every combination of the fields that decide
   about one thing, the others left out.  A field that is None is null.      *)
EXTENDS Payloads

(* Resolver payloads *)
Items2 ==
  {Object([type |-> t, id |-> i, reference |-> r]) :
     t \in {None, Word("sea"), Word("rail")},
     i \in {None, Blank, Word("x")},
     r \in {None, Number(7)}}
  \cup {Junk, Object([shipmentType |-> Word("se"), shipmentId |-> Word("y")])}

Lists2 == {List(s) : s \in BoundedSeq(Items2, 2)}
Few == {None, Empty, Junk, List(<<>>), List(<<Object([id |-> Word("x")])>>), Object([id |-> Word("x")])}

AnyResolver ==
  Lists2 \cup Few \cup {Object([shipments |-> l]) : l \in Few} \cup {Object([items |-> l]) : l \in Few}
  \cup {Object([shipments |-> l, items |-> m]) : l \in Few, m \in Few}

(* Detail payloads *)
Early == Date("aware", 1)
Late  == Date("aware", 2)
Plain == Date("naive", 1)

Entries ==
  {Object([at |-> a, timestamp |-> b, status |-> s]) :
     a \in {None, Junk, Early, Late, Plain}, b \in {None, Early},
     s \in {None, Blank, Word("s"), Word("t")}}
  \cup {Junk}
Told == {Object([eventTime |-> a, type |-> s]) : a \in {Early, Late, Plain}, s \in {Word("s"), Word("t")}}
Histories == BoundedSeq(Entries, 2) \cup BoundedSeq(Told, 4)

Packages ==
  {Object([pieceCount |-> c, weight |-> w, dimensions |-> d, length |-> l]) :
     c \in {None, Junk, Number(0), Number(3), Infinity, List(<<Junk>>)},
     w \in {None, Junk, Number(3), NaN, Infinity},
     d \in {None, Junk, Object([length |-> Number(4)]), Object([length |-> NaN]), Object([length |-> Infinity])},
     l \in {None, Number(5), Infinity}}

Nodes ==
  {None, Junk, List(<<Junk>>)} \cup
  {Object([name |-> n, companyName |-> Word("c"), address |-> a, city |-> Word("d")]) :
     n \in {None, Blank, Word("n")},
     a \in {None, Junk, Object(<<>>), Object([city |-> Blank, zipCode |-> Number(4)])}}

AnyDetail ==
  {None, Junk, List(<<Junk>>), Object(<<>>)}
  \cup {Object([events |-> List(s)]) : s \in Histories}
  \cup {Object([events |-> v, statusHistory |-> List(s)]) :
          v \in {None, List(<<>>), Junk}, s \in BoundedSeq(Told, 2)}
  \cup {Object([package |-> p]) : p \in Packages}
  \cup {Object([goods |-> Object([colli |-> c, volume |-> NaN]), history |-> List(s)]) :
          c \in {Number(2), Infinity}, s \in BoundedSeq(Told, 2)}
  \cup {Object([sender |-> s, to |-> r]) : s \in Nodes, r \in Nodes}

(* Pages *)
Label(l) == [Piece(l) EXCEPT !.label = l]
Markers  == {[Piece("DWB Number") EXCEPT !.marker = "detail"],
             [Label("Shipment") EXCEPT !.marker = "detail"]}
Lines ==
  {Label("Sender"), Label("Receiver"), Label("Consignee"), Label("Package"),
   Piece("name"), [Piece("Box 1000") EXCEPT !.digits = "some"],
   [Piece("address") EXCEPT !.digits = "address"]}

Texts == {l \in Lines : l.label = Absent}
TwoBlocks ==
  {<<Label("Sender"), u, v, Label(r), w, x, Label("Package")>> :
     r \in {"Receiver", "Consignee"}, u \in Texts, v \in Texts, w \in Texts, x \in Texts}

Page(body, rows) ==
  [body |-> body, rows |-> rows, senderName |-> Absent, receiverName |-> Absent,
   weight |-> <<>>, unit |-> Absent, pieces |-> <<>>, volume |-> Absent]

Shipped == <<[Piece("DWB Number") EXCEPT !.marker = "detail"]>>
Missing == <<[Label("Shipment") EXCEPT !.marker = "not found"]>>

Happened(text, date, time, says) ==
  [Piece(text) EXCEPT !.date = date, !.time = time, !.says = says]
Rows ==
  {Happened("a", <<2025, 12, 18>>, <<9, 30>>, {"delivered", "out_for_delivery"}),
   Happened("b", <<18, 12, 2025>>, <<9, 30>>, {"out_for_delivery"}),
   Happened("c", <<2025, 12, 19>>, <<>>, {"not_loaded"}),
   Happened("d", <<17, 12, 2025>>, <<>>, {}),
   Happened("e", <<2025, 2, 29>>, <<>>, {"booked"}),
   Happened("f", <<2025, 12, 20>>, <<24, 0>>, {"arrived"}),
   [Happened("g", <<2025, 12, 21>>, <<>>, {"arrived"}) EXCEPT !.header = TRUE],
   [Happened("h", <<2025, 12, 21>>, <<>>, {"arrived"}) EXCEPT !.length = 301]}

AnyPage ==
  {Page(s \o <<m>>, <<>>) : s \in BoundedSeq(Lines, 4) \cup TwoBlocks, m \in Markers}
  \cup {[Page(s \o Shipped, <<>>) EXCEPT !.senderName = "n", !.receiverName = r] :
          s \in BoundedSeq(Lines, 2), r \in {Absent, "n"}}
  \cup {Page(Shipped, s) : s \in BoundedSeq(Rows, 4)}
  \cup {Page(Shipped \o s, t) : s \in BoundedSeq(Rows, 2), t \in BoundedSeq(Rows, 1)}
  \cup {Page(s \o t, <<>>) : s \in {<<>>, Missing}, t \in {<<>>, Shipped}}
  \cup {[Page(Shipped, <<>>) EXCEPT !.weight = w, !.unit = u, !.pieces = p] :
          w \in {<<>>, <<12>>, <<625>>}, u \in {Absent, "kg", "t", "lb"}, p \in {<<>>, <<0>>, <<3>>}}
=============================================================================
