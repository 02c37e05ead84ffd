----------------------------- MODULE Tradebooks -----------------------------
(***************************************************************************)
(* The completed orders of one day reach the program in two ways: from the *)
(* broker's API, where OrderMatcher pairs them, or in a tradebook the user *)
(* downloads from the broker and uploads, where the parser does.           *)
(***************************************************************************)
EXTENDS OrderMatcher, CsvParser

\* The first order in the broker's list is on the first row.
ASSUME ListAssumption == Orders = 1 .. Cardinality(Orders)

\* A price is the number of the order: no two of them are the same.
Headings ==
    <<"trade_date", "tradingsymbol", "trade_type", "quantity", "price", "order_execution_time">>
Leg(o) ==
    <<Date(1), Ticker(book[o].symbol, 0), Word(book[o].side), Number(book[o].qty), Number(o),
      Moment(24 + book[o].time)>>
Tradebook == <<[c \in DOMAIN Headings |-> Word(Headings[c])]>> \o [o \in Orders |-> Leg(o)]

\* The parser neither splits orders nor sorts them, so that it can pair those only where
\* the orders of a symbol have one quantity, and its buys, and its sales, are listed in
\* the order of time.
Pairable ==
    \A o, p \in Orders : book[o].symbol = book[p].symbol =>
        /\ book[o].qty = book[p].qty
        /\ book[o].side = book[p].side /\ o < p => book[o].time <= book[p].time

\* What the API's trade must be among those read: at the prices of its two orders.
ReadAs(t, r) ==
    LET long == t.side = "BUY" IN
    /\ r.symbol = book[t.buy].symbol /\ r.qty = t.qty /\ r.side = t.side
    /\ r.pnl = (t.sell - t.buy) * t.qty
    /\ r.entry = (IF long THEN t.buy ELSE t.sell) /\ r.exit = (IF long THEN t.sell ELSE t.buy)

Download == [delimiter |-> "comma", sniffed |-> "comma", lines |-> Tradebook]

\* The orders of a day with a round trip are the same round trips, whether the broker's
\* API lists them (broker_sync.py:64) or a tradebook the user uploads (csv_parser.py:35):
\* none is missing, none is read twice, and each has the direction and the profit it has
\* there.  Of a day without one every leg is a trade: the generic parser reads the rows
\* in which the tradebook's has found none (csv_parser.py:63).
PairingsAgree ==
    rest = {} /\ ~Matching /\ Pairable /\ trades # {} =>
        LET read == ParseCsv(Download, "auto") IN
        /\ Len(read) = Cardinality(trades)
        /\ \A t \in trades : \E i \in DOMAIN read : ReadAs(t, read[i])
=============================================================================
