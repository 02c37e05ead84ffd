------------------------------ MODULE CsvParser ------------------------------
(***************************************************************************)
(* csv_parser.py: how an uploaded file becomes trades.                     *)
(*                                                                         *)
(* A file is its lines, the delimiter they use and the one the sniffer     *)
(* finds.  A cell is what the code can tell of its text: its kind, the     *)
(* number in it and the word.  A timestamp is a number of hours, midnight  *)
(* a multiple of 24; amounts are whole numbers.  Of a row without a trade  *)
(* only that is kept, not its message; durations and notes are left out.   *)
(***************************************************************************)
EXTENDS Integers, Sequences, FiniteSets, SequencesExt, SortedLists

Cell(kind, n, s) == [kind |-> kind, n |-> n, s |-> s]
Date(day)    == Cell("date", 24 * day, "")       \* a date that parses alone
Dotted(day)  == Cell("dotted", 24 * day, "")     \* 2024.06.10 parses with a time only
Moment(t)    == Cell("moment", t, "")            \* date and time
Clock(hour)  == Cell("clock", hour, "")          \* 20:52
Number(n)    == Cell("number", n, "")
Money(n)     == Cell("money", n, "$")            \* with a currency symbol
Word(s)      == Cell("word", 0, s)
Ticker(s, n) == Cell("ticker", n, s)             \* upper-case letters, n its digits
Blank        == Cell("blank", 0, "")
Missing      == Cell("missing", 0, "")           \* None: the row ends before the column

Sides   == {"BUY", "SELL", "LONG", "SHORT"}
NoTime  == -1
NoTrade == [none |-> TRUE]
Crash   == [crash |-> TRUE]
Raises  == <<Crash>>          \* an exception nobody catches: no result at all

CellAt(row, c) == IF c <= Len(row) THEN row[c] ELSE Missing

\* _parse_timestamp of a cell, and of two cells joined by a blank.
Stamp(cell) == IF cell.kind \in {"date", "moment"} THEN cell.n ELSE NoTime
Stamped(a, b) ==
    IF b = Blank THEN Stamp(a)
    ELSE IF a = Blank THEN Stamp(b)
    ELSE IF a.kind \in {"date", "dotted"} /\ b.kind = "clock" THEN a.n + b.n ELSE NoTime

\* _parse_float: what is no number counts as zero; the digits of a ticker count.
Float(cell) == IF cell.kind \in {"number", "money", "ticker"} THEN cell.n ELSE 0

Direction(s) == IF s \in {"SELL", "SHORT"} THEN "SELL" ELSE "BUY"
Abs(n)       == IF n < 0 THEN -n ELSE n

Traded(verdicts) == Entries(verdicts, {i \in DOMAIN verdicts : verdicts[i] # NoTrade})

\* An exception on one row is one of the whole call.
Outcome(verdicts) ==
    IF Crash \in ToSet(verdicts) THEN Raises ELSE Traded(verdicts)

-----------------------------------------------------------------------------
(* The generic format.                                                     *)

\* COLUMN_ALIASES, the names that occur in the files here, in the table's order.
Aliases ==
    [timestamp   |-> <<"date", "timestamp", "trade_date", "open_date", "close_date",
                       "open_time", "close_time", "time">>,
     symbol      |-> <<"symbol", "ticker", "tradingsymbol">>,
     side        |-> <<"side", "type", "trade_type">>,
     entry_price |-> <<"entry_price", "entry", "open_price", "price">>,
     exit_price  |-> <<"exit_price", "exit", "close_price">>,
     quantity    |-> <<"quantity", "size", "volume">>,
     pnl         |-> <<"pnl", "profit", "amount">>,
     fees        |-> <<"fees", "commission">>]

\* Blanks in a column's name count as underscores.
Normal(name) ==
    CASE name = "open date"  -> "open_date"  [] name = "open time"  -> "open_time"
      [] name = "close date" -> "close_date" [] name = "close time" -> "close_time"
      [] name = "open price" -> "open_price" [] name = "close price" -> "close_price"
      [] OTHER -> name

\* _build_column_map: the column of the first alias the header has.
ColumnMap(header) ==
    LET Of(alias)   == {c \in DOMAIN header : Normal(header[c].s) = alias}
        Found(x)    == {i \in DOMAIN Aliases[x] : Of(Aliases[x][i]) # {}} IN
    [x \in {y \in DOMAIN Aliases : Found(y) # {}} |->
        CHOOSE c \in Of(Aliases[x][Min(Found(x))]) : TRUE]

Put(map, field, c) == [x \in DOMAIN map \cup {field} |-> IF x = field THEN c ELSE map[x]]

\* (mutant of WithTime) only a time column's date is looked for.
WithDate(map, header, first) ==
    LET ts == map.timestamp IN
    IF "timestamp" \in DOMAIN map /\ CellAt(first, ts).kind = "clock" /\ ts > 1
    THEN Put(Put(map, "timestamp", ts - 1), "time", ts) ELSE map

\* A time column's date is the column before it, a date column's time the one after
\* it, by the cells of the first row.
WithTime(map, header, first) ==
    LET ts == map.timestamp  cell == CellAt(first, ts)
        next == IF ts < Len(header) THEN CellAt(first, ts + 1) ELSE Blank IN
    IF "timestamp" \notin DOMAIN map THEN map
    ELSE IF cell.kind = "missing" THEN Put(map, "crash", ts)
    ELSE IF cell.kind = "clock" /\ ts > 1 /\ Stamp(CellAt(first, ts - 1)) # NoTime
         THEN Put(Put(map, "timestamp", ts - 1), "time", ts)
    ELSE IF Stamp(cell) # NoTime /\ Stamp(cell) % 24 = 0
         THEN IF next.kind = "missing" THEN Put(map, "crash", ts + 1)
              ELSE IF next.kind = "clock" THEN Put(map, "time", ts + 1) ELSE map
    ELSE map

\* The rows the search for a column looks at.
Sample(rows) == 1 .. Min({5, Len(rows)})

\* Without a date's name the timestamp is the first column with a date.  Each column
\* is gone through until a row has one; one that ends before the column raises.
ScanDate(map, header, rows) ==
    LET Ends(c) == {i \in Sample(rows) : CellAt(rows[i], c).kind \in {"missing", "date", "moment"}}
        ended   == {c \in DOMAIN header : Ends(c) # {}}
        column  == Min(ended) IN
    IF "timestamp" \in DOMAIN map \/ ended = {} THEN map
    ELSE IF CellAt(rows[Min(Ends(column))], column).kind = "missing"
         THEN Put(map, "crash", column) ELSE Put(map, "timestamp", column)

\* Another field without a column takes the first free column of which three of the
\* first five rows hold such cells.  A row that ends before a column looked at raises.
Scan(map, field, kinds, header, rows) ==
    LET free   == DOMAIN header \ {map[x] : x \in DOMAIN map}
        short  == {c \in free : \E i \in Sample(rows) : CellAt(rows[i], c).kind = "missing"}
        hits   == {c \in free : Cardinality({i \in Sample(rows) : CellAt(rows[i], c).kind \in kinds}) >= 3} IN
    IF field \in DOMAIN map \/ hits \cup short = {} THEN map
    ELSE IF Min(hits \cup short) \in short
         THEN Put(map, "crash", Min(short)) ELSE Put(map, field, Min(hits))

\* _build_column_map_smart.
SmartMap(header, rows) ==
    LET named == WithTime(ColumnMap(header), header, rows[1])
        dated == ScanDate(named, header, rows)
        paid  == Scan(dated, "pnl", {"number", "money"}, header, rows) IN
    Scan(paid, "symbol", {"word", "ticker"}, header, rows)

\* A row of a file with a header.  Cells that numbers are read from may be missing.
GenericTrade(map, row) ==
    LET Read(field) == IF field \in DOMAIN map THEN CellAt(row, map[field]) ELSE Blank
        time == Read("time")  date == Read("timestamp")
        ts   == IF time = Blank THEN Stamp(date) ELSE Stamped(date, time) IN
    IF time.kind = "missing" \/ (time # Blank /\ date.kind = "missing") THEN Crash
    ELSE IF ts = NoTime THEN NoTrade
    ELSE IF "missing" \in {Read("side").kind, Read("symbol").kind} THEN Crash
    ELSE [at |-> ts, side |-> Direction(Read("side").s),
          symbol |-> IF "symbol" \in DOMAIN map THEN Read("symbol").s ELSE "UNKNOWN",
          entry |-> Float(Read("entry_price")), exit |-> Float(Read("exit_price")),
          qty |-> IF "quantity" \in DOMAIN map THEN Float(Read("quantity")) ELSE 1,
          pnl |-> Float(Read("pnl")), fees |-> Float(Read("fees"))]

-----------------------------------------------------------------------------
(* Files without a header.                                                 *)

\* Adjacent cells that are a date and its time.
Pairs(row) ==
    {i \in 1 .. Len(row) - 1 : Stamp(row[i]) # NoTime /\ row[i + 1].kind = "clock"
                               /\ Stamped(row[i], row[i + 1]) # NoTime}

\* _scan_row_for_datetime: a single cell before two adjacent ones.
ScanRow(row) ==
    LET alone == {i \in DOMAIN row : Stamp(row[i]) # NoTime}
        two   == {i \in 1 .. Len(row) - 1 : Stamped(row[i], row[i + 1]) # NoTime} IN
    IF alone # {} THEN Stamp(row[Min(alone)])
    ELSE IF two # {} THEN Stamped(row[Min(two)], row[Min(two) + 1]) ELSE NoTime

\* The undated cells of a row name the symbol, by the first token, and hold the
\* prices, in the first two numbers.
FromCells(row, ts, side, cells) ==
    LET tokens == {i \in cells : row[i].kind \in {"word", "ticker", "money"} /\ row[i].s \notin Sides}
        digits == {i \in cells : row[i].kind \in {"number", "money", "dotted"} \/ row[i].n # 0}
        marked == {i \in DOMAIN row : row[i].kind = "money"}
        entry  == IF digits = {} THEN 0 ELSE Float(row[Min(digits)])
        exit   == IF Cardinality(digits) < 2 THEN 0 ELSE Float(row[Min(digits \ {Min(digits)})]) IN
    [at |-> ts, side |-> side, symbol |-> IF tokens = {} THEN "UNKNOWN" ELSE row[Min(tokens)].s,
     entry |-> entry, exit |-> exit, qty |-> 1, fees |-> 0,
     pnl |-> IF marked # {} THEN Float(row[Max(marked)])
             ELSE IF entry > 0 /\ exit > 0
                  THEN IF side = "BUY" THEN exit - entry ELSE entry - exit
             ELSE IF Cardinality(digits) = 1 THEN entry ELSE 0]

\* _parse_loose_trade_row: when, and which side.
LooseTrade(row) ==
    LET pairs  == Pairs(row)
        ts     == IF pairs # {} THEN Stamped(row[Min(pairs)], row[Min(pairs) + 1]) ELSE ScanRow(row)
        others == DOMAIN row \ (pairs \cup {i + 1 : i \in pairs})
        sided  == {i \in others : row[i].s \in Sides}
        Undated(S) == {i \in S : Stamp(row[i]) = NoTime /\ row[i].kind # "clock"} IN
    IF Len(row) < 2 \/ ts = NoTime THEN NoTrade
    ELSE IF sided = {} THEN FromCells(row, ts, "BUY", Undated(others))
    ELSE FromCells(row, ts, Direction(row[Min(sided)].s), Undated(others \ {Min(sided)}))

\* _parse_headerless.  What it finds out about columns decides nothing: only rows
\* without any date are read by columns, and their date is not found there either.
Headerless(lines) ==
    IF Len(lines[1]) < 2 THEN <<>> ELSE Outcome([i \in DOMAIN lines |-> LooseTrade(lines[i])])

\* The first line is data: hardly a known name, and a date or a ticker in it.
LooksLikeData(header) ==
    /\ Cardinality(DOMAIN ColumnMap(header)) <= 1 /\ Len(header) >= 3
    /\ \/ \E c \in DOMAIN header : Stamp(header[c]) # NoTime
       \/ Stamped(header[1], header[2]) # NoTime
       \/ header[1].kind = "ticker"

\* _parse_generic.
GenericRows(map, rows) ==
    IF "crash" \in DOMAIN map THEN Raises
    ELSE IF "timestamp" \notin DOMAIN map THEN <<>>
    ELSE Outcome([i \in DOMAIN rows |-> GenericTrade(map, rows[i])])

Generic(lines) ==
    IF LooksLikeData(lines[1]) THEN Headerless(lines)
    ELSE IF Len(lines) = 1 THEN <<>>
    ELSE GenericRows(SmartMap(lines[1], Tail(lines)), Tail(lines))

-----------------------------------------------------------------------------
(* The formats of brokers.                                                 *)

\* The cell of the first of these columns the header has, or the default.
Field(header, row, names, default) ==
    LET found == {i \in DOMAIN names : Word(names[i]) \in ToSet(header)} IN
    IF found = {} THEN default
    ELSE row[CHOOSE c \in DOMAIN header : header[c] = Word(names[Min(found)])]

\* Both parsers strip every cell of a row, and None has no strip.
Ragged(header, rows) == \E i \in DOMAIN rows : Len(rows[i]) # Len(header)

\* (mutant of BuyFirst) of two legs at one time the sale comes first.
BuyStrictlyFirst(buyTime, sellTime, buyPos, sellPos) ==
    IF buyTime = NoTime /\ sellTime = NoTime THEN buyPos < sellPos
    ELSE IF buyTime = NoTime THEN FALSE
    ELSE sellTime = NoTime \/ buyTime < sellTime

\* Which leg opened the trade.
BuyFirst(buyTime, sellTime, buyPos, sellPos) ==
    IF buyTime = NoTime /\ sellTime = NoTime THEN buyPos < sellPos
    ELSE IF buyTime = NoTime THEN FALSE
    ELSE sellTime = NoTime \/ buyTime <= sellTime

\* Of the legs of one day and symbol the n-th buy and the n-th sell are partners.
Fellows(group, i)     == {j \in DOMAIN group : group[j] = group[i]}
Rank(group, side, i)  == Cardinality({j \in Fellows(group, i) : side[j] = side[i] /\ j < i})
Partners(group, side) ==
    {p \in (DOMAIN group) \X (DOMAIN group) :
        /\ side[p[1]] = "BUY" /\ side[p[2]] = "SELL" /\ group[p[1]] = group[p[2]]
        /\ Rank(group, side, p[1]) = Rank(group, side, p[2])}

\* They are listed group by group, as first seen, and by the buy.
Paired(group, side) ==
    LET first(p) == Min(Fellows(group, p[1])) IN
    Sorted([p \in Partners(group, side) |-> {q \in Partners(group, side) :
               \/ first(q) < first(p)
               \/ first(q) = first(p) /\ q[1] < p[1]}])

\* Partners are a trade, of the quantity bought.
Partnership(header, rows, b, s) ==
    LET Get(i, name) == Field(header, rows[i], <<name>>, Blank)
        Time(i) == Stamp(Field(header, rows[i], <<"order_execution_time", "trade_date">>, Blank))
        buy  == Float(Get(b, "price"))
        sell == Float(Get(s, "price"))
        qty  == Float(Field(header, rows[b], <<"quantity">>, Number(1)))
        long == BuyFirst(Time(b), Time(s), b, s) IN
    IF Stamp(Get(b, "trade_date")) = NoTime THEN NoTrade
    ELSE [at |-> Stamp(Get(b, "trade_date")), side |-> IF long THEN "BUY" ELSE "SELL",
          symbol |-> Get(b, "tradingsymbol").s,
          entry |-> IF long THEN buy ELSE sell, exit |-> IF long THEN sell ELSE buy,
          qty |-> qty, pnl |-> (sell - buy) * qty, fees |-> 0]

\* _parse_zerodha: a leg without partner is dropped.
ZerodhaRows(header, rows) ==
    LET Get(i, name) == Field(header, rows[i], <<name>>, Blank)
        order == Paired([i \in DOMAIN rows |-> <<Get(i, "trade_date"), Get(i, "tradingsymbol")>>],
                        [i \in DOMAIN rows |-> Get(i, "trade_type").s]) IN
    IF Ragged(header, rows) THEN Raises
    ELSE Outcome([i \in DOMAIN order |-> Partnership(header, rows, order[i][1], order[i][2])])
Zerodha(lines) == ZerodhaRows(lines[1], Tail(lines))

\* The names a statement has for dates and times in columns of their own.
OwnDates == {"open date", "close date"}
OwnTimes == {"open time", "close time"}

\* The names of the columns of a statement, in the order they are looked for.
StatementColumns ==
    [type |-> <<"type", "direction">>, date |-> <<"open date", "opened">>,
     clock |-> <<"open time">>, moment |-> <<"open time", "opentime">>,
     symbol |-> <<"symbol", "item", "instrument">>, size |-> <<"size", "volume">>,
     open |-> <<"open price", "openprice", "open">>,
     close |-> <<"close price", "closeprice", "close">>,
     commission |-> <<"commission", "comm">>, swap |-> <<"swap">>, profit |-> <<"profit">>]

\* A row that is no buy or sell (a deposit, a total) is passed over.
StatementTrade(header, row) ==
    LET Get(column) == Field(header, row, StatementColumns[column], Blank)
        split == \E name \in OwnDates : Word(name) \in ToSet(header)
        ts    == IF split THEN Stamped(Get("date"), Get("clock")) ELSE Stamp(Get("moment"))
        cost  == <<Float(Get("commission")), Float(Get("swap"))>> IN
    IF Get("type").s \notin {"BUY", "SELL"} \/ ts = NoTime THEN NoTrade
    ELSE [at |-> ts, side |-> Get("type").s,
          symbol |-> Field(header, row, StatementColumns["symbol"], Ticker("UNKNOWN", 0)).s,
          entry |-> Float(Get("open")), exit |-> Float(Get("close")),
          qty |-> Float(Field(header, row, StatementColumns["size"], Number(1))),
          pnl |-> Float(Get("profit")) + cost[1] + cost[2],
          fees |-> Abs(cost[1]) + Abs(cost[2])]

\* _parse_mt4.
Mt4(lines) ==
    LET header == lines[1]  rows == Tail(lines) IN
    IF Ragged(header, rows) THEN Raises
    ELSE Outcome([i \in DOMAIN rows |-> StatementTrade(header, rows[i])])

-----------------------------------------------------------------------------
(* parse_csv.                                                              *)

\* _detect_format, by words among the first lines.
DetectFormat(lines) ==
    LET Has(words) == \E i \in DOMAIN lines : \E c \in DOMAIN lines[i] : lines[i][c].s \in words IN
    IF Has({"trade_date", "tradingsymbol"}) THEN "zerodha"
    ELSE IF Has({"ticket"}) THEN "mt4"
    ELSE IF Has(OwnTimes) /\ ~Has(OwnDates) THEN "mt4"
    ELSE "generic"

\* What one parser makes of a file.  With a delimiter that is not the file's every
\* line is one cell, in which no parser finds a date or a type.
Parsed(file, format, delimiter) ==
    IF delimiter # file.delimiter \/ file.lines = <<>> THEN <<>>
    ELSE CASE format = "generic" -> Generic(file.lines) [] format = "mt4" -> Mt4(file.lines)
           [] format = "zerodha" -> Zerodha(file.lines)

\* The detected parser, the generic one, then all of them with another delimiter:
\* the first that finds a trade, or raises, decides.
ParseCsv(file, broker) ==
    LET format == IF broker = "auto" THEN DetectFormat(file.lines) ELSE broker
        other  == IF file.sniffed = "tab" THEN "comma" ELSE "tab"
        tries  == << <<format, file.sniffed>>, <<"generic", file.sniffed>>,
                     <<"generic", other>>, <<"mt4", other>>, <<"zerodha", other>> >>
        results == [k \in DOMAIN tries |-> Parsed(file, tries[k][1], tries[k][2])]
        good    == {k \in DOMAIN tries : results[k] # <<>>} IN
    IF good = {} THEN <<>> ELSE results[Min(good)]
=============================================================================
