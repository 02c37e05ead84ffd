------------------------------ MODULE CsvImport ------------------------------
(***************************************************************************)
(* One list of closed trades, written to every kind of file a user may     *)
(* upload, and read back by the parser.  Brokers write the files; their    *)
(* columns are those the parser's own documentation and tests name.        *)
(***************************************************************************)
EXTENDS CsvParser

CONSTANTS
    Closed,      \* trades that may be closed
    MaxClosed    \* bound on the length of the list

\* The words by which the parser tells the brokers' formats apart.
Marks == {"trade_date", "tradingsymbol", "ticket"} \cup OwnTimes \cup OwnDates

\* No symbol is one of these words, or the name of a side.
ASSUME ClosedAssumption ==
    /\ Closed \subseteq [at : Nat, symbol : {t.symbol : t \in Closed}, side : {"BUY", "SELL"},
                         entry : Nat, exit : Nat, qty : Nat, pnl : Int, fees : Nat]
    /\ \A t \in Closed : t.symbol \notin Marks \cup Sides

VARIABLE closed  \* closed trades, in the order of the file

FileInit == closed = <<>>

CloseTrade(t) == Len(closed) < MaxClosed /\ closed' = Append(closed, t)

FileNext == \E t \in Closed : CloseTrade(t)

FileSpec == FileInit /\ [][FileNext]_closed

-----------------------------------------------------------------------------
(* The files.                                                              *)

Commas(lines) == [delimiter |-> "comma", sniffed |-> "comma", lines |-> lines]
Header(names) == [c \in DOMAIN names |-> Word(names[c])]
Rows(Row(_))  == [i \in DOMAIN closed |-> Row(closed[i])]
Table(names, Row(_)) == Commas(<<Header(names)>> \o Rows(Row))

DayCell(t)  == Date(t.at \div 24)
HourCell(t) == Clock(t.at % 24)
Name(t) == Ticker(t.symbol, 0)
Type(t) == Ticker(t.side, 0)

\* export_csv: the backup of the user's own trades, with a note on each.
ExportNames ==
    <<"date", "symbol", "side", "entry_price", "exit_price", "quantity", "pnl", "duration",
      "setup", "notes", "fees", "mood", "reason", "rule_followed", "mistake_category">>
ExportRow(t, note) ==
    <<Moment(t.at), Name(t), Type(t), Number(t.entry), Number(t.exit), Number(t.qty),
      Number(t.pnl), Blank, Blank, note, Number(t.fees), Blank, Blank, Blank, Blank>>
Export(note) == Table(ExportNames, LAMBDA t : ExportRow(t, note))

\* A statement of MT4, where the profit is before commission.
StatementNames ==
    <<"ticket", "open time", "close time", "type", "size", "symbol", "open price", "close price",
      "commission", "swap", "profit">>
StatementRow(t) ==
    <<Number(1), Moment(t.at), Moment(t.at + 1), Type(t), Number(t.qty), Name(t), Number(t.entry),
      Number(t.exit), Number(-t.fees), Number(0), Number(t.pnl + t.fees)>>
Statement == Table(StatementNames, StatementRow)

\* Files without quantities and fees: date and time in columns of their own, after
\* each other or under a strange name; no known name but those of the prices; a
\* statement with dates that parse with a time only.
SplitNames == <<"symbol", "side", "open date", "open time", "entry", "exit", "profit">>
SplitRow(t) ==
    <<Name(t), Type(t), DayCell(t), HourCell(t), Number(t.entry), Number(t.exit), Number(t.pnl)>>
TimesNames == <<"session", "time", "symbol", "side", "entry", "exit", "pnl">>
TimesRow(t) ==
    <<DayCell(t), HourCell(t), Name(t), Type(t), Number(t.entry), Number(t.exit), Number(t.pnl)>>
StrangeNames == <<"side", "entry", "exit", "opened at", "what", "result">>
StrangeRow(t) ==
    <<Type(t), Number(t.entry), Number(t.exit), Moment(t.at), Name(t), Number(t.pnl)>>
DottedNames ==
    <<"ticket", "symbol", "type", "open date", "open time", "open price", "close price", "profit">>
DottedRow(t) ==
    <<Number(1), Name(t), Type(t), Dotted(t.at \div 24), HourCell(t), Number(t.entry),
      Number(t.exit), Number(t.pnl)>>

\* No header: the row of the parser's tests, with and without a profit.
BareRow(t) ==
    <<Name(t), Type(t), DayCell(t), HourCell(t), Number(t.entry), DayCell(t), HourCell(t),
      Number(t.exit)>>
MoneyRow(t) ==
    <<Name(t), Type(t), Moment(t.at), Number(t.entry), Number(t.exit), Money(t.pnl)>>

\* What a file without these columns can still hold.
Plain(t)  == t.qty = 1 /\ t.fees = 0
Priced(t) == t.entry > 0 /\ t.exit > 0
             /\ t.pnl = (IF t.side = "BUY" THEN t.exit - t.entry ELSE t.entry - t.exit)
All(P(_)) == \A i \in DOMAIN closed : P(closed[i])

Files ==
    {Export(Blank), Export(Word("ticket")), Statement}
    \cup (IF All(Plain)
          THEN {Table(SplitNames, SplitRow), Table(TimesNames, TimesRow),
                Table(DottedNames, DottedRow), Commas(Rows(MoneyRow))} ELSE {})
    \cup (IF All(Plain) /\ Len(closed) >= 3 THEN {Table(StrangeNames, StrangeRow)} ELSE {})
    \cup (IF All(Plain) /\ All(Priced) THEN {Commas(Rows(BareRow))} ELSE {})

-----------------------------------------------------------------------------
(* Properties.                                                             *)

\* What the header and the first cells of a row still say of a trade: what a number is
\* missing for counts as zero.
CutTrade(t, n) ==
    [t EXCEPT !.entry = IF n >= 4 THEN @ ELSE 0, !.exit = IF n >= 5 THEN @ ELSE 0,
              !.qty = IF n >= 6 THEN @ ELSE 0, !.pnl = IF n >= 7 THEN @ ELSE 0,
              !.fees = IF n >= 11 THEN @ ELSE 0]

\* The backup, whose i-th row ends after n cells.
Cut(i, n) == [Export(Blank) EXCEPT !.lines[i + 1] = SubSeq(@, 1, n)]

\* Whatever kind of file the trades come in, and whatever its detection and column
\* search have to go through, the same trades are read from it (csv_parser.py:35); an
\* exported backup among them, also when a note makes it look like a statement.
\* Tickers have no digits here: without a header those would be read as a price.
\* A row that ends after its side moves no value to another column and touches no
\* other row: its own trade lacks what it does not say (csv_parser.py:192).
FormatsAgree ==
    closed # <<>> =>
        /\ \A file \in Files : ParseCsv(file, "auto") = closed
        /\ \A i \in DOMAIN closed, n \in 3 .. Len(ExportNames) - 1 :
              ParseCsv(Cut(i, n), "auto") = [closed EXCEPT ![i] = CutTrade(@, n)]

\* "Returns normalized TradeCreate objects regardless of input, along with a list of
\* per-row error strings" (csv_parser.py:6).  In fact a row that ends before its side
\* has no string there (csv_parser.py:198), and what that raises the loop's handler
\* does not catch: the whole upload fails.
ShortRowReported ==
    \A i \in DOMAIN closed, n \in 1 .. 2 : ParseCsv(Cut(i, n), "auto") # Raises
=============================================================================
