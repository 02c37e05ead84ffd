--------------------------- MODULE SampleHistories ---------------------------
(* Short histories of every shape, and long ones that reach the engines'   *)
(* thresholds, each with its neighbours.                                   *)
EXTENDS TradeHistory

\* Week 10 begins at day 70.
At(day, minute) == 1440 * (70 + day) + minute

Fresh(at, pnl, qty) ==
    [at |-> at, pnl |-> pnl, qty |-> qty, symbol |-> IF qty = 1 THEN "A" ELSE "B",
     mood |-> Unset, mistake |-> Unset, followed |-> Unset, brief |-> pnl = -2]

MCArrivals ==
    {Fresh(At(place[1], place[2]), pnl, 1) :
        place \in {<<0, 600>>, <<0, 604>>, <<1, 600>>, <<7, 1380>>}, pnl \in {-2, 3}}
        \cup {Fresh(At(1, 600), 0, 1)}

\* Five quiet days and a crowded one, with revenge, tilt and oversized losses.
Crowded ==
    [i \in 1 .. 5 |-> Fresh(At(i - 1, 600), IF i = 2 THEN -40 ELSE 30, 1)]
        \o [i \in 1 .. 16 |-> Fresh(At(5, 440 + (IF i < 9 THEN 4 ELSE 60) * i),
                                   IF i % 4 = 0 THEN 20 ELSE -60, IF i % 4 = 3 THEN 5 ELSE 1)]

\* Four trades a day over five weekdays: good mornings, late losses, a bad Monday.
Steady ==
    [i \in 1 .. 20 |->
        LET d == (i - 1) \div 4 IN
        Fresh(At(d, 500 + 200 * ((i - 1) % 4)),
              IF i % 4 = 0 \/ d = 0 THEN -90 ELSE 50, IF i % 4 = 0 THEN 5 ELSE 2)]

\* Five losses of a Monday at as many hours, and two trades in revenge elsewhere.
Apart ==
    [i \in 1 .. 5 |-> Fresh(At(0, 500 + 100 * i), -7, 1)]
        \o [i \in 1 .. 10 |-> Fresh(At((i + 1) \div 2, 60 * i + (IF i % 2 = 0 THEN 5 - 60 ELSE 0)),
                                   IF i < 5 THEN -3 ELSE 40, 1)]

\* A trade a day for a month, of one size.
Month == [i \in 1 .. 31 |-> Fresh(At(i - 25, 700), ((i * 37) % 11) - 4, 2)]

MCBooks  == {<< <<>>, 4 >>} \cup ({Crowded, Steady, Apart, Month} \X {1})
LongBooks == {Crowded, Steady} \X {1}
MCTexts  == STRING
MCWeeks  == {At(3, 0), At(7, 602), At(14, 0)}
=============================================================================
