---------------------------- MODULE TradeHistory ----------------------------
(***************************************************************************)
(* A user's trades as the report engines read them: a sequence in          *)
(* timestamp order.  A timestamp is a number of minutes since a Monday,    *)
(* 00:00 UTC; z is the user's timezone offset in hours.  Amounts and       *)
(* quantities are whole numbers.                                           *)
(***************************************************************************)
EXTENDS Integers, Sequences, FiniteSets, FiniteSetsExt, SequencesExt, SortedLists

Unset    == "null"                 \* a tag nobody has set
NoResult == [missing |-> TRUE]     \* of a detector without enough to go on

Positions(h) == 1 .. Len(h)
Higher(a, b) == IF a > b THEN a ELSE b

LocalDay(t, z)  == (t.at + 60 * z) \div 1440
LocalHour(t, z) == ((t.at + 60 * z) % 1440) \div 60
Weekday(t, z)   == LocalDay(t, z) % 7

PnlOf(h, I) == SumFunctionOnSet([i \in Positions(h) |-> h[i].pnl], I)
NetPnl(h)   == PnlOf(h, Positions(h))
Wins(h, I)  == {i \in I : h[i].pnl > 0}

\* What the engines group trades by.
DayOf(h, z)     == [i \in Positions(h) |-> LocalDay(h[i], z)]
HourOf(h, z)    == [i \in Positions(h) |-> LocalHour(h[i], z)]
WeekdayOf(h, z) == [i \in Positions(h) |-> Weekday(h[i], z)]

\* The defaultdict of lists they are grouped in: positions by key.
Grouped(key) == [k \in {key[i] : i \in DOMAIN key} |-> {i \in DOMAIN key : key[i] = k}]

\* max(d, key=gain): of equal gains the one that comes first in the dictionary.
Leading(gain, order) ==
    CHOOSE k \in DOMAIN gain : \A j \in DOMAIN gain \ {k} :
        gain[k] > gain[j] \/ (gain[k] = gain[j] /\ order[k] < order[j])

\* The best first, equal ones in the order they had.
RankedBy(S, gain, order) ==
    Sorted([k \in S |-> {j \in S : gain[j] > gain[k]
                                   \/ (gain[j] = gain[k] /\ order[j] < order[k])}])

\* The keys of the dictionary, in the order they were first seen.
Keys(key) == Entries(key, {i \in DOMAIN key : \A j \in DOMAIN key : j < i => key[j] # key[i]})

\* Consecutive losses up to and including position i.
LossesUpTo(h, i) ==
    LET run[k \in 0 .. i] == IF k = 0 \/ h[k].pnl >= 0 THEN 0 ELSE run[k - 1] + 1 IN run[i]
=============================================================================
