----------------------------- MODULE Behavioral -----------------------------
(***************************************************************************)
(* BehavioralAnalyzer: which trades each detector lists and the counts and *)
(* sums it reports of them; alerts are texts about these and left out.     *)
(***************************************************************************)
EXTENDS TradeHistory

Figures(h, I) == [trades |-> Cardinality(I), wins |-> Cardinality(Wins(h, I)), pnl |-> PnlOf(h, I)]

\* Right after a loss, within five minutes of it.
RevengeTrades(h) ==
    {i \in 2 .. Len(h) : h[i - 1].pnl < 0 /\ h[i].at - h[i - 1].at \in 1 .. 5}

\* Days with more than twice the average number of trades.
OvertradingDays(h, z) ==
    LET days == Grouped(DayOf(h, z)) IN
    {d \in DOMAIN days : Cardinality(days[d]) * Cardinality(DOMAIN days) > 2 * Len(h)}

TiltEvents(h) ==
    {i \in 2 .. Len(h) : LossesUpTo(h, i - 1) >= 2 /\ 5 * h[i].qty > 6 * h[i - 1].qty}

\* The trades that end a streak of three or more wins, or losses.  What follows a
\* streak is therefore never a trade of the streak's own kind.
StreakEnders(h, Match(_)) ==
    LET run[i \in 0 .. Len(h)] == IF i = 0 \/ ~Match(h[i]) THEN 0 ELSE run[i - 1] + 1 IN
    {i \in Positions(h) : ~Match(h[i]) /\ run[i - 1] >= 3}

AfterWins(h)   == StreakEnders(h, LAMBDA t : t.pnl > 0)
AfterLosses(h) == StreakEnders(h, LAMBDA t : t.pnl < 0)

\* One day of the week against the others: ten points apart and five trades.
DayEffect(h, target, z) ==
    LET on  == {i \in Positions(h) : Weekday(h[i], z) = target}
        off == Positions(h) \ on
        gap == 100 * (Cardinality(Wins(h, on)) * Cardinality(off)
                        - Cardinality(Wins(h, off)) * Cardinality(on))
    IN  IF on = {} \/ off = {} THEN NoResult
        ELSE [target |-> Figures(h, on), others |-> Figures(h, off),
              significant |-> /\ Cardinality(on) >= 5
                              /\ Max({gap, -gap}) > 10 * Cardinality(on) * Cardinality(off)]

\* The first or last trade of the days with two or more, from five such days on.
PositionInDay(h, position, z) ==
    LET days   == Grouped(DayOf(h, z))
        multi  == {d \in DOMAIN days : Cardinality(days[d]) >= 2}
        target == {IF position = "first" THEN Min(days[d]) ELSE Max(days[d]) : d \in multi}
    IN  IF Cardinality(multi) < 5 THEN NoResult
        ELSE [target |-> target, rest |-> UNION {days[d] : d \in multi} \ target]

\* Sizes after a win and after a loss.
SizingAfterOutcome(h) ==
    LET win  == {i \in 2 .. Len(h) : h[i - 1].pnl > 0}
        loss == {i \in 2 .. Len(h) : h[i - 1].pnl < 0}
        Total(I) == MapThenSumSet(LAMBDA i : h[i].qty, I)
    IN  IF win = {} \/ loss = {} THEN NoResult
        ELSE [win |-> <<Total(win), Cardinality(win)>>, loss |-> <<Total(loss), Cardinality(loss)>>]

\* Trades after a gap shorter than the average, and the others; simultaneous
\* trades have no gap.
TimeBetweenTrades(h) ==
    LET gap  == [i \in 2 .. Len(h) |-> h[i].at - h[i - 1].at]
        gaps == {i \in 2 .. Len(h) : gap[i] > 0}
        fast == {i \in gaps : gap[i] * Cardinality(gaps) < MapThenSumSet(LAMBDA k : gap[k], gaps)}
    IN  IF Len(h) < 10 \/ gaps = {} THEN NoResult
        ELSE [fast |-> Figures(h, fast), slow |-> Figures(h, gaps \ fast)]

Behavior(h, z) ==
    IF Len(h) < 5 THEN NoResult
    ELSE [revenge |-> Figures(h, RevengeTrades(h)), overtrading |-> OvertradingDays(h, z),
          tilt |-> Figures(h, TiltEvents(h)),
          wins |-> Figures(h, AfterWins(h)), losses |-> Figures(h, AfterLosses(h)),
          monday |-> DayEffect(h, 0, z), friday |-> DayEffect(h, 4, z),
          first |-> PositionInDay(h, "first", z), last |-> PositionInDay(h, "last", z),
          sizing |-> SizingAfterOutcome(h), pace |-> TimeBetweenTrades(h)]
=============================================================================
