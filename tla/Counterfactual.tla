--------------------------- MODULE Counterfactual ---------------------------
(***************************************************************************)
(* CounterfactualEngine: the trades each scenario takes out of a history   *)
(* and what they made.  An insight is its id, the positions it affects and *)
(* its impact; severity, projection, confidence, statistics and texts are  *)
(* functions of these and left out.                                        *)
(***************************************************************************)
EXTENDS TradeHistory

Insight(h, id, I) == [id |-> id, affected |-> I, impact |-> PnlOf(h, I)]

\* A scenario speaks up from so many affected trades on.
AtLeast(n, h, id, I) == IF Cardinality(I) < n THEN NoResult ELSE Insight(h, id, I)

\* (mutant of RevengeCost) a trade in the same minute counts.
RevengeFromZero(h) ==
    AtLeast(2, h, "revenge_trades",
        {i \in 2 .. Len(h) : h[i - 1].pnl < 0 /\ h[i].at - h[i - 1].at \in 0 .. 5})

RevengeCost(h) ==
    AtLeast(2, h, "revenge_trades",
        {i \in 2 .. Len(h) : h[i - 1].pnl < 0 /\ h[i].at - h[i - 1].at \in 1 .. 5})

\* The trades of a day beyond twice the daily average, cut to a whole number.
OvertradingCost(h, z) ==
    LET days      == Grouped(DayOf(h, z))
        threshold == (2 * Len(h)) \div Cardinality(DOMAIN days)
        excess    == UNION {{i \in days[d] : Cardinality({j \in days[d] : j <= i}) > threshold}
                              : d \in DOMAIN days}
    IN  IF Cardinality(DOMAIN days) < 5 \/ threshold < 4 THEN NoResult
        ELSE AtLeast(3, h, "overtrading", excess)

\* A size increase of more than a fifth after two losses or more.
TiltCost(h) ==
    AtLeast(2, h, "tilt_sizing",
        {i \in 2 .. Len(h) : LossesUpTo(h, i - 1) >= 2 /\ 5 * h[i].qty > 6 * h[i - 1].qty})

BadHoursCost(h, z) ==
    LET hours == Grouped(HourOf(h, z))
        bad   == {k \in DOMAIN hours : Cardinality(hours[k]) >= 5 /\ PnlOf(h, hours[k]) < 0}
    IN  IF bad = {} THEN NoResult ELSE Insight(h, "bad_hours", UNION {hours[k] : k \in bad})

\* The worst day of the week, by its sum; the impact is that sum.
BadDaysCost(h, z) ==
    LET days  == Grouped(WeekdayOf(h, z))
        loss  == [d \in DOMAIN days |-> -PnlOf(h, days[d])]
        worst == Leading(loss, [d \in DOMAIN days |-> Min(days[d])])
    IN  IF loss[worst] <= 0 \/ Cardinality(days[worst]) < 5 THEN NoResult
        ELSE [id |-> "bad_day_of_week", affected |-> days[worst], impact |-> -loss[worst]]

\* The last trades of days with three or more, when they win more than five
\* points less often than the others.
LastTradeCost(h, z) ==
    LET days   == Grouped(DayOf(h, z))
        last   == {Max(days[d]) : d \in {e \in DOMAIN days : Cardinality(days[e]) >= 3}}
        others == Positions(h) \ last
        n == Cardinality(last)   m == Max({1, Cardinality(others)})
    IN  IF n < 5 \/ 100 * Cardinality(Wins(h, last)) * m
                      >= (100 * Cardinality(Wins(h, others)) - 5 * m) * n
        THEN NoResult ELSE Insight(h, "last_trade_of_day", last)

\* Quantities within a standard deviation of a tenth of their mean are a credit;
\* otherwise the losses of more than one and a half times the mean.
SizingCost(h) ==
    LET n == Len(h)   total == MapThenSumSet(LAMBDA i : h[i].qty, Positions(h))
        spread == MapThenSumSet(LAMBDA i : (n * h[i].qty - total) * (n * h[i].qty - total), Positions(h))
    IN  IF n < 20 THEN NoResult
        ELSE IF 100 * spread < total * total * (n - 1)
             THEN [id |-> "consistent_sizing", affected |-> {}, impact |-> 0]
        ELSE AtLeast(3, h, "oversized_losers",
                {i \in Positions(h) : 2 * n * h[i].qty > 3 * total /\ h[i].pnl < 0})

\* The hours that made four fifths of the profit or more.  Nothing is taken out.
OptimalSession(h, z) ==
    LET hours == Grouped(HourOf(h, z))
        good  == {k \in DOMAIN hours : Cardinality(hours[k]) >= 5 /\ PnlOf(h, hours[k]) > 0}
        edge  == PnlOf(h, UNION {hours[k] : k \in good})
    IN  IF good = {} \/ NetPnl(h) <= 0 \/ 5 * edge < 4 * NetPnl(h) THEN NoResult
        ELSE [id |-> "optimal_session", affected |-> {}, impact |-> edge]

\* (mutant of EquityCurve) the excluded positions are counted from zero.
EquityCurveFromZero(h, excluded) ==
    LET days == Grouped(DayOf(h, 0)) IN
    [d \in DOMAIN days |-> PnlOf(h, {i \in 1 .. Max(days[d]) : i - 1 \notin excluded})]

\* _build_equity_curve: the running sum at the end of each day, in UTC whatever
\* the offset.
EquityCurve(h, excluded) ==
    LET days == Grouped(DayOf(h, 0)) IN
    [d \in DOMAIN days |-> PnlOf(h, (1 .. Max(days[d])) \ excluded)]

\* _insight_to_dict's chart: both curves over the last thirty days, the second at
\* zero where a scenario takes nothing out.
Chart(h, insight) ==
    LET actual == EquityCurve(h, {})
        latest == {d \in DOMAIN actual : Cardinality({e \in DOMAIN actual : e > d}) < 30} IN
    [d \in latest |-> [actual |-> actual[d],
                       counterfactual |-> IF insight.affected = {} THEN 0
                                          ELSE EquityCurve(h, insight.affected)[d]]]

\* The insights found, the largest impact of either sign first.
Largest(found) ==
    LET size  == [k \in DOMAIN found |->
                    IF found[k] = NoResult THEN 0 ELSE Max({found[k].impact, -found[k].impact})]
        order == RankedBy({k \in DOMAIN found : found[k] # NoResult}, size, [k \in DOMAIN found |-> k])
    IN  [k \in 1 .. Len(order) |-> found[order[k]]]

\* analyze, from ten trades on.
Insights(h, z) ==
    IF Len(h) < 10 THEN <<>>
    ELSE Largest(<< RevengeCost(h), OvertradingCost(h, z), TiltCost(h), BadHoursCost(h, z),
                    BadDaysCost(h, z), LastTradeCost(h, z), SizingCost(h), OptimalSession(h, z) >>)

Leaks(h, z) ==
    LET all == Insights(h, z) IN Entries(all, {k \in DOMAIN all : all[k].impact < 0})

\* money leaked, edge value, actual and potential total of the summary.
Totals(insights, net) ==
    LET Of(sign) == SumFunctionOnSet([k \in DOMAIN insights |-> insights[k].impact],
                                     {k \in DOMAIN insights : sign * insights[k].impact > 0})
    IN  [leaked |-> Of(-1), edge |-> Of(1), actual |-> net, potential |-> net - Of(-1)]

Summary(h, z) == Totals(Insights(h, z), NetPnl(h))
=============================================================================
