---------------------------- MODULE WeeklyReport ----------------------------
(***************************************************************************)
(* WeeklyReportEngine.  now is the end of the week in minutes, as given by *)
(* week_of or read from a clock shifted by the user's offset; timestamps   *)
(* are compared with it unshifted.                                         *)
(***************************************************************************)
EXTENDS Counterfactual

Week == 7 * 1440

ThisWeek(h, now) == Entries(h, {i \in Positions(h) : h[i].at >= now - Week})
PrevWeek(h, now) == Entries(h, {i \in Positions(h) : h[i].at \in now - 2 * Week .. now - Week - 1})

\* A percentage in hundredths, rounded.
Rate(n, of) == IF of = 0 THEN 0 ELSE (10000 * n + of \div 2) \div of

\* (mutant of WeekMetrics) a losing trade of the week is enough.
WeekMetricsAnyLoss(w) ==
    LET wins == Wins(w, Positions(w)) IN
    [trades |-> Len(w), rate |-> Rate(Cardinality(wins), Len(w)), pnl |-> NetPnl(w),
     days |-> Cardinality({LocalDay(w[i], 0) : i \in Positions(w)}),
     revenge |-> Cardinality({i \in 2 .. Len(w) : w[i - 1].pnl < 0})]

\* Revenge trades are counted anew within the week.
WeekMetrics(w) ==
    LET wins == Wins(w, Positions(w)) IN
    [trades |-> Len(w), rate |-> Rate(Cardinality(wins), Len(w)), pnl |-> NetPnl(w),
     days |-> Cardinality({LocalDay(w[i], 0) : i \in Positions(w)}),
     revenge |-> Cardinality({i \in 2 .. Len(w) : w[i - 1].pnl < 0
                                                  /\ w[i].at - w[i - 1].at \in 1 .. 5})]

Score(w, h) ==
    LET m == WeekMetrics(w)
        all   == Cardinality(Wins(h, Positions(h)))
        trend == IF Len(h) < 20 THEN 0
                 ELSE IF m.rate * Len(h) > 10000 * all + 500 * Len(h) THEN 10
                 ELSE IF m.rate * Len(h) < 10000 * all - 1000 * Len(h) THEN -15 ELSE 0
    IN  100 - Min({30, 10 * m.revenge}) + trend
            + (IF m.pnl > 0 THEN 10 ELSE -10)
            + (IF 100 * m.trades < 605 * m.days THEN 5 ELSE 0)

Letter(score) ==
    CASE score >= 90 -> "A" [] score \in 80 .. 89 -> "B" [] score \in 65 .. 79 -> "C"
      [] score \in 50 .. 64 -> "D" [] OTHER -> "F"

Grade(w, h) == Letter(Max({0, Min({100, Score(w, h)})}))

Compare(m, p) ==
    [pnl |-> m.pnl - p.pnl, rate |-> m.rate - p.rate, trades |-> m.trades - p.trades,
     revenge |-> m.revenge - p.revenge, improved |-> m.pnl > p.pnl]

\* The largest insight when it is a leak of more than 100.
Focus(insights, m) ==
    IF insights # <<>> /\ Head(insights).impact < -100 THEN Head(insights).id
    ELSE IF m.revenge > 0 THEN "Revenge Trading" ELSE "Consistency"

Weekly(h, z, now) ==
    LET this == ThisWeek(h, now)  prev == PrevWeek(h, now) IN
    IF this = <<>> THEN NoResult
    ELSE [period |-> <<(now - Week) \div 1440, now \div 1440>>, week |-> WeekMetrics(this),
          comparison |-> IF prev = <<>> THEN NoResult
                         ELSE Compare(WeekMetrics(this), WeekMetrics(prev)),
          grade |-> Grade(this, h), focus |-> Focus(Insights(h, z), WeekMetrics(this))]
=============================================================================
