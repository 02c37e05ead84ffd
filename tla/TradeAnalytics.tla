--------------------------- MODULE TradeAnalytics ---------------------------
(***************************************************************************)
(* TradeAnalytics of app/engine/analytics.py.  Averages, ratios and        *)
(* roundings are left to the reader of the sums and counts they are of;    *)
(* fees and durations, which are only added up, are left out.              *)
(***************************************************************************)
EXTENDS TradeHistory

Slice(h, I) == [trades |-> Cardinality(I), wins |-> Cardinality(Wins(h, I)), pnl |-> PnlOf(h, I)]

\* pnl and order of each group, for the best and the worst of them.
Gains(h, groups)  == [k \in DOMAIN groups |-> PnlOf(h, groups[k])]
Losses(h, groups) == [k \in DOMAIN groups |-> -PnlOf(h, groups[k])]
Self(groups)      == [k \in DOMAIN groups |-> k]
Seen(groups)      == [k \in DOMAIN groups |-> Min(groups[k])]
Slices(h, groups) == [k \in DOMAIN groups |-> Slice(h, groups[k])]

Overview(h, z) ==
    LET days   == Grouped(DayOf(h, z))
        losers == {i \in Positions(h) : h[i].pnl < 0}
        winners == Wins(h, Positions(h))
    IN  [total |-> Len(h), winners |-> Cardinality(winners), losers |-> Cardinality(losers),
         scratches |-> Cardinality({i \in Positions(h) : h[i].pnl = 0}),
         profit |-> PnlOf(h, winners), loss |-> -PnlOf(h, losers), pnl |-> NetPnl(h),
         best |-> Leading(Gains(h, days), Seen(days)),
         worst |-> Leading(Losses(h, days), Seen(days))]

Session(hour) ==
    CASE hour < 8 -> "asian" [] hour \in 8 .. 12 -> "london"
      [] hour \in 13 .. 20 -> "new_york" [] OTHER -> "after_hours"

TimeAnalysis(h, z) ==
    LET hours    == Grouped(HourOf(h, z))
        weekdays == Grouped(WeekdayOf(h, z))
        sessions == Grouped([i \in Positions(h) |-> Session(LocalHour(h[i], z))])
    IN  [hours |-> Slices(h, hours), weekdays |-> Slices(h, weekdays), sessions |-> Slices(h, sessions),
         bestHour |-> Leading(Gains(h, hours), Self(hours)),
         worstHour |-> Leading(Losses(h, hours), Self(hours)),
         bestDay |-> Leading(Gains(h, weekdays), Self(weekdays)),
         worstDay |-> Leading(Losses(h, weekdays), Self(weekdays))]

\* The best three are ranked by profit, the worst three are the end of that list.
SymbolAnalysis(h) ==
    LET symbols == Grouped([i \in Positions(h) |-> h[i].symbol])
        ranked  == RankedBy(DOMAIN symbols, Gains(h, symbols), Seen(symbols))
        best    == SubSeq(ranked, 1, Min({3, Len(ranked)}))
    IN  [per |-> Slices(h, symbols), best |-> best,
         worst |-> SubSeq(ranked, Max({1, Len(ranked) - 2}), Len(ranked)),
         top |-> MapThenSumSet(LAMBDA k : Cardinality(symbols[best[k]]), DOMAIN best)]

-----------------------------------------------------------------------------
(* The one-pass loops.                                                     *)

Streak(t) == [type |-> IF t.pnl > 0 THEN "win" ELSE "loss", count |-> 1, pnl |-> t.pnl]

\* A trade joins the streak it continues; a scratch continues any, and begins a
\* losing one.
Joins(all, t) == all # <<>> /\ (t.pnl = 0 \/ Streak(t).type = Last(all).type)
Joined(all, t) ==
    IF Joins(all, t)
    THEN Append(Front(all), [type |-> Last(all).type, count |-> Last(all).count + 1,
                             pnl |-> Last(all).pnl + t.pnl])
    ELSE Append(all, Streak(t))

StreaksUpTo(h) ==
    LET all[i \in 0 .. Len(h)] == IF i = 0 THEN <<>> ELSE Joined(all[i - 1], h[i])
    IN  all
Streaks(h) == StreaksUpTo(h)[Len(h)]

LongestStreak(h, type) ==
    Max({0} \cup {s.count : s \in {r \in ToSet(Streaks(h)) : r.type = type}})

StreakAnalysis(h) ==
    LET all == Streaks(h) IN
    [current |-> Last(all), win |-> LongestStreak(h, "win"), loss |-> LongestStreak(h, "loss"),
     history |-> SubSeq(all, Max({1, Len(all) - 19}), Len(all))]

\* (mutant of DailyCloses) each day begins at zero.
DailySums(h, z) ==
    LET days == Grouped(DayOf(h, z))
        in   == Keys(DayOf(h, z))
    IN  [k \in DOMAIN in |-> [day |-> in[k], pnl |-> PnlOf(h, days[in[k]])]]

\* The running sum at the end of each local day.
DailyCloses(h, z) ==
    LET days == Grouped(DayOf(h, z))
        in   == Keys(DayOf(h, z))
    IN  [k \in DOMAIN in |-> [day |-> in[k], pnl |-> PnlOf(h, 1 .. Max(days[in[k]]))]]

\* A drawdown is put on record when the curve rises over the peak before it, and
\* only if that peak was a profit.
Recorded(s, p) ==
    IF s.start # <<>> /\ s.peak > 0
    THEN Append(s.found, [start |-> s.start, end |-> p.day, depth |-> s.peak - s.low])
    ELSE s.found

\* (mutant of Watched) the low of the last drawdown is kept.
WatchedLowKept(s, p) ==
    IF p.pnl > s.peak
    THEN [peak |-> p.pnl, low |-> s.low, start |-> <<>>, found |-> Recorded(s, p)]
    ELSE IF p.pnl = s.peak THEN s
    ELSE [s EXCEPT !.low = Min({@, p.pnl}), !.start = IF s.start = <<>> THEN <<p.day>> ELSE @]

Watched(s, p) ==
    IF p.pnl > s.peak
    THEN [peak |-> p.pnl, low |-> s.low, start |-> <<>>, found |-> Recorded(s, p)]
    ELSE IF p.pnl = s.peak THEN s
    ELSE [s EXCEPT !.low = IF s.start = <<>> THEN p.pnl ELSE Min({@, p.pnl}),
                   !.start = IF s.start = <<>> THEN <<p.day>> ELSE @]

\* The loop over the daily curve.
DrawdownScan(c) ==
    LET scan[k \in 0 .. Len(c)] ==
            IF k = 0 THEN [peak |-> 0, low |-> 0, start |-> <<>>, found |-> <<>>]
            ELSE Watched(scan[k - 1], c[k])
    IN  scan

\* (mutant of DrawdownPeriods) a drawdown still running is on record as well.
DrawdownPeriodsOpen(h, z) ==
    LET c == DailyCloses(h, z)  s == DrawdownScan(c)[Len(c)] IN
    IF s.start = <<>> \/ s.peak <= 0 THEN s.found
    ELSE Append(s.found, [start |-> s.start, end |-> Last(c).day, depth |-> s.peak - s.low])

DrawdownPeriods(h, z) ==
    LET c == DailyCloses(h, z) IN DrawdownScan(c)[Len(c)].found

\* Windows of the last twenty trades up to each trade.
Rolling(h) == [i \in Positions(h) |-> Slice(h, Max({1, i - 19}) .. i)]

EquityCurveData(h, z) ==
    LET periods == DrawdownPeriods(h, z) IN
    [cumulative |-> DailyCloses(h, z),
     periods |-> SubSeq(periods, 1, Min({10, Len(periods)})),
     worst |-> Max({0} \cup {periods[k].depth : k \in DOMAIN periods}),
     rolling |-> SubSeq(Rolling(h), Max({1, Len(h) - 49}), Len(h))]

\* The drawdown of the Calmar ratio, trade by trade and of any peak.
CalmarDrawdown(h) ==
    LET running[i \in 0 .. Len(h)] == IF i = 0 THEN 0 ELSE running[i - 1] + h[i].pnl
        peak[i \in 0 .. Len(h)]    == IF i = 0 THEN 0 ELSE Higher(peak[i - 1], running[i])
    IN  Max({0} \cup {peak[i] - running[i] : i \in Positions(h)})

\* The ratios need thirty trading days.
RiskMetrics(h, z) ==
    LET days == Cardinality({LocalDay(h[i], z) : i \in Positions(h)}) IN
    [days |-> days, losses |-> Max({0} \cup {LossesUpTo(h, i) : i \in Positions(h)}),
     drawdown |-> IF days >= 30 THEN CalmarDrawdown(h) ELSE NoResult]

\* Tagged trades by mood, from five on; the best and the worst by their average.
EmotionAnalysis(h) ==
    LET moods == Grouped([i \in Positions(h) |-> h[i].mood])
        tagged == DOMAIN moods \ {Unset}
        Better(a, b) == PnlOf(h, moods[a]) * Cardinality(moods[b]) > PnlOf(h, moods[b]) * Cardinality(moods[a])
        Lead(Over(_, _)) == CHOOSE m \in tagged : \A k \in tagged \ {m} :
            Over(m, k) \/ (~Over(k, m) /\ Min(moods[m]) < Min(moods[k]))
    IN  IF Cardinality(UNION {moods[m] : m \in tagged}) < 5 THEN NoResult
        ELSE [per |-> [m \in tagged |-> Slice(h, moods[m])],
              best |-> Lead(Better), worst |-> Lead(LAMBDA a, b : Better(b, a))]
=============================================================================
