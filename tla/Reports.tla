------------------------------ MODULE Reports ------------------------------
(***************************************************************************)
(* The report engines over one user's trades, while trades are imported,   *)
(* deleted and tagged.  A report is computed from the trades of the        *)
(* request and keeps nothing: it is a function of the history here.        *)
(***************************************************************************)
EXTENDS TradeAnalytics, Behavioral, WeeklyReport, Intelligence, AutoTagger

CONSTANTS
    Books,       \* (history, number of edits) pairs to begin with
    Arrivals,    \* trades that may be imported
    Offsets,     \* timezone offsets of users
    Weeks,       \* ends of the weeks reports are asked for
    Texts        \* what a symbol, a mood or a mistake may be called

VARIABLES
    history,     \* the user's trades, ORDER BY timestamp
    offset,      \* users.timezone_offset
    edits        \* bound on imports and deletions

TradeRecord ==
    [at : Nat, pnl : Int, qty : Nat \ {0}, symbol : Texts,
     mood : Texts, mistake : Texts, followed : {Unset, "yes", "no"}, brief : BOOLEAN]

\* The tags of the auto-tagger.
Words == {"revenge", "fomo", "anxious", "confident", "neutral", "oversized", "undersized",
          "early_exit", "none", Unset}

\* Verdicts come with a mistake, or with "none".
Coherent(t) ==
    /\ (t.followed = Unset) <=> (t.mistake = Unset)
    /\ (t.followed = "yes") <=> (t.mistake = "none")

InTime(h) == \A i, j \in Positions(h) : i < j => h[i].at <= h[j].at

ASSUME HistoryAssumption ==
    /\ \A book \in Books :
          /\ book[1] \in Seq(TradeRecord) /\ InTime(book[1]) /\ book[2] \in Nat
          /\ \A i \in Positions(book[1]) : Coherent(book[1][i])
    /\ \A t \in Arrivals : t \in TradeRecord /\ Coherent(t)
    /\ Offsets \subseteq Int /\ Weeks \subseteq Int /\ Words \subseteq Texts

reportVars == <<history, offset, edits>>

ReportInit ==
    /\ \E book \in Books : history = book[1] /\ edits = book[2]
    /\ offset \in Offsets

\* (mutant of Placed) the trades are taken in the order of their import.
PlacedLast(h, t) == Append(h, t)

\* ORDER BY timestamp.
Placed(h, t) ==
    InsertAt(h, Cardinality({i \in Positions(h) : h[i].at <= t.at}) + 1, t)

Edit(h) == edits > 0 /\ edits' = edits - 1 /\ history' = h /\ UNCHANGED offset

ImportTrade(t) == Edit(Placed(history, t))
RemoveTrade(i) == Edit(RemoveAt(history, i))

\* The post-upload job, undisturbed.
AutoTag == history' = Tagged(history) /\ UNCHANGED <<offset, edits>>

ReportNext ==
    \/ \E t \in Arrivals : ImportTrade(t)
    \/ \E i \in Positions(history) : RemoveTrade(i)
    \/ AutoTag

ReportSpec == ReportInit /\ [][ReportNext]_reportVars

-----------------------------------------------------------------------------
(* Properties.                                                             *)

ReportTypeOK ==
    /\ history \in Seq(TradeRecord) /\ InTime(history)
    /\ \A i \in Positions(history) : Coherent(history[i])
    /\ offset \in Offsets /\ edits \in Nat

\* The same habit is found by several engines, each with code of its own: revenge
\* trades by three, tilt by three, crowded days and last trades by two; they name
\* the same trades (counterfactual.py:94, behavioral.py:42, auto_tagger.py:44).
EnginesAgree ==
    LET h == history  Named(insight, I) == insight = NoResult \/ insight.affected = I
        over == OvertradingCost(h, offset)  last == LastTradeCost(h, offset)
        place == PositionInDay(h, "last", offset) IN
    /\ Named(RevengeCost(h), RevengeTrades(h)) /\ Named(TiltCost(h), TiltEvents(h))
    /\ over # NoResult => {LocalDay(h[i], offset) : i \in over.affected} = OvertradingDays(h, offset)
    /\ last # NoResult /\ place # NoResult => last.affected \subseteq place.target
    /\ TiltEvents(h) \subseteq AfterTwoLosses(h)
    /\ (\A i \in Positions(h) : h[i].mood = Unset) /\ Len(h) > 1 =>
        {i \in Positions(h) : Tagged(h)[i].mood = "revenge"} = RevengeTrades(h)

GapOf(chart) == LET end == chart[Max(DOMAIN chart)] IN end.actual - end.counterfactual
Disjoint(leaks) ==
    \A k \in DOMAIN leaks : \A l \in DOMAIN leaks \ {k} :
        leaks[k].affected \cap leaks[l].affected = {}
Close(curve) == curve[Max(DOMAIN curve)]
\* A leak costs what its chart shows: its two curves end that far apart.  What is
\* lost to leaks that share no trade is what the history makes without them: the
\* potential total is the end of the curve that excludes them all.
AddUp(leaks) ==
    leaks # <<>> =>
        /\ \A k \in DOMAIN leaks : GapOf(Chart(history, leaks[k])) = leaks[k].impact
        /\ Disjoint(leaks) =>
            Summary(history, offset).potential
                = Close(EquityCurve(history, UNION {leaks[k].affected : k \in DOMAIN leaks}))

Side(h, i) ==
    LET signed == {k \in 1 .. i : h[k].pnl # 0} IN
    IF signed # {} /\ h[Max(signed)].pnl > 0 THEN "win" ELSE "loss"
Starts(h) == {i \in Positions(h) : i = 1 \/ Side(h, i) # Side(h, i - 1)}
RunFrom(h, i) ==
    LET end == Min({j - 1 : j \in {k \in Starts(h) : k > i}} \cup {Len(h)}) IN
    [type |-> Side(h, i), count |-> end - i + 1, pnl |-> PnlOf(h, i .. end)]

\* The streaks are the maximal runs of wins and losses, a scratch taking the side
\* of the trade before it; and no run of losses is longer than the longest streak.
StreaksAgree ==
    LET starts == Ascending(Starts(history)) IN
    /\ Streaks(history) = [k \in DOMAIN starts |-> RunFrom(history, starts[k])]
    /\ history # <<>> => RiskMetrics(history, offset).losses <= LongestStreak(history, "loss")

Highs(c) == {k \in DOMAIN c : c[k].pnl > Max({0} \cup {c[j].pnl : j \in 1 .. k - 1})}

\* A drawdown on record runs from a new high of the daily curve to the next, at its
\* depth below the first; what is on record never exceeds the drawdown trade by
\* trade (analytics.py:336-353, 433-441).
DrawdownsAgree ==
    LET c == DailyCloses(history, offset)
        Between(p) == {i \in p[1] + 1 .. p[2] - 1 : c[i].pnl < c[p[1]].pnl}
        pairs == {p \in Highs(c) \X Highs(c) :
                    p[1] < p[2] /\ Between(p) # {} /\ Highs(c) \cap (p[1] + 1 .. p[2] - 1) = {}} IN
    /\ ToSet(DrawdownPeriods(history, offset)) =
        {[start |-> <<c[Min(Between(p))].day>>, end |-> c[p[2]].day,
          depth |-> c[p[1]].pnl - Min({c[i].pnl : i \in Between(p)})] : p \in pairs}
    /\ history # <<>> => EquityCurveData(history, offset).worst <= CalmarDrawdown(history)

Total(figures) == SumFunctionOnSet(figures, DOMAIN figures)

OnePassAgrees == StreaksAgree /\ DrawdownsAgree

\* Every breakdown adds up to the overview, whatever the offset: by hour, weekday,
\* session and symbol, and the daily curve ends at the total.  What two engines say
\* of a weekday or a mood is the same, no kind of alert charges a loss twice, and
\* what the scenarios leak is what the history makes without them.
TotalsAgree ==
    LET h == history  o == Overview(h, offset)  time == TimeAnalysis(h, offset)
        monday == DayEffect(h, 0, offset)  emotions == EmotionAnalysis(h)
        AddsUp(slices) ==
            /\ Total([k \in DOMAIN slices |-> slices[k].trades]) = o.total
            /\ Total([k \in DOMAIN slices |-> slices[k].wins]) = o.winners
            /\ Total([k \in DOMAIN slices |-> slices[k].pnl]) = o.profit - o.loss IN
    h # <<>> =>
        /\ AddsUp(time.hours) /\ AddsUp(time.weekdays) /\ AddsUp(time.sessions)
        /\ AddsUp(SymbolAnalysis(h).per)
        /\ Last(DailyCloses(h, offset)).pnl = o.pnl
        /\ monday # NoResult => monday.target = time.weekdays[0]
        /\ emotions # NoResult =>
            \A a \in MoodCost(h) : a.impact = emotions.per[a.about].pnl
        /\ \A kind \in {"mood_cost", "recurring_mistake", "time_pattern"} :
            BehavioralCost({a \in Alerts(h, {}, offset) : a.kind = kind}) <= o.loss
        /\ AddUp(Leaks(h, offset))

\* The week before and this week are disjoint and leave out nothing since the start
\* of the first; a week misses at most one revenge trade of the whole history, its
\* first trade, whose loss belongs to the week before (weekly_report.py:80).
WeeksAgree ==
    \A now \in Weeks :
        LET this == ThisWeek(history, now)  prev == PrevWeek(history, now)
            before == Len(history) - Len(this)
            since  == {i \in RevengeTrades(history) : i > before} IN
        /\ prev \o this = SubSeq(history, 1 + Cardinality(
                {i \in Positions(history) : history[i].at < now - 2 * Week}), Len(history))
        /\ WeekMetrics(this).revenge = Cardinality(since \ {before + 1})

\* A later day adds to the reports and withdraws nothing: closed streaks, recorded
\* drawdowns, revenge and tilt verdicts stand when a trade of a later day arrives.
LaterDay == /\ IsPrefix(history, history') /\ Len(history') > Len(history)
            /\ history # <<>> => LocalDay(Last(history'), offset) > LocalDay(Last(history), offset)
Grows ==
    LaterDay =>
        /\ history # <<>> => IsPrefix(Front(Streaks(history)), Streaks(history'))
        /\ IsPrefix(DrawdownPeriods(history, offset), DrawdownPeriods(history', offset))
        /\ RevengeTrades(history) = RevengeTrades(history') \cap Positions(history)
        /\ TiltEvents(history) = TiltEvents(history') \cap Positions(history)
ReportsGrow == [][Grows]_reportVars

\* "Generates a weekly performance summary": the trades of the week lie between the
\* dates the report names.
WeekIsItsPeriod ==
    \A now \in Weeks :
        LET report == Weekly(history, offset, now)  this == ThisWeek(history, now) IN
        report # NoResult =>
            \A i \in Positions(this) : LocalDay(this[i], 0) \in report.period[1] .. report.period[2]
=============================================================================
