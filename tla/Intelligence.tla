---------------------------- MODULE Intelligence ----------------------------
(***************************************************************************)
(* IntelligenceEngine: the alerts drawn from tags, sequences and recorded  *)
(* violations.  An alert is its kind, what it is about, its severity and   *)
(* its impact, 0 for none; at most fifteen are shown, critical ones first. *)
(***************************************************************************)
EXTENDS TradeHistory

Alert(kind, about, severity, impact) ==
    [kind |-> kind, about |-> about, severity |-> severity, impact |-> impact]

BadMoods == {"revenge", "fomo", "anxious", "fearful", "greedy"}

\* Two trades or more in a bad mood that lost money.
MoodCost(h) ==
    LET moods == Grouped([i \in Positions(h) |-> h[i].mood])
        bad   == {m \in DOMAIN moods \cap BadMoods :
                    Cardinality(moods[m]) >= 2 /\ PnlOf(h, moods[m]) < 0}
    IN  {Alert("mood_cost", m, IF PnlOf(h, moods[m]) < -1000 THEN "critical" ELSE "warning",
               PnlOf(h, moods[m])) : m \in bad}

\* Three trades or more with a mistake, whatever they made.
RecurringMistakes(h) ==
    LET mistakes == Grouped([i \in Positions(h) |-> h[i].mistake]) IN
    {Alert("recurring_mistake", m, "warning", PnlOf(h, mistakes[m])) :
        m \in {k \in DOMAIN mistakes \ {Unset, "none"} : Cardinality(mistakes[k]) >= 3}}

\* The trades after two losses or more in a row.
AfterTwoLosses(h) == {i \in 2 .. Len(h) : LossesUpTo(h, i - 1) >= 2}

PostLoss(h) ==
    LET broke    == {i \in AfterTwoLosses(h) : h[i].followed = "no"}
        followed == {i \in AfterTwoLosses(h) : h[i].followed = "yes"}
    IN  {Alert("behavioral_pattern", Unset, "critical", 0) : one \in
            IF /\ Len(h) >= 10 /\ Cardinality(broke \cup followed) >= 3
               /\ Cardinality(broke) > Cardinality(followed) THEN {1} ELSE {}}

\* One alert per violated rule type; violations are (type, severity) pairs.
RuleViolations(violations) ==
    {Alert("rule_violation_summary", type,
           IF <<type, "critical">> \in violations THEN "critical" ELSE "warning", 0) :
        type \in {v[1] : v \in violations}}

\* Ten trades before and after noon, fifteen points apart.
TimePattern(h, z) ==
    LET am  == {i \in Positions(h) : LocalHour(h[i], z) < 12}
        pm  == Positions(h) \ am
        gap == 100 * (Cardinality(Wins(h, am)) * Cardinality(pm)
                        - Cardinality(Wins(h, pm)) * Cardinality(am))
        worse == IF gap > 0 THEN pm ELSE am
    IN  {Alert("time_pattern", Unset, "insight", IF PnlOf(h, worse) < 0 THEN PnlOf(h, worse) ELSE 0) :
            one \in IF /\ Len(h) >= 20 /\ Cardinality(am) >= 10 /\ Cardinality(pm) >= 10
                       /\ Max({gap, -gap}) > 15 * Cardinality(am) * Cardinality(pm)
                    THEN {1} ELSE {}}

Alerts(h, violations, z) ==
    MoodCost(h) \cup RecurringMistakes(h) \cup PostLoss(h)
        \cup RuleViolations(violations) \cup TimePattern(h, z)

\* total_behavioral_cost: the negative impacts of all alerts.
BehavioralCost(alerts) ==
    -SumFunctionOnSet([a \in alerts |-> a.impact], {a \in alerts : a.impact < 0})
=============================================================================
