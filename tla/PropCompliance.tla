--------------------------- MODULE PropCompliance ---------------------------
(***************************************************************************)
(* A prop-firm account and the compliance engine: what check_compliance    *)
(* reports of a trade history, while trades arrive, are deleted and days   *)
(* pass.                                                                   *)
(*                                                                         *)
(* A history is a sequence of (day, pnl) in timestamp order.  Amounts are  *)
(* whole, a percentage of the initial balance among them; usage is         *)
(* compared as an exact ratio.  Texts, roundings and the risk score are    *)
(* left out.                                                               *)
(***************************************************************************)
EXTENDS Integers, Sequences, FiniteSets, SequencesExt

CONSTANTS
    Balance,      \* initial_balance, which nothing restricts to be positive
    Pnls,         \* profits and losses of a trade, whole numbers
    LastDay,      \* bound on days
    MaxTrades,    \* bound on the length of the history
    Plans,        \* (firm, phase) pairs an account may name
    Overrides,    \* limits a user may ask for, by field
    None          \* null

ASSUME AccountAssumption == Balance \in Int /\ Pnls \subseteq Int /\ LastDay \in Nat

VARIABLES
    account,        \* what create_account stored, or None
    accountTrades,  \* the user's trades
    today

propVars == <<account, accountTrades, today>>

Max2(a, b)   == IF a > b THEN a ELSE b
Pct(p)       == (Balance * p) \div 100
OnDay(h, d)  == {i \in DOMAIN h : h[i].day = d}
DaysOf(h)    == {h[i].day : i \in DOMAIN h}

\* What the trades at the positions of I made together.
Net(h, I) == SumFunctionOnSet([i \in DOMAIN h |-> h[i].pnl], I)

-----------------------------------------------------------------------------
(* The rules of an account.                                                *)

RuleSet(daily, drawdown, type, target, days, consistency, risk) ==
    [daily |-> daily, drawdown |-> drawdown, type |-> type, target |-> target,
     days |-> days, consistency |-> consistency, risk |-> risk]

\* FIRM_PRESETS, as a partial function of (firm, phase).
Presets ==
    [plan \in {"ftmo", "fundingpips", "myforexfunds", "the5ers", "topstep"}
                 \X {"challenge", "funded"} |->
        LET challenge == plan[2] = "challenge"
            Target(t) == IF challenge THEN t ELSE None IN
        CASE plan[1] = "ftmo"         -> RuleSet(5, 10, "static",   Target(10), 4,  None, None)
          [] plan[1] = "fundingpips"  -> RuleSet(5, 10, "trailing", Target(8),  5,  30, 2)
          [] plan[1] = "myforexfunds" -> RuleSet(5, 8,  "static",   Target(8),  5,  35, 2)
          [] plan[1] = "the5ers"      -> RuleSet(5, 10, "trailing", Target(8),  4,  30, 2)
          [] plan[1] = "topstep"      -> RuleSet(5, 8,  "trailing", Target(10), 10, 30, 3)]

\* _resolve_rules: the preset, or the built-in rules where there is none.
ResolveRules(plan) ==
    IF plan \in DOMAIN Presets THEN Presets[plan]
    ELSE RuleSet(5, 10, "static", 10, 5, None, None)

\* What create_account stores: an override, the preset, a default.  An override
\* of zero counts as none, except for the two fields that may be null.
StoredRules(plan, asked) ==
    LET preset == IF plan \in DOMAIN Presets THEN Presets[plan]
                  ELSE RuleSet(5, 10, "static", 10, 10, None, None)
        Or(f)   == IF f \in DOMAIN asked /\ asked[f] # 0 THEN asked[f] ELSE preset[f]
        Else(f) == IF f \in DOMAIN asked THEN asked[f] ELSE preset[f] IN
    RuleSet(Or("daily"), Or("drawdown"), Or("type"), Else("target"), Or("days"),
          Else("consistency"), None)

\* The rules the service has the engine check: its config names no firm, phase or
\* custom_rules, so nothing of the account but its balance gets through.
CheckedRules(row) == ResolveRules(<<"custom", "challenge">>)

-----------------------------------------------------------------------------
(* PropComplianceEngine.check_compliance.                                  *)

\* _status_from_usage of used / limit.
Status(used, limit) ==
    IF limit <= 0 THEN "safe"
    ELSE IF used >= limit THEN "violated"
    ELSE IF 10 * used >= 9 * limit THEN "critical"
    ELSE IF 10 * used >= 7 * limit THEN "warning" ELSE "safe"

DailyLoss(h, now) == Max2(0, -Net(h, OnDay(h, now)))

\* The loop over the trades keeps the balance, from the initial one,
Running(h) ==
    LET balance[i \in 0 .. Len(h)] == IF i = 0 THEN 0 ELSE balance[i - 1] + h[i].pnl
    IN  balance

\* (mutant of Peak) a static drawdown is measured from the last peak as well.
PeakAlways(h, type) ==
    LET balance == Running(h)
        peak[i \in 0 .. Len(h)] == IF i = 0 THEN 0 ELSE Max2(peak[i - 1], balance[i])
    IN  peak

\* and the peak that a trailing drawdown is measured from.
Peak(h, type) ==
    LET balance == Running(h)
        peak[i \in 0 .. Len(h)] ==
            IF i = 0 THEN 0
            ELSE IF type = "trailing" THEN Max2(peak[i - 1], balance[i]) ELSE peak[i - 1]
    IN  peak

\* (mutant of Drawdown) the drawdown of the current balance.
DrawdownNow(h, type) == Max2(0, Peak(h, type)[Len(h)] - Running(h)[Len(h)])

\* The worst distance from the peak on the way.
Drawdown(h, type) ==
    LET balance == Running(h)
        peak    == Peak(h, type)
    IN  Max({0} \cup {peak[i] - balance[i] : i \in DOMAIN h})

\* (mutant of BestDays) the share of one trade, not of one day.
BestTrades(h, pct) ==
    LET gains == {i \in DOMAIN h : h[i].pnl > 0} IN
    {h[i].day : i \in {j \in gains : h[j].pnl * 100 > pct * Net(h, gains)}}

\* The days that made money, and those of them that made more than pct per cent of
\* what the winning days made together.
Gain(h, d)     == Net(h, OnDay(h, d))
WinningDays(h) == {d \in DaysOf(h) : Gain(h, d) > 0}
Within(h, V)   == {i \in DOMAIN h : h[i].day \in V}
BestDays(h, pct) ==
    {d \in WinningDays(h) : Gain(h, d) * 100 > pct * Net(h, Within(h, WinningDays(h)))}

OverRisk(h, limit) ==
    {i \in DOMAIN h : h[i].pnl > limit \/ -h[i].pnl > limit}

ComplianceReport(h, rules, now) ==
    [daily       |-> Status(DailyLoss(h, now), Pct(rules.daily)),
     drawdown    |-> Status(Drawdown(h, rules.type), Pct(rules.drawdown)),
     days        |-> IF Cardinality(DaysOf(h)) >= rules.days THEN "safe" ELSE "warning",
     consistency |-> IF rules.consistency = None \/ BestDays(h, rules.consistency) = {}
                     THEN "safe" ELSE "violated",
     risk        |-> IF rules.risk = None \/ OverRisk(h, Pct(rules.risk)) = {}
                     THEN "safe" ELSE "violated"]

Overall(report) ==
    LET found == {report[rule] : rule \in DOMAIN report} IN
    IF "violated" \in found THEN "violated"
    ELSE IF "critical" \in found THEN "critical"
    ELSE IF "warning" \in found THEN "warning" ELSE "safe"

-----------------------------------------------------------------------------
PropInit == account = None /\ accountTrades = <<>> /\ today = 0

CreateAccount(plan, asked) ==
    /\ account = None
    /\ account' = StoredRules(plan, asked)
    /\ UNCHANGED <<accountTrades, today>>

DeleteAccount ==
    /\ account # None
    /\ account' = None
    /\ UNCHANGED <<accountTrades, today>>

\* (mutant of InOrder) the trades are taken in the order of their import.
AsImported(h, t) == Append(h, t)

\* ORDER BY timestamp: a trade of an earlier day goes before those of later days.
InOrder(h, t) ==
    InsertAt(h, Cardinality({i \in DOMAIN h : h[i].day <= t.day}) + 1, t)

\* An import brings a trade of today or of any earlier day.
Import(t) ==
    /\ Len(accountTrades) < MaxTrades
    /\ accountTrades' = InOrder(accountTrades, t)
    /\ UNCHANGED <<account, today>>

DeleteTrade(i) ==
    /\ accountTrades' = RemoveAt(accountTrades, i)
    /\ UNCHANGED <<account, today>>

NextDay ==
    /\ today < LastDay
    /\ today' = today + 1
    /\ UNCHANGED <<account, accountTrades>>

PropNext ==
    \/ \E plan \in Plans, asked \in Overrides : CreateAccount(plan, asked)
    \/ DeleteAccount
    \/ \E d \in 0 .. today, p \in Pnls : Import([day |-> d, pnl |-> p])
    \/ \E i \in DOMAIN accountTrades : DeleteTrade(i)
    \/ NextDay

PropSpec == PropInit /\ [][PropNext]_propVars

-----------------------------------------------------------------------------
(* Properties.                                                             *)

PropTypeOK ==
    /\ account = None \/ DOMAIN account = DOMAIN RuleSet(0, 0, "static", 0, 0, 0, 0)
    /\ accountTrades \in Seq([day : 0 .. today, pnl : Pnls])
    /\ \A i, j \in DOMAIN accountTrades :
          i < j => accountTrades[i].day <= accountTrades[j].day
    /\ today \in 0 .. LastDay

\* The one-pass drawdown is the worst net loss over a run of consecutive trades:
\* over any run for a trailing rule, over runs from the first trade for a static
\* one.
WorstRun(h, type) ==
    LET starts == IF type = "trailing" THEN DOMAIN h ELSE {1} IN
    Max({0} \cup {-Net(h, i .. j) : i \in starts, j \in DOMAIN h})
DrawdownAgrees ==
    \A type \in {"static", "trailing"} :
        Drawdown(accountTrades, type) = WorstRun(accountTrades, type)

\* A drawdown violation stays on the report while the history only grows at its
\* end, whatever profit follows and whatever day it is.
Sticks ==
    \A rules \in {Presets[plan] : plan \in DOMAIN Presets} :
        /\ IsPrefix(accountTrades, accountTrades')
        /\ ComplianceReport(accountTrades, rules, today).drawdown = "violated"
        => ComplianceReport(accountTrades', rules, today').drawdown = "violated"
DrawdownSticks == [][Sticks]_propVars

\* A consistent history with a profit has enough winning days: with p per cent
\* allowed to each day there are at least 100 / p of them.
ConsistentNeedsDays ==
    \A pct \in {30, 35} :
        LET winning == WinningDays(accountTrades) IN
        winning # {} /\ BestDays(accountTrades, pct) = {} => Cardinality(winning) * pct >= 100

\* "checks every trade against daily loss limits, max drawdown, ... and
\* firm-specific restrictions": the report of an account is the one its own
\* limits, drawdown type and consistency rule imply.
FirmRulesChecked ==
    account # None =>
        ComplianceReport(accountTrades, CheckedRules(account), today)
            = ComplianceReport(accountTrades, account, today)
=============================================================================
