----------------------------- MODULE RuleChecker -----------------------------
(***************************************************************************)
(* The checkers of app/engine/rule_checker.py: which of a set of trades    *)
(* violate one rule.  A trade is its position in timestamp order; the      *)
(* attributes a checker reads are constants.  Money, quantities and        *)
(* thresholds are fractions, counted in the part of which Unit make one;   *)
(* local times are already shifted by the user's timezone offset.          *)
(***************************************************************************)
EXTENDS Naturals, Integers, FiniteSets, FiniteSetsExt

CONSTANTS
    Trades,      \* trades, numbered in timestamp order
    Rules,       \* the user's trading rules
    Day, Hour,   \* local calendar day and hour of a trade
    Pnl, Qty,    \* profit (negative for a loss) and quantity of a trade
    RuleType, Threshold,
    Unit         \* parts of a fraction

RuleTypes == {"max_trades_per_day", "max_loss_per_day", "max_loss_per_trade",
              "no_trading_after", "no_trading_before",
              "max_consecutive_losses", "max_position_size"}

\* The types whose checkers take int(rule.threshold).
Truncated == {"max_trades_per_day", "no_trading_after", "no_trading_before",
              "max_consecutive_losses"}

ASSUME TradesAssumption == Trades \subseteq Nat
ASSUME BookAssumption ==
    /\ Day \in [Trades -> Nat] /\ Hour \in [Trades -> 0 .. 23]
    /\ Pnl \in [Trades -> Int] /\ Qty \in [Trades -> Nat]
ASSUME RulesAssumption ==
    /\ RuleType \in [Rules -> RuleTypes]
    /\ Threshold \in [Rules -> Nat \ {0}]     \* create_rule refuses the rest
    /\ Unit \in Nat \ {0}

Losing(t)     == Pnl[t] < 0
Loss(t)       == IF Losing(t) THEN -Pnl[t] ELSE 0
Lost(S)       == SumFunctionOnSet([t \in Trades |-> Loss(t)], S)
SameDay(S, t) == {s \in S : Day[s] = Day[t]}
UpTo(S, t)    == {s \in S : s <= t}

\* The losses running at t: t and the trades before it, back to the last one
\* that is not a loss.
LosingRun(S, t) ==
    {s \in UpTo(S, t) : \A q \in UpTo(S, t) : q >= s => Losing(q)}

\* day_trades[limit:] of each day.
MaxTradesPerDay(S, n) ==
    {t \in S : Cardinality(UpTo(SameDay(S, t), t)) > n}

\* The trade that takes the day's running loss over the limit, and every later
\* one of that day.
MaxLossPerDay(S, n) ==
    {t \in S : Lost(UpTo(SameDay(S, t), t)) > n}

MaxLossPerTrade(S, n) == {t \in S : Loss(t) > n}
NoTradingAfter(S, n)  == {t \in S : Hour[t] >= n}
NoTradingBefore(S, n) == {t \in S : Hour[t] < n}
MaxPositionSize(S, n) == {t \in S : Qty[t] > n}

\* Losses beyond the n-th in a row; a trade that is not a loss is never listed.
MaxConsecutiveLosses(S, n) == {t \in S : Cardinality(LosingRun(S, t)) > n}

\* The limit a checker compares with: a threshold of 0.5 trades a day is a limit of none.
LimitOf(r) == IF RuleType[r] \in Truncated THEN Threshold[r] \div Unit ELSE Threshold[r]

\* RuleChecker._get_checker applied to one rule.
Check(S, r) ==
    LET n == LimitOf(r) IN
    CASE RuleType[r] = "max_trades_per_day"     -> MaxTradesPerDay(S, n)
      [] RuleType[r] = "max_loss_per_day"       -> MaxLossPerDay(S, n)
      [] RuleType[r] = "max_loss_per_trade"     -> MaxLossPerTrade(S, n)
      [] RuleType[r] = "no_trading_after"       -> NoTradingAfter(S, n)
      [] RuleType[r] = "no_trading_before"      -> NoTradingBefore(S, n)
      [] RuleType[r] = "max_consecutive_losses" -> MaxConsecutiveLosses(S, n)
      [] RuleType[r] = "max_position_size"      -> MaxPositionSize(S, n)

\* RuleChecker.check_all: the (trade, rule) pairs in violation.
CheckAll(S, rules) == UNION {{<<t, r>> : t \in Check(S, r)} : r \in rules}
=============================================================================
