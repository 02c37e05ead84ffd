---------------------------- MODULE RuleCheckLoop ----------------------------
(***************************************************************************)
(* The loops of the rule checkers, one trade at a time, with the running   *)
(* counters the code keeps.  RuleChecker says what they compute.           *)
(*                                                                         *)
(* The per-day loops of the code visit one day after another; a day's      *)
(* counters depend on that day only, so visiting the trades in timestamp   *)
(* order with one counter per day is the same computation.                 *)
(***************************************************************************)
EXTENDS RuleChecker

VARIABLES
    S, r,       \* the trades and the rule checked
    unchecked,  \* trades not visited yet
    count,      \* trades seen per day
    loss,       \* running_loss per day
    breached,   \* days whose loss limit is breached
    consec,     \* consecutive losses so far
    out         \* trades listed in violation

loopVars == <<S, r, unchecked, count, loss, breached, consec, out>>

Days  == {Day[t] : t \in Trades}
Limit == LimitOf(r)

LoopInit ==
    /\ S \in SUBSET Trades
    /\ r \in Rules
    /\ unchecked = S
    /\ count = [d \in Days |-> 0]
    /\ loss = [d \in Days |-> 0]
    /\ breached = {}
    /\ consec = 0
    /\ out = {}

\* Trade t is the next one and is listed if and only if the condition holds.
Visit(t, listed) ==
    /\ t \in unchecked /\ \A s \in unchecked : t <= s
    /\ unchecked' = unchecked \ {t}
    /\ out' = IF listed THEN out \cup {t} ELSE out
    /\ UNCHANGED <<S, r>>

VisitPerDay(t) ==
    /\ RuleType[r] = "max_trades_per_day"
    /\ count' = [count EXCEPT ![Day[t]] = @ + 1]
    /\ Visit(t, count[Day[t]] >= Limit)
    /\ UNCHANGED <<loss, breached, consec>>

\* (mutant of VisitDayLoss) the breach is not remembered and the running loss
\* counts the net result of the day.
VisitDayNet(t) ==
    LET running == loss[Day[t]] - Pnl[t] IN
    /\ RuleType[r] = "max_loss_per_day"
    /\ loss' = [loss EXCEPT ![Day[t]] = running]
    /\ breached' = IF running > Limit THEN breached \cup {Day[t]} ELSE breached
    /\ Visit(t, running > Limit)
    /\ UNCHANGED <<count, consec>>

VisitDayLoss(t) ==
    LET running == loss[Day[t]] + Loss(t) IN
    /\ RuleType[r] = "max_loss_per_day"
    /\ loss' = [loss EXCEPT ![Day[t]] = running]
    /\ breached' = IF running > Limit THEN breached \cup {Day[t]} ELSE breached
    /\ Visit(t, running > Limit \/ Day[t] \in breached)
    /\ UNCHANGED <<count, consec>>

VisitConsecutive(t) ==
    LET run == IF Losing(t) THEN consec + 1 ELSE 0 IN
    /\ RuleType[r] = "max_consecutive_losses"
    /\ consec' = run
    /\ Visit(t, run > Limit)
    /\ UNCHANGED <<count, loss, breached>>

\* The checkers that look at each trade on its own.
VisitAlone(t) ==
    /\ \/ RuleType[r] = "max_loss_per_trade" /\ Visit(t, Losing(t) /\ -Pnl[t] > Limit)
       \/ RuleType[r] = "no_trading_after"   /\ Visit(t, Hour[t] >= Limit)
       \/ RuleType[r] = "no_trading_before"  /\ Visit(t, Hour[t] < Limit)
       \/ RuleType[r] = "max_position_size"  /\ Visit(t, Qty[t] > Limit)
    /\ UNCHANGED <<count, loss, breached, consec>>

LoopNext ==
    \E t \in Trades :
        VisitPerDay(t) \/ VisitDayLoss(t) \/ VisitConsecutive(t) \/ VisitAlone(t)

LoopSpec == LoopInit /\ [][LoopNext]_loopVars

-----------------------------------------------------------------------------
LoopTypeOK ==
    /\ S \in SUBSET Trades /\ unchecked \in SUBSET S
    /\ r \in Rules
    /\ count \in [Days -> Nat] /\ loss \in [Days -> Nat]
    /\ breached \in SUBSET Days
    /\ consec \in Nat
    /\ out \in SUBSET (S \ unchecked)

\* After every trade the list is what the rule says of the trades visited so
\* far: a verdict depends on earlier trades only, so a later upload never
\* withdraws a violation on record.
LoopAgrees == out = Check(S \ unchecked, r)
=============================================================================
