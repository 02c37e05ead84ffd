----------------------------- MODULE AutoTagger -----------------------------
(***************************************************************************)
(* AutoTagger.tag_trades: the mood, the mistake and the rule verdict a     *)
(* trade gets from the trades before it, where the user has set none.      *)
(* brief says that a trade is known to have lasted less than two minutes.  *)
(***************************************************************************)
EXTENDS TradeHistory

Oversized(h, i)  == 2 * Len(h) * h[i].qty > 3 * MapThenSumSet(LAMBDA k : h[k].qty, Positions(h))
Undersized(h, i) == 2 * Len(h) * h[i].qty < MapThenSumSet(LAMBDA k : h[k].qty, Positions(h))

Revenge(h, i) == i > 1 /\ h[i - 1].pnl < 0 /\ h[i].at - h[i - 1].at \in 1 .. 5
Fomo(h, i)    == i > 1 /\ h[i - 1].pnl > 0 /\ Oversized(h, i)
Tilted(h, i)  == i > 1 /\ LossesUpTo(h, i - 1) >= 2 /\ 5 * h[i].qty > 6 * h[i - 1].qty

\* (mutant of MoodOf) any trade soon after another is a revenge trade.
MoodOfHaste(h, i) ==
    IF i > 1 /\ h[i].at - h[i - 1].at \in 1 .. 5 THEN "revenge"
    ELSE IF Fomo(h, i) THEN "fomo" ELSE IF Tilted(h, i) THEN "anxious"
    ELSE IF h[i].pnl > 0 THEN "confident" ELSE IF h[i].pnl < 0 THEN "neutral" ELSE Unset

MoodOf(h, i) ==
    IF Revenge(h, i) THEN "revenge"
    ELSE IF Fomo(h, i) THEN "fomo" ELSE IF Tilted(h, i) THEN "anxious"
    ELSE IF h[i].pnl > 0 THEN "confident" ELSE IF h[i].pnl < 0 THEN "neutral" ELSE Unset

\* Tilt overrides revenge; sizes and brief losses count where neither applies.
MistakeOf(h, i) ==
    IF Tilted(h, i) THEN "oversized"
    ELSE IF Revenge(h, i) THEN "revenge"
    ELSE IF Oversized(h, i) THEN "oversized"
    ELSE IF Undersized(h, i) THEN "undersized"
    ELSE IF h[i].brief /\ h[i].pnl < 0 THEN "early_exit" ELSE "none"

Tagged(h) ==
    LET Keep(old, new) == IF old = Unset THEN new ELSE old IN
    IF Len(h) < 2 THEN h
    ELSE [i \in Positions(h) |->
            [h[i] EXCEPT !.mood = Keep(@, MoodOf(h, i)), !.mistake = Keep(@, MistakeOf(h, i)),
                         !.followed = Keep(@, IF MistakeOf(h, i) = "none" THEN "yes" ELSE "no")]]
=============================================================================
