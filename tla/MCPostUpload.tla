---------------------------- MODULE MCPostUpload ----------------------------
(* Small instances of PostUpload: a losing trade at 9:00, then trades at   *)
(* 10:00 and 16:00 of the same day, and rules of two types with thresholds *)
(* in halves: 1.5 trades a day, none from 10:00.                           *)
EXTENDS PostUpload, TLC

MCDay  == [t \in Trades |-> 1]
MCHour == [t \in Trades |-> IF t = 1 THEN 9 ELSE IF t = 2 THEN 10 ELSE 16]
MCPnl  == [t \in Trades |-> IF t = 1 THEN -5 ELSE 3]
MCQty  == [t \in Trades |-> t]

MCRules     == {"perDay", "late"}
MCRuleType  == [r \in Rules |-> IF r = "perDay" THEN "max_trades_per_day"
                                                ELSE "no_trading_after"]
MCThreshold == [r \in Rules |-> IF r = "perDay" THEN 3 ELSE 20]

OneRule      == {"perDay"}
JobSymmetry  == Permutations(Jobs)
=============================================================================
