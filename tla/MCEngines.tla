----------------------------- MODULE MCEngines -----------------------------
(* The engines that compute from a list of trades or orders, one at a time: *)
(* they share no state, so each behaviour exercises one of them and leaves  *)
(* the variables of the others alone.                                       *)
EXTENDS Tradebooks, RuleCheckLoop, PropCompliance, Reports, MCCsvImport, SampleHistories, TLC

VARIABLE engine   \* the one that runs

Symmetry == Permutations(Symbols)

-----------------------------------------------------------------------------
(* Rule checks: seven trades over two days, two thresholds of every type,  *)
(* in halves: of the trades of a day and the losses in a row 0.5 and 1 or 2, *)
(* of the hours 9 and 15.5.                                                *)

Book == << [d |-> 1, h |-> 9,  p |-> -4, q |-> 1],
           [d |-> 1, h |-> 10, p |-> 3,  q |-> 2],
           [d |-> 1, h |-> 15, p |-> -2, q |-> 3],
           [d |-> 2, h |-> 0,  p |-> -1, q |-> 1],
           [d |-> 2, h |-> 9,  p |-> -3, q |-> 2],
           [d |-> 2, h |-> 15, p |-> 0,  q |-> 4],
           [d |-> 2, h |-> 23, p |-> -2, q |-> 3] >>

Limits == [type \in RuleTypes |->
             CASE type \in {"no_trading_after", "no_trading_before"} -> {18, 31}
               [] type = "max_trades_per_day" -> {1, 4} [] type = "max_loss_per_day" -> {2, 5}
               [] OTHER -> {1, 2}]
MCRules == UNION {{<<type, n>> : n \in Limits[type]} : type \in RuleTypes}

MCTrades    == DOMAIN Book
MCDay       == [t \in MCTrades |-> Book[t].d]
MCHour      == [t \in MCTrades |-> Book[t].h]
MCPnl       == [t \in MCTrades |-> Book[t].p]
MCQty       == [t \in MCTrades |-> Book[t].q]
MCRuleType  == [q \in MCRules |-> q[1]]
MCThreshold == [q \in MCRules |-> q[2]]

-----------------------------------------------------------------------------
(* Prop-firm accounts: four trades over four days, a balance of 100.       *)

Outcomes == {-6, -4, 9}
Funded == {<<"the5ers", "funded">>}
Asked  == {<<>>}

-----------------------------------------------------------------------------
IdleOrders ==
    /\ book = [o \in Orders |-> [symbol |-> None, side |-> "BUY", qty |-> 1, time |-> 1]]
    /\ left = [o \in Orders |-> 1] /\ rest = Orders
    /\ buys = <<>> /\ sells = <<>> /\ trades = {}
IdleLoop == S = {} /\ r = (CHOOSE q \in Rules : TRUE) /\ LoopInit
IdleReports == history = <<>> /\ offset = 0 /\ edits = 0

IdleFiles == closed = <<>>

EnginesInit ==
    \/ engine = "orders"  /\ Init       /\ IdleLoop   /\ PropInit /\ IdleReports /\ IdleFiles
    \/ engine = "rules"   /\ IdleOrders /\ LoopInit   /\ PropInit /\ IdleReports /\ IdleFiles
    \/ engine = "account" /\ IdleOrders /\ IdleLoop   /\ PropInit /\ IdleReports /\ IdleFiles
    \/ engine = "reports" /\ IdleOrders /\ IdleLoop   /\ PropInit /\ ReportInit /\ IdleFiles
    \/ engine = "files"   /\ IdleOrders /\ IdleLoop   /\ PropInit /\ IdleReports /\ FileInit

EnginesNext ==
    /\ UNCHANGED engine
    /\ \/ engine = "orders"  /\ Next        /\ UNCHANGED <<loopVars, propVars, reportVars, closed>>
       \/ engine = "rules"   /\ LoopNext    /\ UNCHANGED <<vars, propVars, reportVars, closed>>
       \/ engine = "account" /\ PropNext    /\ UNCHANGED <<vars, loopVars, reportVars, closed>>
       \/ engine = "reports" /\ ReportNext /\ UNCHANGED <<vars, loopVars, propVars, closed>>
       \/ engine = "files"   /\ FileNext  /\ UNCHANGED <<vars, loopVars, propVars, reportVars>>

EnginesSpec == EnginesInit /\ [][EnginesNext]_<<engine, vars, loopVars, propVars, reportVars, closed>>

-----------------------------------------------------------------------------
(* The properties of the engines, as their modules state them: all but   *)
(* the types are checked under their own names.                            *)

\* Every engine's variables have their types.
WellTyped ==
    CASE engine = "orders" -> TypeOK [] engine = "rules" -> LoopTypeOK
      [] engine = "account" -> PropTypeOK [] engine = "reports" -> ReportTypeOK
      [] engine = "files" -> closed \in Seq(Closed)
=============================================================================
