SPECIFICATION Spec
CONSTANTS
    Trades = {1, 2}
    Rules <- MCRules
    Day <- MCDay
    Hour <- MCHour
    Pnl <- MCPnl
    Qty <- MCQty
    RuleType <- MCRuleType
    Threshold <- MCThreshold
    Unit = 2
    Jobs = {j1, j2}
    Databases = {"postgres", "sqlite"}
SYMMETRY JobSymmetry
INVARIANTS
    TypeOK
    RecordedOnce
    ViolationsLinked
    
CHECK_DEADLOCK FALSE
