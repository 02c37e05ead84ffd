SPECIFICATION Spec
CONSTANTS
    Trades = {1, 2}
    Rules <- OneRule
    Day <- MCDay
    Hour <- MCHour
    Pnl <- MCPnl
    Qty <- MCQty
    RuleType <- MCRuleType
    Threshold <- MCThreshold
    Unit = 2
    Jobs = {j1}
    Databases = {"postgres"}
PROPERTIES
    ManualTagKept
CHECK_DEADLOCK FALSE
