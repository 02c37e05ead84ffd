SPECIFICATION EnginesSpec
CONSTANTS
    Orders = {1, 2, 3, 4}
    Symbols = {x, y}
    Times = {1, 2}
    Quantities = {1, 2}
    Trades <- MCTrades
    Rules <- MCRules
    Day <- MCDay
    Hour <- MCHour
    Pnl <- MCPnl
    Qty <- MCQty
    RuleType <- MCRuleType
    Threshold <- MCThreshold
    Unit = 2
    Balance = 100
    Pnls <- Outcomes
    LastDay = 3
    MaxTrades = 4
    Plans <- Funded
    Overrides <- Asked
    None = None
    Closed <- MCClosed
    MaxClosed = 3
    Books <- MCBooks
    Arrivals <- MCArrivals
    Offsets = {0, 5}
    Weeks <- MCWeeks
    Texts <- MCTexts
SYMMETRY Symmetry
INVARIANTS
    WellTyped
    Conserved
    FifoAgrees
    LoopAgrees
    DrawdownAgrees
    OnePassAgrees
    ConsistentNeedsDays
    EnginesAgree
    TotalsAgree
    WeeksAgree
    FormatsAgree
    PairingsAgree
PROPERTIES
    DrawdownSticks
    ReportsGrow
CHECK_DEADLOCK FALSE
