SPECIFICATION PropSpec
CONSTANTS
    Balance = 100
    Pnls <- Losses
    LastDay = 1
    MaxTrades = 3
    Plans <- Funded
    Overrides <- Asked
    None = None
INVARIANTS
    FirmRulesChecked
CHECK_DEADLOCK FALSE
