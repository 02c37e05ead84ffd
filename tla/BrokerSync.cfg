SPECIFICATION FairSpec
CONSTANTS
    Requests = {1, 2, 3}
    Brokers = {"zerodha"}
    Numbers = {1}
    PoolSize = 2
    ExitOrders = {"before", "after"}
    None = None
INVARIANTS
    TypeOK
    OneActive
    SyncsActive
PROPERTIES
    PoolIsSemaphore
    EveryRequestEnds
CHECK_DEADLOCK FALSE
