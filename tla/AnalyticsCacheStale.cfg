SPECIFICATION Spec
CONSTANTS
    Third = r1
    Single = u1
    Users = {u1}
    Requests = {r1, r2}
    Zones = {0}
    TTL = 1
    MaxDelay = 1
    MaxRestarts = 0
    ExitOrders = {"before"}
INVARIANTS
    InvalidatedOnTradeChange
CHECK_DEADLOCK FALSE
