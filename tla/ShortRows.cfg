SPECIFICATION FileSpec
CONSTANTS
    Closed <- MCClosed
    MaxClosed = 1
INVARIANTS
    ShortRowReported
CHECK_DEADLOCK FALSE
