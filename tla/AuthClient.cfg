SPECIFICATION FairSpec
CONSTANTS
    Accounts = {a, b}
    Requests = {r1, r2}
    Profile = {r1}
    Me = Me
    None = None
    OtherAccount = b
    OtherRequest = r2
INVARIANTS
    TypeOK
    SessionConsistent
    RefreshLock
PROPERTIES
    EveryCallSettles
CONSTRAINT Instances
CHECK_DEADLOCK FALSE
