SPECIFICATION FairSpec
CONSTANTS
    Users = {u1, u2}
    Single = u1
    Requests = {r1, r2, r3}
    Third = r3
    Zones = {0, 5}
    TTL = 1
    MaxDelay = 1
    MaxRestarts = 1
    ExitOrders = {"before", "after"}
CONSTRAINT Instances
INVARIANTS
    TypeOK
    CommittedOnly
PROPERTIES
    ServesOneMoment
    EventuallyFresh
CHECK_DEADLOCK FALSE
