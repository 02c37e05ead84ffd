SPECIFICATION Spec
CONSTANTS
    Requests = {r1, r2, r3}
    First = first
    Emails = {e1, e2}
    Passwords = {p1, p2}
    Databases = {"postgres", "sqlite"}
    None = None
SYMMETRY Symmetry
INVARIANTS
    TypeOK
    OneAccountPerAddress
    AuditComplete
    AuditLinked
    PlanIsVerified
    TogglesCount
PROPERTIES
    DeletedStaysDeleted
CHECK_DEADLOCK FALSE
