SPECIFICATION Spec
CONSTANTS
    Accounts = {a}
    Requests = {r1}
    Profile = {}
    Me = Me
    None = None
INVARIANTS
    LoggedOutStaysOut
CHECK_DEADLOCK FALSE
