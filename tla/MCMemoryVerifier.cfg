CONSTANTS
    Challenge = {c1}
    Audience = {site, other}
    Updater = {u1}
    Request = {r1, r2}
    None = None
    Lifetimes <- MCLifetimes
    MaxClock = 3
    MaxRestarts = 1
SPECIFICATION Spec
INVARIANTS SingleUse ReplayHasWinner SpentStaysSpent
PROPERTIES ImplementsRegister NoFalseUnknown GrantInTime
CHECK_DEADLOCK FALSE
