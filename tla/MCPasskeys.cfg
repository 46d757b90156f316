CONSTANTS
    Wallet = {w1}
    Origin = {site}
    Registration = {g1,g2}
    Finisher = {f1,f2}
    Assertion = {a1,a2}
    None = None
    Kinds = {"memory", "redis"}
    Second = 2
    Lifetimes <- MCLifetimes
    MaxDelay = 1
    MaxClock = 3
    MaxRestarts = 1
SPECIFICATION Spec
SYMMETRY Symmetry
INVARIANTS TypeOK RegisteredIsFound
PROPERTIES TakenInTime FallbackNeedsOverlap
CHECK_DEADLOCK FALSE
