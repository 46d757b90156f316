CONSTANTS
    Session = {s1, s2}
    User = {u1, u2}
    RawStatus <- Decisions
    None = None
    MaxVerifications = 2
    MaxClaims = 1
    MaxProcessed = 1
    ClaimTtl = 0
    StateFile = TRUE
    MaxFlushes = 3
    MaxFailures = 2
    Delivery = {d1, d2}
    MaxClock = 1
    MaxCrashes = 1
    DemoIssuer = FALSE
SPECIFICATION Spec
SYMMETRY Symmetry
INVARIANTS TypeOK DedupeImpliesClaims ClaimsComeFromApproval IdleMeansDurable
CHECK_DEADLOCK FALSE
