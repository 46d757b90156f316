CONSTANTS
    Session = {s1}
    User = {u1}
    RawStatus <- Decisions
    None = None
    MaxVerifications = 2
    MaxClaims = 2
    MaxProcessed = 2
    ClaimTtl = 0
    StateFile = FALSE
    MaxFlushes = 0
    MaxFailures = 0
    Delivery = {d1, d2, d3}
    MaxClock = 1
    MaxCrashes = 0
    DemoIssuer = TRUE
SPECIFICATION FairSpec
INVARIANTS NoStrandedApproval
PROPERTIES ApprovalIsServed
CHECK_DEADLOCK FALSE
