CONSTANTS
    Challenge = {c1}
    Audience = {site}
    Updater = {u1}
    r1 = r1
    r2 = r2
    k1 = k1
    k2 = k2
    Request = {r1, r2}
    Conn = {k1, k2}
    Deployments <- OneConnection
    Second = 2
    MinReplaySeconds = 1
    WatchRetryLimit = 2
    None = None
    Lifetimes <- MCLifetimes
    PasskeyPolicies = {FALSE}
    MaxDelay = 1
    MaxClock = 4
    MaxCrashes = 1
SPECIFICATION Spec
INVARIANTS SingleUse
CHECK_DEADLOCK FALSE
