CONSTANTS
    Wallet = {w1, w2}
    Origin = {site}
    Request = {r1}
    None = None
    ChallengeTtl = 2
    SessionTtl = 3
    FreshWindow = 1
    MaxChallenges = 2
    MaxSessions = 2
    MaxIssued = 3
    MaxOpened = 3
    MaxClock = 5
SPECIFICATION Spec
SYMMETRY Symmetry
INVARIANTS TypeOK EvictedOnlyByNewer
PROPERTIES OneAttemptPerChallenge RoutedWhileLive
CHECK_DEADLOCK FALSE
