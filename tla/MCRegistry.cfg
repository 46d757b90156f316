CONSTANTS
    i1 = i1
    i2 = i2
    build1 = build1
    build2 = build2
    op1 = op1
    op2 = op2
    Unset = Unset
    None = None
    Issuer = {i1, i2}
    Program = {build1, build2}
    Commitment <- Commitments
    Operator = {op1, op2}
    EnvOf <- TwoOperators
    Wishes <- WishesDef
    Histories <- NewOrUsed
    Presented = {3}
    Settings <- SettingsDef
    MaxRuns = 3
    MaxReads = 1
SPECIFICATION Spec
INVARIANTS TypeOK SuccessIsAnchored ProofSpeaksForAccount RegistryTrustIsAnchored
PROPERTIES DecisionsStick FollowsLedger
CHECK_DEADLOCK FALSE
