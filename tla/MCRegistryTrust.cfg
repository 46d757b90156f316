CONSTANTS
    i1 = i1
    i2 = i2
    build1 = build1
    build2 = build2
    op1 = op1
    op2 = op2
    Unset = Unset
    None = None
    Issuer = {i1, i2}
    Program = {build1, build2}
    Commitment <- Commitments
    Operator = {op1}
    EnvOf <- OneOperator
    Wishes <- WishesDef
    Histories <- Used
    Presented = {3}
    Settings <- SettingsDef
    MaxRuns = 2
    MaxReads = 1
SPECIFICATION Spec
INVARIANT RegistryModeIsMandatory
CHECK_DEADLOCK FALSE
