CONSTANTS
    fr = fr
    de = de
    xx = xx
    narnia = narnia
    Listed = {fr, de}
    Unlisted = {xx}
    Unknown = {narnia}
    NoCode = NoCode
    Null = Null
    Undefined = Undefined
    None = None
    DefaultMaxAge = 1
    People <- PeopleDef
    DiditReports <- DiditReportsDef
    Estimates <- EstimatesDef
    DemoForms <- DemoFormsDef
    Requests <- RequestsDef
    Submissions <- SubmissionsDef
    ClaimTtl = 1
    ChallengeTtl = 2
    MaxClock = 3
SPECIFICATION Spec
INVARIANTS VerifiedMeetsPolicy ReviewIsRecent CredentialIsCurrent RefusalsHaveReasons
CHECK_DEADLOCK FALSE
