CONSTANTS
    adult = adult
    minor = minor
    DE = DE
    FR = FR
    s1 = s1
    s2 = s2
    UK = UK
    None = None
    User = {adult, minor}
    Code = {DE, FR, UK, 4, 8, 12, 16, 20, 24, 28}
    Secret = {s1, s2}
    DobOf <- Births
    CountryOf <- Countries
    Numeric <- Numbers
    Days <- Calendar2024
    Asked <- AskedDef
    Policies <- PoliciesDef
    MaxEvents = 2
    MaxBundles = 1
    MaxProofs = 2
    MaxGateSends = 3
SPECIFICATION Spec
INVARIANT HonestProofAccepted
CHECK_DEADLOCK FALSE
SYMMETRY Secrets
