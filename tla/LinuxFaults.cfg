SPECIFICATION FairSpec
CONSTANTS
    Procs = {p1}
    Profiles = {u1, u2}
    Backends = {"gsettings", "kde"}
    Urls = {NoUrl, UserPac, Pac1, Pac2}
    NoUrl = NoUrl
    Configs <- MCConfigs
    Sessions = {"gsettings", "kde", None}
    None = None
    Corrupt = Corrupt
    Gone = Gone
    Down = Down
    ForeignValues <- MCForeignValues
    Scenarios <- MCScenarios
    u1 = u1
    u2 = u2
    Pac1 = Pac1
    Pac2 = Pac2
    UserPac = UserPac
    b1 = b1
    b2 = b2
INVARIANTS
    OriginalRecoverable
    OwnStateNeverForeign
PROPERTIES
    ReturnsAreTruthful
    EvidenceRefines
    RecoveryConverges
