SPECIFICATION Spec
CONSTANTS
    Procs = {p1}
    Services = {s1, s2}
    Endpoints = {Empty, Sentinel, Up1, Up2, UserProxy, UserPac, LocalPac, Domains}
    Empty = Empty
    Sentinel = Sentinel
    LocalPacs = {LocalPac}
    Configs <- MCConfigs
    None = None
    Corrupt = Corrupt
    ForeignValues <- MCForeignValues
    Scenarios <- RetryScenarios
    s1 = s1
    s2 = s2
    Up1 = Up1
    Up2 = Up2
    UserProxy = UserProxy
    UserPac = UserPac
    LocalPac = LocalPac
    Domains = Domains
    b1 = b1
    b2 = b2
INVARIANT RestoreCanBeRetried
