CONSTANTS
    Procs = {p1}
    InternetNames <- MCInternetNames
    EnvNames <- MCEnvNames
    Scalars <- MCScalars
    Absent = Absent
    Zero = Zero
    Entries <- MCEntries
    DEFAULT_NO_PROXY <- MCDefault
    Endpoints = {port1, port2}
    pac_url <- MCpac_url
    local_proxy <- MClocal_proxy
    Policies <- MCPolicies
    Scenarios <- FaultScenarios
    ForeignValues <- MCForeignValues
    legacy_backups <- MCLegacy
    NoFile = NoFile
    Invalid = Invalid
    One = One
    UserPac = UserPac
    Vpn = Vpn
    Pac1 = Pac1
    Pac2 = Pac2
    Local1 = Local1
    Local2 = Local2
    e1 = e1
    e2 = e2
    e3 = e3
    port1 = port1
    port2 = port2
SPECIFICATION FairSpec
INVARIANTS TypeOK EvidenceCoversApplied OriginalRecoverable OwnStateNeverForeign
PROPERTIES ReturnsAreTruthful InternetRefines EnvRefines RecoveryConverges
