SPECIFICATION FairSpec
CONSTANTS
    Conns = {excluded, plain, early}
    Clients = {excluded, plain}
    Port <- MCPort
    Excluded = {excluded}
    Upstreams = 2
    UPSTREAM_FAILURE_LIMIT = 2
    Scenarios <- MCScenarios
    excluded = excluded
    plain = plain
    early = early
    shared = shared
    own = own
INVARIANTS
    TypeOK
    DirectOnlyForExcluded
    SettledAfterFirst
    CooldownIsEarned
PROPERTIES
    PacketsFlow
    StopEnds
    ServiceResumes
    HealthCatchesUp
CHECK_DEADLOCK FALSE
