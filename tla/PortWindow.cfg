SPECIFICATION Spec
CONSTANTS
    Conns = {excluded, plain, early}
    Clients = {excluded, plain}
    Port <- MCPort
    Excluded = {excluded}
    Upstreams = 2
    UPSTREAM_FAILURE_LIMIT = 2
    Scenarios <- WindowScenarios
    excluded = excluded
    plain = plain
    early = early
    shared = shared
    own = own
INVARIANT OneDestination
CHECK_DEADLOCK FALSE
