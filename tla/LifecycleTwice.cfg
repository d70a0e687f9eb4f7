CONSTANTS
    Procs = {p1, p2, p3}
    Ids <- MCIds
    None = None
    Gone = Gone
    Scenarios <- Twice
SPECIFICATION Spec
INVARIANT ExclusionsEnforced
