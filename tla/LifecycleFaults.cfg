CONSTANTS
    Procs = {p1, p2, p3}
    Ids <- MCIds
    None = None
    Gone = Gone
    Scenarios <- MCScenarios
SPECIFICATION FairSpec
INVARIANTS SessionIsJournaled
PROPERTIES StopIsTruthful OrphanSessionEnds StopConverges
