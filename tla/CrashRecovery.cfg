CONSTANTS
    Actors = {a1, a2}
    Operations = {o1, o2}
    Scopes = {s1, s2}
    NoEvidence = NoEvidence
    MaxHistory = 10
SPECIFICATION Spec
INVARIANTS TypeOK CyclesAreVerified OffMeansRestored OnlyOwnerApplies
PROPERTY EvidencePinned
CHECK_DEADLOCK FALSE
