CONSTANTS
    Procs = {p1, p2}
    Ids = {c1, c2}
    is_windows = TRUE
    NoFile = NoFile
    Corrupt = Corrupt
    Scenarios <- MCScenarios
    p1 = p1
    p2 = p2
    c1 = c1
    c2 = c2
SPECIFICATION Spec
INVARIANTS QuarantineIsCorrupt AckedIsCurrent GoodCopyRemains
PROPERTY NoSecondPlainCopy
