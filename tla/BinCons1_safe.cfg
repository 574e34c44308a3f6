CONSTANTS
    p1 = p1
    p2 = p2
    p3 = p3
    f1 = f1
    Members = {p1, p2, p3, f1}
    Faulty = {f1}
    Active = {p1, p2}
    Overlap = FALSE
    MaxRound = 2
    Threads = 1
    StopOnCommit = "Immediate"
    IncludeProofs = TRUE
SPECIFICATION MCSpec
SYMMETRY Symmetry
CHECK_DEADLOCK FALSE
INVARIANTS TypeOK Agreement OneValuePerRound DecideTogether
PROPERTIES ImplementsConsensus
