CONSTANTS
    p1 = p1
    p2 = p2
    p3 = p3
    Members = {p1, p2, p3}
    Faulty = {}
    Active = {p1, p2, p3}
    Overlap = TRUE
    MaxRound = 2
    Threads = 2
    StopOnCommit = "SendProof"
    IncludeProofs = TRUE
SPECIFICATION MCFairSpec
CHECK_DEADLOCK FALSE
INVARIANTS NoPanic CountersSettle
PROPERTIES Termination
