CONSTANTS
    p1 = p1
    p2 = p2
    p3 = p3
    f1 = f1
    Members = {p1, p2, p3, f1}
    Faulty = {f1}
    Threads = 2
    Values = {10, 11}
    Names = {"coord", "silent", "split", "early", "part"}
SPECIFICATION MvSpec
CHECK_DEADLOCK FALSE
INVARIANTS NoPanic MvNoneStuck
PROPERTIES ImplementsMvConsensus
