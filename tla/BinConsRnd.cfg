CONSTANTS
    p1 = p1
    p2 = p2
    p3 = p3
    f1 = f1
    Members = {p1, p2, p3, f1}
    Faulty = {f1}
    Threads = 2
    Names = {"any1", "rnd1", "rnd2", "any3", "rnd3", "rnd4", "any5", "rnd5", "rnd6"}
SPECIFICATION MCSpec
CHECK_DEADLOCK FALSE
INVARIANTS  OneVote 
PROPERTIES ImplementsConsensus
