CONSTANTS
    p1 = p1
    p2 = p2
    p3 = p3
    f1 = f1
    h1 = h1
    h2 = h2
    Zero = Zero
    Nil = Nil
    Members = {p1, p2, p3, f1}
    Faulty = {f1}
    Hash = {h1}
    Threads = 1
    MaxRound = 1
    includeProofs = TRUE
    Names = {"lies", "recover", "mixed", "honest", "keep"}
SPECIFICATION MCSpec
VIEW View
CHECK_DEADLOCK FALSE
INVARIANTS NoPanic ZeroMeansUndecided NextRoundUndecided 
