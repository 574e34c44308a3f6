CONSTANTS
    p1 = p1
    p2 = p2
    p3 = p3
    f1 = f1
    h1 = h1
    h2 = h2
    Nil = Nil
    Members = {p1, p2, p3, f1}
    Faulty = {f1}
    Hash = {h1, h2}
    Threads = 1
    Names = {"equivocate", "signed", "deliver", "amplify", "rb1", "rb1coord"}
SPECIFICATION MCSpec
SYMMETRY Symmetry
CHECK_DEADLOCK FALSE
INVARIANTS NoPanic AllOrNone 
PROPERTIES BothImplementConsensus
