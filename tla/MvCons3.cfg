CONSTANTS
    p1 = p1
    p2 = p2
    p3 = p3
    f1 = f1
    Members = {p1, p2, p3, f1}
    Faulty = {f1}
    Rotation <- Order
    LastIndex = 8
    LastDelayed = 5
    MaxRun = 5
    MaxDelays = 2
    Patterns = {"after", "one", "two", "half", "last", "none", "miss", "lost", "twice"}
SPECIFICATION MCSpec
CHECK_DEADLOCK FALSE
INVARIANTS  NoneBehind
PROPERTIES EchoesForward
