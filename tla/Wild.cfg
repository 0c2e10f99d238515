CONSTANTS
    w1 = w1
    w2 = w2
    Windows = {w1, w2}
    NDesks = 2
    MatchRule <- OneRule
    Slow = {w1}
    Unruly = {"veto", "wander", "birth", "place", "scan", "quit"}
    MaxQueue = 1
SPECIFICATION Spec
INVARIANTS
    TableSound

    
CHECK_DEADLOCK FALSE
