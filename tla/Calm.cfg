CONSTANTS
    w1 = w1
    w2 = w2
    Windows = {w1, w2}
    NDesks = 3
    MatchRule <- OneRule
    Slow = {}
    Unruly = {"scan"}
    MaxQueue = 2
SPECIFICATION Spec
INVARIANTS
    OnlyOwnWindowsOpen
    StashedCanReturn
PROPERTIES
    NoLeak
    SwitchEnds
CHECK_DEADLOCK FALSE
