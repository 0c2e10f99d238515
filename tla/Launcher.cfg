CONSTANTS
    a = a
    b = b
    Texts = {a, b}
    Empty = Empty
    NoValue = NoValue
    World = {"modal", "crash", "files"}
    StartExecs = {"none"}
    StartMru <- OneMru
    MaxMru = 2
    MaxRid = 3
    MaxWindows = 2
SPECIFICATION Spec
INVARIANTS
    SettledShowsTyped
    IndexIsWhole
PROPERTIES
    
    IndexKeepsUp
CHECK_DEADLOCK FALSE
