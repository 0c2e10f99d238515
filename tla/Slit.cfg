SPECIFICATION MCSpec
CONSTANTS
    a = a  b = b  k1 = k1  k2 = k2  k3 = k3
    Slits = {a, b}
    Named = {a}
    Kids = {k1, k2, k3}
    Edges = {"RIGHT", "TOP"}
    home <- Home
    grav <- Grav
    pri <- Pri
    Sizes <- MCSizes
    Strip = 1
    MaxCommands = 3
INVARIANTS LayoutIsSound 
PROPERTIES SavedIsRestored HidesAgain
