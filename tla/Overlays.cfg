SPECIFICATION MCSpec
CONSTANTS
    w1 = w1  w2 = w2  w3 = w3
    Windows = {w1, w2, w3}
    HomeOf <- Homes
    NDesks = 2
    MaximumWorkspaces = 2
    NoWindow = NoWindow
    World = {"lost"}
    MaxKeys = 3
    MaxThreads = 2
INVARIANTS SelectsMeant OverviewIsSound
  
\* The user may stop.
CHECK_DEADLOCK FALSE
