SPECIFICATION MCSpec
CONSTANTS
    loads = loads  broken = broken  run1 = run1  link2 = link2   vetoed = vetoed
    Plugins = {loads, broken}
    Broken = {broken}
    Config <- MCConfig
    Sources <- MCSources
    Links = {link2}
    Vetoes <- MCVetoes
    SaferExec <- MCSafer
    Wrap = 4
    Delays = {2}
    MaxBoxes = 2
    MaxCalls = 1
    MaxLives = 2
    MaxLate = 2
INVARIANTS StartsInOrder 
PROPERTIES ItemsAreStarted 
