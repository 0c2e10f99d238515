SPECIFICATION MCSpec
CONSTANTS
    w1 = w1  w2 = w2  w3 = w3  f1 = f1  f2 = f2  m1 = m1
    Win = {w1, w2, w3}
    App = {w1, w2}
    File = {f1, f2}
    Module = {m1}
    NoFile = NoFile
    Unreadable = Unreadable
    moduleOf <- ModuleOf
    target <- Target
    MaxMoves = 3
INVARIANTS IconsAreSound DirectoryShown
PROPERTIES FlashKept SettlesRight
