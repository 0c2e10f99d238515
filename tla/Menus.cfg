SPECIFICATION MCSpec
CONSTANTS
    w1 = w1  w2 = w2  None = None  Root = Root
    Windows = {w1, w2}
    Defs <- MCDefs
    PluginMenus <- MCPluginMenus
    Files = {"file"}
    HotkeyLines <- MCHotkeyLines
    Matching = {w2}
    MaxEvents = 3
INVARIANTS ItemsAlive MeantWindow
PROPERTIES PoolsAreFreed
