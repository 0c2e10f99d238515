CONSTANTS
    w1 = w1  w2 = w2  w3 = w3
    Icons = {k1, k2}
    Pictures = {p1}
    Texts = {t1, t2}
    None = None
    MaxFlags = 2
    Apps = {w1, w2, w3}
    Nobody = Nobody
    IconSize = 4
    Files <- MCFiles
    Pad = 4
    MaxMail = 1
    Loads <- MCLoads
SPECIFICATION PanelSpec
INVARIANTS PanelIsWhole PluginsAreWhole
SYMMETRY Symmetry
CHECK_DEADLOCK FALSE
