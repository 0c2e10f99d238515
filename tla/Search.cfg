CONSTANTS
  Tree <- MCTree
  PATH <- MCPATH
  PATHEXT <- MCPATHEXT
  Special <- MCSpecial
  Target <- MCTarget
  Gone <- MCGone
  RunMru <- MCRunMru
  MRUList <- MCMRUList
  Typed <- MCTyped
  Code <- MCCode
  Dotted = {".com", ".exe", ".lnk", ".txt", ".url"}
  SHOW_ITEMS = 4
  MaxRid = 3
SPECIFICATION Spec
INVARIANTS  SelectedIsShown RunsAsTyped
PROPERTIES KeysWalkDirectories
CHECK_DEADLOCK FALSE
