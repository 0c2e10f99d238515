CONSTANTS
  Families <- MCFamilies
  MaxLines = 4
  MaxUses = 1
  Value <- MCValue
  Patterns <- MCPatterns
  Plugins <- MCPlugins
  Registry <- MCRegistry
  NewWindows <- MCWindows
  Programs <- MCPrograms
  Settings = {"DateFormat", "Font"}
  MenuNames = {"root", "slit", "putty"}
SPECIFICATION SpecRules
INVARIANTS  BoxesAsWritten OwnedOnce
CHECK_DEADLOCK FALSE
