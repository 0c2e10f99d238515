CONSTANTS
  Families <- MCFamilies
  MaxTokens = 5
SPECIFICATION Spec
INVARIANTS RefusesOnlyBad MatchesMeaning
