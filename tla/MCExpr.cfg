SPECIFICATION Spec
CONSTANTS
  Alphabets <- MCAlphabets
  MaxTokens = 6
INVARIANTS EveryTokenKept PrecedenceClimbs
PROPERTIES ParseReturns
CHECK_DEADLOCK FALSE
