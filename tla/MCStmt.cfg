SPECIFICATION Spec
CONSTANTS
  Alphabets <- MCAlphabets
  MaxTokens <- MCMaxTokens
INVARIANTS NestingAgrees UnbalancedReported
PROPERTIES ParserReturns
CHECK_DEADLOCK FALSE
