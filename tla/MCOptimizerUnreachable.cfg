SPECIFICATION Spec
CONSTANTS
  Programs <- MCUnreachable
  MAX_SYMBOLS = 3
  W = 4
INVARIANT
  Returns
CHECK_DEADLOCK FALSE
