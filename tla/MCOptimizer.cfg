SPECIFICATION Spec
CONSTANTS
  Programs <- MCPrograms
  MAX_SYMBOLS = 3
  W = 4
INVARIANTS
  FoldSound
  
  
CHECK_DEADLOCK FALSE
