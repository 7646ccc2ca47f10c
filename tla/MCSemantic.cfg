SPECIFICATION Spec
CONSTANTS
  Names = {"f", "x", "y"}
  Literals = {"1"}
  Programs <- MCPrograms
  MaxStmts = 4
  MaxScopes = 5
INVARIANTS LexicalElsewhere NoFalseErrors ConstsAgree
PROPERTIES AnalysisEnds
CHECK_DEADLOCK FALSE
