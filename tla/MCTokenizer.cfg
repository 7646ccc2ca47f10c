SPECIFICATION Spec
CONSTANTS
  MaxFragments = 3
  Sources <- MCSources
  Keywords <- MCKeywords
INVARIANTS
  TypeOK
  LineAgrees
  LongestMatch
  FmtKeepsTokens
PROPERTY
  ReachesEof
