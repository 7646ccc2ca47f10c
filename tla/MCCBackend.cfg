SPECIFICATION Spec
CONSTANTS
  Profiles <- MCProfiles
  RangeEnd = 2
INVARIANTS
  DropsMatchInits
  CleanWithoutEarlyExit
  CaughtWhenFlat
  FinallyRuns
PROPERTIES
  RangeTurns
CHECK_DEADLOCK FALSE
