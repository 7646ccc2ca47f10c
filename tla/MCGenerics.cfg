SPECIFICATION Spec
CONSTANTS
  Programs <- MCPrograms
  Builtins = {"print"}
  StackDepth = 8
  MaxDecls = 20
INVARIANTS
  InstanceFitsCall
  CallsReported
PROPERTY
  Terminates
CHECK_DEADLOCK FALSE
