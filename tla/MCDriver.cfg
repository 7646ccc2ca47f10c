SPECIFICATION Spec
CONSTANTS
  Procs = {p1, p2}
  Jobs <- MCJobs
  SourceText <- MCSourceText
  Broken <- MCBroken
  Disk <- MCDisk
INVARIANTS
  OwnBinary
  NoLeftovers
  ImportsMerged
PROPERTY
  Finishes
CHECK_DEADLOCK FALSE
