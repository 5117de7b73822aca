SPECIFICATION Spec
CONSTANTS
  NoPath = NoPath
  MaxRuns = 1
  Commands <- CommandsNoDir
  Disks <- DisksMC
CHECK_DEADLOCK FALSE
INVARIANTS
  UnreachableArm
