SPECIFICATION Spec
CONSTANTS
  NoPath = NoPath
  MaxRuns = 2
  Commands <- CommandsMC
  Disks <- DisksMC
CHECK_DEADLOCK FALSE
INVARIANTS
  TypeOK
  SuccessIsComplete
PROPERTIES
  OnlyDecodedReplaces
  ImplementsBatch
