SPECIFICATION Spec
CONSTANTS
  NoPath = NoPath
  MaxRuns = 1
  Commands <- CommandsDots
  Disks <- DisksDots
CHECK_DEADLOCK FALSE
INVARIANTS
  DocumentedOutputs
