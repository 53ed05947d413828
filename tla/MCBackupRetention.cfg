SPECIFICATION LiveSpec
CONSTANTS
  here = here
  there = there
  Run = {1, 2, 3, 4}
  Cluster = {here, there}
  Owner <- MCOwner
  Scheduled = {1}
  Monolithic = {4}
  Old = {3, 4}
  Pruner = {1,2}
  Claims = 1
  RunDeadline = 1
  KeepAliveFloor = 1
  UnfinishedRunMargin = 2
  Grace = 1
  UploadTime = 1
  Keep <- MCKeep
  MaxTime = 4
  MaxFails = 1
CHECK_DEADLOCK FALSE
INVARIANTS TypeOK KeptIsWhole
PROPERTIES GarbageGoes
