SPECIFICATION LiveSpec
CONSTANTS
  RequestTimeout = 1
  DeleteSettle = 3
  AnswerLag = 1
  LateKinds = {"apply", "status", "delete"}
  MaxFails = 2
  MaxRefs = 1
INVARIANTS TypeOK NoOrphan RefCountSettles
PROPERTIES VolumeKeepsData DeletionCompletes
