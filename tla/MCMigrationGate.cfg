SPECIFICATION LiveSpec
CONSTANTS
  MaxReplicas = 1
  MaxEdits = 2
  MaxFails = 2
  MaxLate = 1
  LateKinds = {"delete","create","pause","prune","claim","render","stamp"}
INVARIANTS TypeOK
PROPERTIES GatedByApproval Converges
