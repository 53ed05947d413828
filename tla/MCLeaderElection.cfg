SPECIFICATION Spec
CONSTANTS
  r1 = r1
  r2 = r2
  Replica = {r1, r2}
  NoReplica = NoReplica
  Skew <- MCSkew
  MaxSkew = 1
  LeaseDuration = 8
  RenewPeriod = 2
  RenewDeadline = 4
  RetryPeriod = 1
  ReadTimeout = 1
  Second = 1
  Lateness = 1
  ReadLatency = 0
  StepLatency = 0
  MaxLate = 2
INVARIANTS TypeOK AtMostOneActing LeaderHoldsLease TenureIsBounded
