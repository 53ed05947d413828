SPECIFICATION HealthySpec
CONSTANTS
  r1 = r1
  r2 = r2
  Replica = {r1, r2}
  NoReplica = NoReplica
  Skew <- MCSkew
  MaxSkew = 1
  LeaseDuration = 7
  RenewPeriod = 3
  RenewDeadline = 6
  RetryPeriod = 1
  ReadTimeout = 2
  Second = 1
  Lateness = 0
  ReadLatency = 1
  StepLatency = 2
  MaxLate = 1
INVARIANT HealthyLeaderKeepsLease
PROPERTY SomeoneActs
