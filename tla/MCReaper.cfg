SPECIFICATION LiveSpec
CONSTANTS
  c1 = c1
  s1 = s1
  Claim = {c1}
  Shared = {s1}
  Backend = {"redis-persistent", "pg"}
  Placements <- MCTogether
  Dwell = 1
  MaxFails = 1
  BrokenArms = {"dragonfly"}
  PartialShared = FALSE
  SlowProvision = TRUE
INVARIANTS TypeOK ReadyClaimHasBackend
PROPERTIES OccupiedIsNotReaped VolumeSurvivesReap UnusedIsReaped SharedRecovers
