SPECIFICATION Spec
CONSTANTS
  c1 = c1
  c2 = c2
  s1 = s1
  Claim = {c1}
  Shared = {s1}
  Deletable = {c1, s1}
  Writing = {c1, s1}
  NoHolder = NoHolder
  NoKey = NoKey
  Instance = {"persistent"}
  DbnumMax = 2
  MaxLate = 1
  MaxDrops = 1
  FreshCache = TRUE
  SettledWrites = TRUE
  QuietGC = TRUE
  SureRevokes = TRUE
INVARIANTS TypeOK UsersApart
PROPERTIES ReclaimRevokes NoForeignFlush LiveDataSurvives GraceKeepsData ImplementsTenancy
