SPECIFICATION Spec
CONSTANTS
  c1 = c1
  c2 = c2
  s1 = s1
  Claim = {c1, c2}
  Shared = {}
  Deletable = {c1}
  Writing = {}
  NoHolder = NoHolder
  NoKey = NoKey
  Instance = {"ephemeral"}
  DbnumMax = 1
  MaxLate = 1
  MaxDrops = 1
  FreshCache = FALSE
  SettledWrites = TRUE
  QuietGC = FALSE
  SureRevokes = FALSE
INVARIANT Exclusive
