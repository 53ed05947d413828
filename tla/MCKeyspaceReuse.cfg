SPECIFICATION Spec
CONSTANTS
  c1 = c1
  c2 = c2
  s1 = s1
  Claim = {c1, c2}
  Shared = {}
  Deletable = {c1, c2}
  Writing = {c1, c2}
  NoHolder = NoHolder
  NoKey = NoKey
  Instance = {"persistent"}
  DbnumMax = 1
  MaxLate = 0
  MaxDrops = 1
  FreshCache = TRUE
  SettledWrites = TRUE
  QuietGC = TRUE
  SureRevokes = TRUE
SYMMETRY Symmetry
INVARIANT StartsEmpty
