SPECIFICATION LiveSpec
CONSTANTS
  c1 = c1
  c2 = c2
  Claim = {c1, c2}
  Deleted = {c1}
  QuietGC = TRUE
  PromptCnpg = TRUE
  MaxFails = 1
INVARIANTS NoRoleLeak ServedIsBacked
PROPERTIES DropCompletes
