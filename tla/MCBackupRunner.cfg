SPECIFICATION LiveSpec
CONSTANTS
  Claims = 3
  Prunes = TRUE
  PromptApplies = TRUE
  MaxFails = 3
CHECK_DEADLOCK FALSE
INVARIANTS TypeOK CleanExit RecordedByClaimer
PROPERTIES EventuallyExits
