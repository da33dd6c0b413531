CONSTANTS
  s1 = s1
  Subscribers = {}
  Buffer = 2
  MaxEvents = 8
  MaxMatches = 2
  StoreFails = TRUE
  OutageJoins = TRUE
  LastSaveFails = FALSE
SPECIFICATION Spec
INVARIANTS
  WorkingStoreAccepts
CHECK_DEADLOCK FALSE
