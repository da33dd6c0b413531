CONSTANTS
  h1 = h1
  h2 = h2
  c1 = c1
  Humans = {h1, h2}
  Lobby_CPUs = {c1}
  Host = h1
  Orders <- HumanOrders
  MaxSockets = 2
  MaxMatches = 1
  Pauses = TRUE
  StoreFails = TRUE
  LateCommands = FALSE
  MaxLate = 1
  OutageJoins = TRUE
SPECIFICATION Spec
INVARIANTS
  TurnIsDriven
  PauseHasExpiry
  WindowIsPreserved
  PresenceMatchesSockets
PROPERTIES
  StaleCallbackIsInert
