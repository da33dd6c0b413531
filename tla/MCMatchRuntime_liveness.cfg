CONSTANTS
  h1 = h1
  h2 = h2
  c1 = c1
  Humans = {h1}
  Lobby_CPUs = {c1}
  Host = h1
  Orders <- SoloOrders
  MaxSockets = 1
  MaxMatches = 1
  Pauses = TRUE
  StoreFails = TRUE
  LateCommands = TRUE
  MaxLate = 0
  OutageJoins = FALSE
SPECIFICATION FairSpec
PROPERTIES
  OutageEnds
  PauseEnds
  AbandonedMatchSettles
