\* A command of a game room that is sent again.
CONSTANTS
  MaxCalls = 3
  MaxDeadlines = 1
  Commands <- SentCommands
  LobbyContents <- Chat
SPECIFICATION Spec
INVARIANTS
  ResendChangesNothing
CHECK_DEADLOCK FALSE
