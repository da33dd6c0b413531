\* Three goroutines, each a call of Process, one perhaps a deadline.
CONSTANTS
  MaxCalls = 3
  MaxDeadlines = 1
  Commands <- SentCommands
  LobbyContents <- Chat
SPECIFICATION FairSpec
INVARIANTS
  AcceptedOnce
  DuplicatesAgree
  RefusedHadNoEffect
  ClosedRoomIsForgotten
PROPERTIES
  NobodyWaits
CHECK_DEADLOCK FALSE
