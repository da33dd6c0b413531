\* Eight events and two matches: a rematch after a finished, an invalidated or
\* an interrupted match. The session's channel overflows within one batch.
CONSTANTS
  s1 = s1
  Subscribers = {s1}
  Buffer = 2
  MaxEvents = 8
  MaxMatches = 2
  StoreFails = TRUE
  OutageJoins = FALSE
  LastSaveFails = FALSE
SPECIFICATION Spec
INVARIANTS
  LogIsContiguous
  StoredBeforePublished
  SnapshotMeetsStream
  SubscriberMissesNothing
  GameLogsAreReadable
PROPERTIES
  KeepsStream
CHECK_DEADLOCK FALSE
