\* Channels of one event and of one row: both overflow with two messages.
CONSTANTS
  u1 = u1
  Sessions = {s1}
  UserOf <- OneUser
  Texts = {"x", "y"}
  SecondWindow = 1
  PerSecondLimit = 1
  AttemptWindow = 2
  AttemptLimit = 2
  DuplicateWindow = 2
  BlockDuration = 2
  SubscriberBuffer = 1
  LogBuffer = 1
  MaxTime = 3
  MaxMessages = 2
  MaxRestarts = 1
SPECIFICATION FairSpec
INVARIANTS
  NobodySeesAGap
  BlockIsServedOnce
  RowsAreFresh
PROPERTIES
  DroppedSessionEnds
CHECK_DEADLOCK FALSE
