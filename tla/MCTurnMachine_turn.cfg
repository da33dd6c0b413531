\* Queue limit 3, five throws: the limit is reached, consumed and reached again.
CONSTANTS
  TokenIDs = {t1, t2, t3, t4, t5}
  Results = {"do", "yut", "mo", "backdo", "buk"}
  MaxResultQueueTokens = 3
SPECIFICATION FairSpec
INVARIANTS
  ThrowIsRecordable
  SelectedIsConsumable
PROPERTIES
  SealedTurnAddsNothing
  SealedTurnEnds
CHECK_DEADLOCK FALSE
