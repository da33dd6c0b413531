\* One mistake in the file; ordinary results of one to five spaces.
CONSTANTS
  MaxEdits = 1
  Targets <- WrongTargets
  Spaces <- OrdinarySpaces
SPECIFICATION FairSpec
INVARIANTS
  PlannerIsTotal
  DistanceIsExact
PROPERTIES
  ForwardMovesFinish
CHECK_DEADLOCK FALSE
