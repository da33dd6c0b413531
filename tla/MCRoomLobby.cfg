SPECIFICATION FairSpec
CONSTANTS
  Users = {u1, u2, u3}
  Creator = u1
  MaxPlayers = 3
  CombinedMemberCapacity = 2
  MaxCpus = 1
  MaxAttempts = 3
  MaxMatches = 2
INVARIANTS
  HostIsPlayer
  TeamsAreBalanced
PROPERTIES
  ReturnResetsReady
  OnlyLateAnswersExpel
  ConfirmationEnds
CHECK_DEADLOCK FALSE
