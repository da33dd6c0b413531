CONSTANTS
  a1 = a1
  a2 = a2
  b1 = b1
  b2 = b2
  Graph <- SmallBoard
  Pieces <- MCPieces
  Team <- MCTeam
  TokenIDs <- ShortTurn
  Results <- SpecialResults
  MaxResultQueueTokens = 3
  MovementOrders <- AllOrders
  Options <- SeveralOptions
  MaxTurns = 3
SPECIFICATION Spec
SYMMETRY PieceSymmetry
INVARIANTS
  NoHostileCoexistence
  StackSharesHistory
  WinnerEndsTurn
  CpuDecisionIsCandidate
  CpuFinishesItsRoute
CHECK_DEADLOCK FALSE
