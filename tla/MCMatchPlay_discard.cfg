CONSTANTS
  a1 = a1
  a2 = a2
  b1 = b1
  b2 = b2
  Graph <- SmallBoard
  Pieces <- MCPieces
  Team <- MCTeam
  TokenIDs <- LongTurn
  Results <- NoBuk
  MaxResultQueueTokens = 3
  MovementOrders <- FreeOrder
  Options <- UsualOptions
  MaxTurns = 3
SPECIFICATION Spec
SYMMETRY PieceSymmetry
INVARIANT
  UnusableIsDiscarded
CHECK_DEADLOCK FALSE
