CONSTANTS
  c1 = c1
  c2 = c2
  Clients <- TwoClients
  NumPieces = 1
  NumBlocks = 3
  MaxBlocksInProgress = 2
  MaxBlocksInMultiMode = 1
  WarmUpPieces = 1
  EndGamePieces = 5
  Resumed = TRUE
  EarlyPeers = TRUE
  MaxSpan = 1
  Kinds <- AllKinds
  Limit <- Interrupted
SPECIFICATION Spec
SYMMETRY Symmetry
CHECK_DEADLOCK FALSE
INVARIANTS
  PiecesPartitioned
  QuotaKept
