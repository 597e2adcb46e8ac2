CONSTANTS
  c1 = c1
  c2 = c2
  Clients <- TwoClients
  NumPieces = 2
  NumBlocks = 1
  MaxBlocksInProgress = 2
  MaxBlocksInMultiMode = 1
  WarmUpPieces = 2
  EndGamePieces = 5
  Resumed = TRUE
  EarlyPeers = FALSE
  MaxSpan = 2
  Kinds <- AllKinds
  Limit <- Swarm
SPECIFICATION Spec
SYMMETRY Symmetry
CHECK_DEADLOCK FALSE
INVARIANTS
  TypeOK
  NoDanglingPiece
  OneVerdictPerPiece
  CompletedIsIntact
  InterestKept
