CONSTANTS
  c1 = c1
  c2 = c2
  Clients <- TwoClients
  NumPieces = 2
  NumBlocks = 2
  MaxBlocksInProgress = 2
  MaxBlocksInMultiMode = 1
  WarmUpPieces = 2
  EndGamePieces = 5
  Resumed = FALSE
  EarlyPeers = FALSE
  MaxSpan = 1
  Kinds <- AllKinds
  Limit <- Damaged
SPECIFICATION FairSpec
CHECK_DEADLOCK FALSE
PROPERTY
  DownloadCompletes
