CONSTANTS
  Documents <- AllDocuments
  Contents <- Parse
  SumCount <- SumsOfPieces
  Known <- FourTorrents
  BlockSize = 2
  MaxMessage = 3
SPECIFICATION Spec
CHECK_DEADLOCK FALSE
INVARIANTS
  
  NameIsTorrent
  WritesInPlace
  ReadIsSlice
  BlocksTile
