\* A queue of two blocks, a buffer of three messages.
CONSTANTS
  b1 = b1
  b2 = b2
  Blocks <- TwoBlocks
  BlockLength = 2
  HeaderLength = 1
  MaxPendingSize = 6
  MaxIncoming = 1
  MaxBuffer = 3
  MaxReads = 2
SPECIFICATION FairSpec
CHECK_DEADLOCK FALSE
INVARIANTS
  QueueBounded
  BlocksOnlyToUnchoked
PROPERTY
  SilentPeerDropped
