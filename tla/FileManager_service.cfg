\* Two pieces of one block, two requests: every pair of requests, in both orders.
CONSTANTS
  b1 = b1
  NumPieces = 2
  Blocks <- OneBlock
  MaxRequests = 2
SPECIFICATION FairSpec
CHECK_DEADLOCK FALSE
INVARIANTS
  NoLostWakeup
  VerifySeesWrites
  ReadsAnsweredInOrder
PROPERTIES
  ImplementsFileService
  RequestsServed
