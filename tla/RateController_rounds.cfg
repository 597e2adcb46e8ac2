CONSTANTS
  c1 = c1
  c2 = c2
  Clients <- TwoClients
  Limits = {2, 4}
  Second = 2
  IntMax = 7
  MaxData = 2
SPECIFICATION FairSpec
CHECK_DEADLOCK FALSE
INVARIANTS
  LimitsKept
  TransferOnItsWay
PROPERTY
  DataIsMoved
