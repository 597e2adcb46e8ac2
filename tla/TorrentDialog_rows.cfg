CONSTANTS
  t1 = t1
  t2 = t2
  k1 = k1
  k2 = k2
  Torrents <- TwoTorrents
  Clients <- TwoClients
  MaxBoxes = 2
  MaxFastRows = 3
  MaxTimers = 2
SPECIFICATION Spec
CHECK_DEADLOCK FALSE
INVARIANTS
  RowsAreJobs
  OneFastRow
  ChangesGetSaved
  SavedIsKept
