CONSTANTS
  t1 = t1
  t2 = t2
  c1 = c1
  c2 = c2
  c3 = c3
  Torrents <- TwoTorrents
  Conns <- ThreeConns
  MaxConnections = 2
SPECIFICATION Spec
SYMMETRY Symmetry
CHECK_DEADLOCK FALSE
INVARIANTS
  ListedAreKept
  OnlyStraysDangle
  LiveAreCounted
