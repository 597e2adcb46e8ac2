--------------------------- MODULE MCConnections ---------------------------
(***************************************************************************)
(* Connections for TLC: two torrents that share a limit.                   *)
(***************************************************************************)
EXTENDS Connections, TLC

CONSTANTS t1, t2, c1, c2, c3

TwoTorrents == {t1, t2}
ThreeConns  == {c1, c2, c3}
Symmetry == Permutations(Torrents) \cup Permutations(Conns)
=============================================================================
