-------------------------- MODULE MCTorrentDialog --------------------------
(***************************************************************************)
(* TorrentDialog for TLC: two torrents and two clients, two boxes on top of  *)
(* one another and two timers.                                             *)
(***************************************************************************)
EXTENDS TorrentDialog

CONSTANTS t1, t2, k1, k2

TwoTorrents == {t1, t2}
TwoClients == {k1, k2}
=============================================================================
