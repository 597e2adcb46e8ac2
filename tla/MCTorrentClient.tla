-------------------------- MODULE MCTorrentClient --------------------------
(***************************************************************************)
(* Small instances of TorrentClient for TLC.                               *)
(***************************************************************************)
EXTENDS TorrentClient, TLC

CONSTANTS c1, c2

TwoClients == {c1, c2}

Budget(chosen) ==
  [k \in {"choke", "loss", "corrupt", "late", "stray", "pause", "fileError", "stop", "announce"} |->
     IF k \in DOMAIN chosen THEN chosen[k] ELSE 0]
AllKinds == DOMAIN Budget(<<>>)

\* Peers choke and send a damaged or unexpected block, or data that run over the end of
\* their piece, and the user stops the torrent.
Swarm == Budget([choke |-> 1, late |-> 1, corrupt |-> 1, stray |-> 1, stop |-> 1])

\* Connections are lost instead, and the user, the disk and the tracker interrupt, too.
Interrupted == Budget([loss |-> 1, announce |-> 1, pause |-> 1, fileError |-> 1])

\* Only one block is damaged.
Damaged == Budget([corrupt |-> 1])

Symmetry == Permutations(Clients)
=============================================================================
