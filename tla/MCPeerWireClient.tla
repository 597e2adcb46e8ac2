-------------------------- MODULE MCPeerWireClient --------------------------
(***************************************************************************)
(* Small instances of PeerWireClient for TLC.                              *)
(***************************************************************************)
EXTENDS PeerWireClient

CONSTANTS b1, b2

TwoBlocks == {b1, b2}
=============================================================================
