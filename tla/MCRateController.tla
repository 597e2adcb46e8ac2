------------------------- MODULE MCRateController --------------------------
(***************************************************************************)
(* RateController for TLC: two connections, limits in both directions that *)
(* are used up, and one that times a second does not fit into an int.      *)
(***************************************************************************)
EXTENDS RateController

CONSTANTS c1, c2

TwoClients == {c1, c2}
=============================================================================
