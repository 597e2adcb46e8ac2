------------------------------- MODULE MCChat -------------------------------
(***************************************************************************)
(* Chat for TLC: two others in the room and two sessions.                  *)
(***************************************************************************)
EXTENDS Chat

CONSTANTS n1, n2

TwoNicks == {n1, n2}

NickSymmetry == Permutations(TwoNicks)
=============================================================================
