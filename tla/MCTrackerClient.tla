-------------------------- MODULE MCTrackerClient --------------------------
(***************************************************************************)
(* TrackerClient for TLC: it needs no further bound, events are counted to *)
(* two and stopped() to MaxStopped.                                        *)
(***************************************************************************)
EXTENDS TrackerClient
=============================================================================
