--------------------------- MODULE MCSkynetTimer ----------------------------
(* Instances of SkynetTimer for TLC; all constants are numbers. *)
EXTENDS SkynetTimer
=============================================================================
