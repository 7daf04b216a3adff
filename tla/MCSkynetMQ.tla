----------------------------- MODULE MCSkynetMQ -----------------------------
(* Instances of SkynetMQ for TLC. *)
EXTENDS SkynetMQ, TLC

CONSTANTS m1, m2

MCSymmetry == Permutations(Message)
=============================================================================
