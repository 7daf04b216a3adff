-------------------------- MODULE MCHandleStorage ---------------------------
(* Instances of HandleStorage for TLC. *)
EXTENDS HandleStorage, TLC

CONSTANTS c1, c2, c3, c4, c5, t1, t2

(* Contexts and launchers are interchangeable. *)
MCSymmetry == Permutations(Ctx) \cup Permutations(Launcher)
=============================================================================
