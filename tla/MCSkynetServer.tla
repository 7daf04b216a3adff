--------------------------- MODULE MCSkynetServer ---------------------------
(* Instances of SkynetServer for TLC. *)
EXTENDS SkynetMailbox

CONSTANTS a, b, c, w1, w2, e1

(* The weights start() gives to its first workers are -1, to later ones 0
   and more: one worker that takes a message per round, one that takes all. *)
MCWeight == [t \in Worker |-> IF t = w1 THEN -1 ELSE 0]
=============================================================================
