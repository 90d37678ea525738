------------------------- MODULE MCSessionSharding -------------------------
(* Values of the constants of SessionSharding for model checking. *)
EXTENDS SessionSharding, TLC

CONSTANTS p1, p2
=============================================================================
