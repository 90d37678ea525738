-------------------------- MODULE MCAuthentication --------------------------
(* Values of the constants of Authentication for model checking. *)
EXTENDS Authentication, TLC

CONSTANTS w1, w2
=============================================================================
