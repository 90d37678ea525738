------------------------ MODULE MCBaileysConnection ------------------------
(* Values of the constants of BaileysConnection for model checking. *)
EXTENDS BaileysConnection, TLC

CONSTANT ph
=============================================================================
