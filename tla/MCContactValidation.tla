------------------------ MODULE MCContactValidation ------------------------
(* Values of the constants of ContactValidation for model checking. *)
EXTENDS ContactValidation, TLC

CONSTANTS k1, k2, p1, p2, p3, n1, n2, r1, r2, r3, w1, w2

\* A phone with two candidates, one with one of them, and one that is no phone.
TwoOneNone == p1 :> <<n1, n2>> @@ p2 :> <<n2>> @@ p3 :> << >>
One == p1 :> <<n1>>
=============================================================================
