--------------------------- MODULE MCSendPipeline ---------------------------
(* Values of the constants of SendPipeline for model checking. *)
EXTENDS SendPipeline, TLC

CONSTANTS c1, c2, k1, k2, m0, m1

NoFaults == [kind \in FaultKinds |-> 0]
EditOnly == [NoFaults EXCEPT !["edit"] = 1]
Redelivery == [NoFaults EXCEPT !["crash"] = 1, !["ack"] = 1, !["clear"] = 1]
Storm == [NoFaults EXCEPT !["infra"] = 1, !["ack"] = 1, !["remove"] = 1]
OneInfraFault == [NoFaults EXCEPT !["infra"] = 1]

\* Contacts are interchangeable.
ContactSymmetry == Permutations(Contacts)

=============================================================================
