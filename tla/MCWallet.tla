------------------------------ MODULE MCWallet ------------------------------
(* Values of the constants of Wallet for model checking. *)
EXTENDS Wallet, TLC

CONSTANTS t1, t2, d1, d2, h1, h2

OneEach == t1 :> 1
OneAndTwo == t1 :> 1 @@ t2 :> 2
NoFaults == [kind \in FaultKinds |-> 0]
OneFaultEach == [kind \in FaultKinds |-> 1]
=============================================================================
