-------------------------------- MODULE MCDora --------------------------------
(* One service with two deploys, and as many tasks as it takes for an older *)
(* result to be stored after a newer one.                                   *)
EXTENDS Dora

CONSTANTS s1, d1, d2, t1, t2

MCOwner == [d \in Deploys |-> s1]
=============================================================================
