----------------------------- MODULE MCEnforcer -----------------------------
(* One service, two overlapping deploys and two alert groups (burn rate and  *)
(* exhausted budget): the smallest instance in which deploys overlap each    *)
(* other, freezes race each other, and both race.                            *)
EXTENDS Enforcer

MCTime == {1}

MCInputs == {StubInput}
=============================================================================
