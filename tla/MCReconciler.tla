---------------------------- MODULE MCReconciler ----------------------------
(* Two services and two calls, over each number of services there at the     *)
(* start: two registrations of a name, two updates, an update or a deletion  *)
(* against a registration or a pass, and a dependency with either end        *)
(* deleted all fit.                                                          *)
EXTENDS Reconciler

CONSTANTS n1, n2

MCHealth == {"unknown", "degraded"}
MCSeeds == {{}, {n1}, {n1, n2}}
=============================================================================
