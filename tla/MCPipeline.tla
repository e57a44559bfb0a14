------------------------------ MODULE MCPipeline ------------------------------
(* Two services, polled one after the other; either may have runs, which end  *)
(* and are run again.  A window of seven requests, the last five the buffer:  *)
(* as many as the poller can make there with two faults, and two before them. *)
EXTENDS Pipeline

MCServices == {1, 2}
=============================================================================
