-------------------------- MODULE MCScaffoldWorkflow --------------------------
(* Two scaffolds of one name, two attempts of each activity, and as many     *)
(* faults as it takes for a late call to meet a retry.                       *)
EXTENDS ScaffoldWorkflow

CONSTANTS s1, s2
=============================================================================
