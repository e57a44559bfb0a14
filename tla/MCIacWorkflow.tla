---------------------------- MODULE MCIacWorkflow ----------------------------
(* Two users, so that one approves who may not, or after another; two        *)
(* attempts of each activity, so that a lost one leaves its run behind; and  *)
(* two faults, so that a lost attempt can meet an error nobody looks at.     *)
EXTENDS IacWorkflow

CONSTANTS u1, u2
=============================================================================
