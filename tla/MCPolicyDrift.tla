---------------------------- MODULE MCPolicyDrift ----------------------------
(* Two timestamps give every order of runbook update and deploy; the counts  *)
(* 0, 3 and 4 are the two sides of every threshold in the policy.            *)
EXTENDS PolicyDrift

MCTime == {1, 2}
MCCounts == {0, 3, 4}
=============================================================================
