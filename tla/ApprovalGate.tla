----------------------------- MODULE ApprovalGate -----------------------------
(***************************************************************************)
(* What an infrastructure change request promises, however it is carried   *)
(* out: the decision is taken once, an approval by someone who holds the   *)
(* role at that moment; the infrastructure starts to change only while the *)
(* request is approved, and once; a request is called applied only when it *)
(* is.                                                                     *)
(***************************************************************************)
CONSTANTS Users, Null

VARIABLES
  gate,        \* "open", "approved", "applied", "rejected" or "failed"
  approvedBy,  \* who approved, or Null
  infra,       \* "untouched", "changing", "changed" or "broken"
  privileged   \* who holds a role that may approve

vars == <<gate, approvedBy, infra, privileged>>

Init == /\ gate = "open" /\ approvedBy = Null /\ infra = "untouched"
        /\ privileged \in SUBSET Users

Approve(u) == /\ gate = "open" /\ u \in privileged
              /\ gate' = "approved" /\ approvedBy' = u
              /\ UNCHANGED <<infra, privileged>>

Reject == /\ gate = "open" /\ gate' = "rejected"
          /\ UNCHANGED <<approvedBy, infra, privileged>>

\* A request that fails loses its approval: nothing can be started any more.
Fail == /\ gate \in {"open", "approved"} /\ gate' = "failed" /\ approvedBy' = Null
        /\ UNCHANGED <<infra, privileged>>

StartChange == /\ gate = "approved" /\ infra = "untouched"
               /\ infra' = "changing"
               /\ UNCHANGED <<gate, approvedBy, privileged>>

\* A change that was started ends by itself, also when its request has failed.
EndChange == /\ infra = "changing" /\ infra' \in {"changed", "broken"}
             /\ UNCHANGED <<gate, approvedBy, privileged>>

Conclude == /\ gate = "approved" /\ infra = "changed" /\ gate' = "applied"
            /\ UNCHANGED <<approvedBy, infra, privileged>>

ChangeRoles == /\ privileged' \in SUBSET Users
               /\ UNCHANGED <<gate, approvedBy, infra>>

Next == \/ \E u \in Users : Approve(u)
        \/ Reject \/ Fail \/ StartChange \/ EndChange \/ Conclude \/ ChangeRoles

Spec == Init /\ [][Next]_vars
=============================================================================
