----------------------------- MODULE IacWorkflow -----------------------------
(***************************************************************************)
(* One execution of IaCApplyWorkflow: its activities, which Temporal runs  *)
(* at least once, the signals of the portal, which come at any time, and   *)
(* the Terraform runs, which go on by themselves.  An action is an         *)
(* activity's code between two calls, or the workflow's between two        *)
(* awaits.  The writing calls of an attempt end or time out well before    *)
(* the attempt does, so that a lost attempt does nothing later.            *)
(***************************************************************************)
EXTENDS Naturals

CONSTANTS
  Users,
  MaxAttempts,   \* maximum_attempts of the retry policy
  MaxFaults,     \* bound: attempts that are lost and answers that are errors
  Null

ASSUME AttemptsAssumption == MaxAttempts \in Nat \ {0} /\ MaxFaults \in Nat
ASSUME NullAssumption == Null \notin Users /\ Null \notin Nat

VARIABLES
  wf,           \* the workflow: where it is, and the fields it keeps
  run,          \* the Terraform run each attempt of generate_iac_plan created
  request,      \* the iac_requests row: its status and the plan it shows
  privileged,   \* external: the members of the team whose role may approve
  faults

vars == <<wf, run, request, privileged, faults>>

Runs == 1 .. MaxAttempts
RunStatus == {"none", "planning", "planned", "plan_errored", "discarded",
              "applying", "applied", "apply_errored"}

Undecided == {"plan_create", "plan_poll", "store", "wait"}
Applying == {"apply_check", "apply_post", "apply_poll"}
Closed == {"applied", "rejected", "failed"}
PCs == Undecided \cup {"store_rejected", "validate"} \cup Applying \cup Closed

TypeOK ==
  /\ wf \in [pc : PCs, attempt : Runs, plan : Runs \cup {Null}, rejected : BOOLEAN,
             approver : Users \cup {Null}, judged : Users \cup {Null},
             terraform : BOOLEAN]
  /\ run \in [Runs -> RunStatus]
  /\ request \in [status : {"pending", "rejected"}, plan : Runs \cup {Null}]
  /\ privileged \in SUBSET Users
  /\ faults \in 0 .. MaxFaults

\* approver # Null stands for _approved; judged is the argument of the validation.
Init ==
  /\ \E t \in BOOLEAN :
       wf = [pc |-> "plan_create", attempt |-> 1, plan |-> Null, rejected |-> FALSE,
             approver |-> Null, judged |-> Null, terraform |-> t]
  /\ run = [k \in Runs |-> "none"]
  /\ request = [status |-> "pending", plan |-> Null]
  /\ privileged \in SUBSET Users
  /\ faults = 0

-----------------------------------------------------------------------------
(* Retries.  An attempt that fails starts the activity again from its top,  *)
(* up to the policy's number of attempts; the two activities without a      *)
(* policy have Temporal's default, which is no limit.                       *)

Top(pc) == CASE pc = "plan_poll" -> "plan_create"
             [] pc \in Applying  -> "apply_check"
             [] OTHER            -> pc

Unlimited == {"store_rejected", "validate"}
InActivity == PCs \ (Closed \cup {"wait"})

\* A plausible slip: one attempt too many.
RetryOnceMore ==
  IF wf.pc \in Unlimited THEN UNCHANGED wf
  ELSE IF wf.attempt <= MaxAttempts
       THEN wf' = [wf EXCEPT !.pc = Top(wf.pc), !.attempt = @ + 1]
       ELSE wf' = [wf EXCEPT !.pc = "failed"]

Retry ==
  IF wf.pc \in Unlimited THEN UNCHANGED wf
  ELSE IF wf.attempt < MaxAttempts
       THEN wf' = [wf EXCEPT !.pc = Top(wf.pc), !.attempt = @ + 1]
       ELSE wf' = [wf EXCEPT !.pc = "failed"]

Fault == faults < MaxFaults /\ faults' = faults + 1

\* The next activity, from its first attempt.
Proceed(pc) == [wf EXCEPT !.pc = pc, !.attempt = 1]

\* The worker dies, or a call raises: what the attempt did so far stays done.
AttemptLost ==
  /\ wf.pc \in InActivity
  /\ Fault /\ Retry
  /\ UNCHANGED <<run, request, privileged>>

-----------------------------------------------------------------------------
(* generate_iac_plan *)

CreateRun ==
  /\ wf.pc = "plan_create" /\ wf.terraform
  /\ run' = [run EXCEPT ![wf.attempt] = "planning"]
  /\ wf' = [wf EXCEPT !.pc = "plan_poll"]
  /\ UNCHANGED <<request, privileged, faults>>

\* Any other provider falls through to the time-out error.
NoProvider ==
  /\ wf.pc = "plan_create" /\ ~wf.terraform
  /\ Retry
  /\ UNCHANGED <<run, request, privileged, faults>>

PlanReady ==
  /\ wf.pc = "plan_poll" /\ run[wf.attempt] = "planned"
  /\ wf' = [Proceed("store") EXCEPT !.plan = wf.attempt]
  /\ UNCHANGED <<run, request, privileged, faults>>

\* The run errored or was discarded, or the polls run out while it is planning.
PlanFails ==
  /\ wf.pc = "plan_poll" /\ run[wf.attempt] # "planned"
  /\ Retry
  /\ UNCHANGED <<run, request, privileged, faults>>

(* store_iac_plan_output: the status it writes is always "pending", and the *)
(* answer is not looked at, so that an error of the catalog goes unnoticed. *)
Patch == \/ request' = [status |-> "pending", plan |-> wf.plan] /\ UNCHANGED faults
         \/ Fault /\ UNCHANGED request

StorePlan ==
  /\ wf.pc = "store"
  /\ Patch
  /\ wf' = Proceed("wait")
  /\ UNCHANGED <<run, privileged>>

-----------------------------------------------------------------------------
(* The signals, the wait and the decision. *)

OnApproval(u) ==
  /\ wf.pc \notin Closed
  /\ wf' = [wf EXCEPT !.approver = u]
  /\ UNCHANGED <<run, request, privileged, faults>>

OnRejection ==
  /\ wf.pc \notin Closed
  /\ wf' = [wf EXCEPT !.rejected = TRUE]
  /\ UNCHANGED <<run, request, privileged, faults>>

\* A plausible slip: the approval is looked at first.
DecideApprovalFirst ==
  /\ wf.pc = "wait" /\ (wf.rejected \/ wf.approver # Null)
  /\ wf' = IF wf.approver = Null THEN Proceed("store_rejected")
           ELSE [Proceed("validate") EXCEPT !.judged = wf.approver]
  /\ UNCHANGED <<run, request, privileged, faults>>

Decide ==
  /\ wf.pc = "wait" /\ (wf.rejected \/ wf.approver # Null)
  /\ wf' = IF wf.rejected THEN Proceed("store_rejected")
           ELSE [Proceed("validate") EXCEPT !.judged = wf.approver]
  /\ UNCHANGED <<run, request, privileged, faults>>

\* A plausible slip: "No timeout by default", as a comment there says.
WaitForEver == FALSE

\* wait_condition raises after seven days, and the workflow fails.
WaitTimesOut ==
  /\ wf.pc = "wait" /\ ~wf.rejected /\ wf.approver = Null
  /\ wf' = [wf EXCEPT !.pc = "failed"]
  /\ UNCHANGED <<run, request, privileged, faults>>

StoreRejection ==
  /\ wf.pc = "store_rejected"
  /\ Patch
  /\ wf' = [wf EXCEPT !.pc = "rejected"]
  /\ UNCHANGED <<run, privileged>>

\* A plausible slip: the role looked at is that of whoever approved last.
ValidateLatest ==
  /\ wf.pc = "validate"
  /\ wf' = IF wf.approver \in privileged THEN Proceed("apply_check")
           ELSE [wf EXCEPT !.pc = "failed"]
  /\ UNCHANGED <<run, request, privileged, faults>>

\* validate_iac_approver: an answer other than 200 is a no, and a no is final.
Validate ==
  /\ wf.pc = "validate"
  /\ \/ wf' = (IF wf.judged \in privileged THEN Proceed("apply_check")
               ELSE [wf EXCEPT !.pc = "failed"]) /\ UNCHANGED faults
     \/ wf' = [wf EXCEPT !.pc = "failed"] /\ Fault
  /\ UNCHANGED <<run, request, privileged>>

-----------------------------------------------------------------------------
(* apply_iac_plan *)

ApplyCheck ==
  /\ wf.pc = "apply_check"
  /\ wf' = [wf EXCEPT !.pc = IF run[wf.plan] = "applied" THEN "applied" ELSE "apply_post"]
  /\ UNCHANGED <<run, request, privileged, faults>>

\* A plausible slip: whatever run of the workspace waits is applied.
ApplyPostAnyRun ==
  /\ wf.pc = "apply_post"
  /\ \E k \in Runs : run' = [run EXCEPT ![k] = IF @ = "planned" THEN "applying" ELSE @]
  /\ wf' = [wf EXCEPT !.pc = "apply_poll"]
  /\ UNCHANGED <<request, privileged, faults>>

\* The answer is not looked at: a run that is not waiting for it stays as it is.
ApplyPost ==
  /\ wf.pc = "apply_post"
  /\ \/ /\ run' = [run EXCEPT ![wf.plan] = IF @ = "planned" THEN "applying" ELSE @]
        /\ UNCHANGED faults
     \/ Fault /\ UNCHANGED run
  /\ wf' = [wf EXCEPT !.pc = "apply_poll"]
  /\ UNCHANGED <<request, privileged>>

ApplyDone ==
  /\ wf.pc = "apply_poll" /\ run[wf.plan] = "applied"
  /\ wf' = [wf EXCEPT !.pc = "applied"]
  /\ UNCHANGED <<run, request, privileged, faults>>

\* The run errored, or the polls run out while it is in any other status.
ApplyFails ==
  /\ wf.pc = "apply_poll" /\ run[wf.plan] # "applied"
  /\ Retry
  /\ UNCHANGED <<run, request, privileged, faults>>

-----------------------------------------------------------------------------
(* External: Terraform Cloud works on its runs and lets people discard one, *)
(* and the roles of a team's members change.                                *)

TerraformMoves(k) ==
  /\ \/ /\ run[k] = "planning"
        /\ \E s \in {"planned", "plan_errored"} : run' = [run EXCEPT ![k] = s]
     \/ /\ run[k] = "planned" /\ run' = [run EXCEPT ![k] = "discarded"]
     \/ /\ run[k] = "applying"
        /\ \E s \in {"applied", "apply_errored"} : run' = [run EXCEPT ![k] = s]
  /\ UNCHANGED <<wf, request, privileged, faults>>

ChangeRole(u) ==
  /\ privileged' \in {privileged \cup {u}, privileged \ {u}}
  /\ UNCHANGED <<wf, run, request, faults>>

WorkflowStep ==
  \/ CreateRun \/ NoProvider \/ PlanReady \/ PlanFails \/ StorePlan
  \/ Decide \/ WaitTimesOut \/ StoreRejection \/ Validate
  \/ ApplyCheck \/ ApplyPost \/ ApplyDone \/ ApplyFails

Next ==
  \/ WorkflowStep \/ AttemptLost \/ OnRejection
  \/ \E u \in Users : OnApproval(u) \/ ChangeRole(u)
  \/ \E k \in Runs : TerraformMoves(k)

\* An attempt goes on or is declared lost, and a timer fires.  Nothing is
\* assumed of Terraform (polls run out) or of people (the wait does too).
Spec == Init /\ [][Next]_vars /\ WF_vars(WorkflowStep)

-----------------------------------------------------------------------------
(* Properties *)

Touched == {k \in Runs : run[k] \in {"applying", "applied", "apply_errored"}}

\* A request applies one run at most, that of the plan its workflow holds, whatever
\* other runs lost attempts have left planned.  The row shows that plan or none:
\* none only after an error, for the answer of the PATCH is not looked at.  As long
\* as nothing failed, what is applied is what the approver could read.
OnlyItsPlanApplied ==
  /\ Touched \subseteq {wf.plan}
  /\ request.plan \in {wf.plan, Null}
  /\ Touched # {} /\ faults = 0 => request.plan = wf.plan

\* A rejection that arrives before the decision, be it while the plan is still
\* being generated or beside an approval, is never overridden.
EarlyRejectionHolds ==
  wf.rejected /\ wf.pc \in Undecided ~> wf.pc \in {"rejected", "failed"}

\* Every request ends, with no help from Terraform or from the people asked.
EveryRequestEnds == <>(wf.pc \in Closed)

\* The request as its users see it.
GateOf == CASE wf.pc \in Undecided \cup {"validate"} -> "open"
            [] wf.pc = "store_rejected" -> "rejected"
            [] wf.pc \in Applying -> "approved"
            [] OTHER -> wf.pc
ApprovedBy == IF wf.pc \in Applying \cup {"applied"} THEN wf.judged ELSE Null
Infra == IF \E k \in Runs : run[k] = "applying" THEN "changing"
         ELSE IF \E k \in Runs : run[k] = "applied" THEN "changed"
         ELSE IF Touched # {} THEN "broken" ELSE "untouched"

Gate == INSTANCE ApprovalGate WITH gate <- GateOf, approvedBy <- ApprovedBy, infra <- Infra

\* The workflow keeps the promises of ApprovalGate: nothing starts to change but
\* under the approval of somebody who held the role when it was checked, nothing
\* of a request that was rejected or has failed, and "applied" is the truth.
GateKept == Gate!Spec

\* The contract has a status for it (init.sql, openapi.yaml): the row of a
\* request that was rejected says so, at least when nothing fails.
RejectionIsStored ==
  wf.pc = "rejected" /\ faults = 0 => request.status = "rejected"
=============================================================================
