------------------------------ MODULE IacProofs ------------------------------
(***************************************************************************)
(* Theorems about IacWorkflow, for any users, any number of attempts and   *)
(* any number of faults.                                                   *)
(***************************************************************************)
EXTENDS IacWorkflow, TLAPS

\* The record of the workflow, as TypeOK has it.
WorkflowType == [pc : PCs, attempt : Runs, plan : Runs \cup {Null}, rejected : BOOLEAN,
                 approver : Users \cup {Null}, judged : Users \cup {Null},
                 terraform : BOOLEAN]

\* The plan is there from the moment it is stored on.
PlanKnown ==
  /\ wf.pc \in {"plan_create", "plan_poll"} => wf.plan = Null
  /\ wf.pc \in PCs \ {"plan_create", "plan_poll", "failed"} => wf.plan \in Runs

\* Nothing is touched before the approver was found valid.
UntouchedBefore ==
  wf.pc \in PCs \ (Applying \cup {"applied", "failed"}) => Touched = {}

TouchesPlan == Touched \subseteq {wf.plan}
ShowsPlan == request.plan \in {wf.plan, Null}
AppliedIsTrue == wf.pc = "applied" => run[wf.plan] = "applied"

IInv == /\ TypeOK /\ PlanKnown /\ UntouchedBefore /\ TouchesPlan /\ ShowsPlan
        /\ AppliedIsTrue

-----------------------------------------------------------------------------
\* An attempt is counted from 1, and there is at least one.
LEMMA FirstRun == 1 \in Runs
BY AttemptsAssumption DEF Runs

\* The invariant holds at the start: no run exists, so none is touched.
LEMMA InitInv == Init => IInv
<1> SUFFICES ASSUME Init PROVE IInv
  OBVIOUS
<1> USE FirstRun, AttemptsAssumption, NullAssumption DEF Init
<1>1. TypeOK
  BY DEF TypeOK, PCs, Undecided, RunStatus, Runs
<1>2. Touched = {}
  BY DEF Touched
<1>3. QED
  BY <1>1, <1>2 DEF IInv, PlanKnown, UntouchedBefore, TouchesPlan, ShowsPlan,
     AppliedIsTrue, PCs, Undecided, Applying, Closed

-----------------------------------------------------------------------------
\* A retry keeps every field but the place and the count: the place is the top of
\* the same activity, or the workflow has failed.
LEMMA RetryKeeps ==
  ASSUME TypeOK, Retry, wf.pc \in InActivity
  PROVE  /\ wf'.plan = wf.plan /\ wf'.judged = wf.judged
         /\ wf'.rejected = wf.rejected /\ wf'.approver = wf.approver
         /\ wf'.terraform = wf.terraform
         /\ wf'.attempt \in Runs
         /\ wf'.pc \in {Top(wf.pc), "failed"}
         /\ wf' = [pc |-> wf'.pc, attempt |-> wf'.attempt, plan |-> wf'.plan,
                   rejected |-> wf'.rejected, approver |-> wf'.approver,
                   judged |-> wf'.judged, terraform |-> wf'.terraform]
<1> USE DEF TypeOK, InActivity
<1>1. CASE wf.pc \in Unlimited
  <2>1. wf' = wf
    BY <1>1 DEF Retry
  <2>2. Top(wf.pc) = wf.pc
    BY <1>1 DEF Unlimited, Top, Applying
  <2> QED BY <2>1, <2>2
<1>2. CASE wf.pc \notin Unlimited /\ wf.attempt < MaxAttempts
  <2>1. wf' = [wf EXCEPT !.pc = Top(wf.pc), !.attempt = @ + 1]
    BY <1>2 DEF Retry
  <2>2. wf.attempt + 1 \in Runs
    BY <1>2, AttemptsAssumption DEF Runs
  <2> QED BY <2>1, <2>2
<1>3. CASE wf.pc \notin Unlimited /\ ~(wf.attempt < MaxAttempts)
  <2>1. wf' = [wf EXCEPT !.pc = "failed"]
    BY <1>3 DEF Retry
  <2> QED BY <2>1
<1> QED BY <1>1, <1>2, <1>3

\* Where an activity starts again.
LEMMA TopIsPlace ==
  ASSUME NEW pc \in InActivity
  PROVE  /\ Top(pc) \in InActivity
         /\ pc \in {"plan_create", "plan_poll"} <=> Top(pc) \in {"plan_create", "plan_poll"}
         /\ pc \in Applying <=> Top(pc) \in Applying
         /\ Top(pc) \notin {"plan_poll", "wait"}
         /\ pc \in {"store", "store_rejected", "validate"} => Top(pc) = pc
BY DEF InActivity, PCs, Undecided, Applying, Closed, Top

\* A failed or lost attempt, as far as the workflow alone is concerned.
LEMMA RetryStep ==
  ASSUME IInv, Retry, wf.pc \in InActivity,
         UNCHANGED <<run, request, privileged>>, faults' \in 0 .. MaxFaults
  PROVE  IInv'
<1>1. TypeOK
  BY DEF IInv
<1>2. wf'.pc \in PCs
  BY <1>1, RetryKeeps, TopIsPlace DEF InActivity, PCs, Closed
<1>3. TypeOK'
  BY <1>1, <1>2, RetryKeeps DEF TypeOK
<1>4. Touched' = Touched
  BY DEF Touched
<1>5. PlanKnown'
  BY <1>1, RetryKeeps, TopIsPlace DEF IInv, PlanKnown, InActivity, PCs, Closed
<1>6. UntouchedBefore'
  BY <1>1, <1>4, RetryKeeps, TopIsPlace DEF IInv, UntouchedBefore, InActivity, PCs, Closed
<1>7. TouchesPlan' /\ ShowsPlan'
  BY <1>1, <1>4, RetryKeeps DEF IInv, TouchesPlan, ShowsPlan
<1>8. AppliedIsTrue'
  BY <1>1, RetryKeeps, TopIsPlace DEF AppliedIsTrue, InActivity, Closed
<1> QED BY <1>3, <1>5, <1>6, <1>7, <1>8 DEF IInv

-----------------------------------------------------------------------------
(* One lemma per activity: its actions keep the invariant. *)

\* Generating the plan touches nothing and, once the run is planned, names it.
LEMMA PlanInv ==
  ASSUME IInv, CreateRun \/ NoProvider \/ PlanReady \/ PlanFails \/ StorePlan
  PROVE  IInv'
<1>0. TypeOK /\ PlanKnown /\ UntouchedBefore /\ TouchesPlan /\ ShowsPlan /\ AppliedIsTrue
  BY DEF IInv
<1> USE DEF PCs, Undecided, Applying, Closed
<1>1. CASE CreateRun
  <2>1. TypeOK' /\ wf' = [wf EXCEPT !.pc = "plan_poll"]
    BY <1>0, <1>1 DEF TypeOK, CreateRun, RunStatus
  <2>2. Touched' = {}
    BY <1>0, <1>1 DEF TypeOK, CreateRun, Touched, UntouchedBefore, Runs
  <2>3. PlanKnown' /\ ShowsPlan' /\ AppliedIsTrue'
    BY <1>0, <1>1, <2>1 DEF TypeOK, CreateRun, PlanKnown, ShowsPlan, AppliedIsTrue
  <2> QED BY <2>1, <2>2, <2>3 DEF IInv, UntouchedBefore, TouchesPlan
<1>2. CASE NoProvider
  BY <1>0, <1>2, RetryStep DEF NoProvider, InActivity, TypeOK
<1>3. CASE PlanReady
  <2>1. wf' = [wf EXCEPT !.pc = "store", !.attempt = 1, !.plan = wf.attempt]
    BY <1>3 DEF PlanReady, Proceed
  <2>2. TypeOK' /\ wf'.plan \in Runs /\ wf'.pc = "store"
    BY <1>0, <1>3, <2>1, FirstRun DEF TypeOK, PlanReady
  <2>3. Touched' = {}
    BY <1>0, <1>3 DEF TypeOK, PlanReady, Touched, UntouchedBefore
  <2>4. request'.plan = Null
    BY <1>0, <1>3 DEF PlanReady, ShowsPlan, PlanKnown
  <2> QED BY <2>2, <2>3, <2>4 DEF IInv, UntouchedBefore, TouchesPlan, ShowsPlan, PlanKnown,
             AppliedIsTrue
<1>4. CASE PlanFails
  BY <1>0, <1>4, RetryStep DEF PlanFails, InActivity, TypeOK
<1>5. CASE StorePlan
  <2>1. wf' = [wf EXCEPT !.pc = "wait", !.attempt = 1]
    BY <1>5 DEF StorePlan, Proceed
  <2>2. wf'.pc = "wait" /\ wf'.plan = wf.plan /\ wf.plan \in Runs
    BY <1>0, <1>5, <2>1 DEF TypeOK, StorePlan, PlanKnown
  <2>3. request' \in {request, [status |-> "pending", plan |-> wf.plan]}
    BY <1>5 DEF StorePlan, Patch
  <2>4. faults' \in 0 .. MaxFaults
    BY <1>0, <1>5, AttemptsAssumption DEF StorePlan, Patch, Fault, TypeOK
  <2>5. TypeOK'
    <3>1. request' \in [status : {"pending", "rejected"}, plan : Runs \cup {Null}]
      BY <1>0, <2>2, <2>3 DEF TypeOK
    <3>2. wf' \in WorkflowType
      BY <1>0, <2>1, FirstRun DEF TypeOK, WorkflowType
    <3> QED BY <1>0, <1>5, <2>4, <3>1, <3>2 DEF TypeOK, StorePlan, WorkflowType
  <2>6. Touched' = {}
    BY <1>0, <1>5 DEF StorePlan, Touched, UntouchedBefore
  <2> QED BY <1>0, <2>2, <2>3, <2>5, <2>6 DEF IInv, UntouchedBefore, TouchesPlan, ShowsPlan,
             PlanKnown, AppliedIsTrue
<1> QED BY <1>1, <1>2, <1>3, <1>4, <1>5

\* Signals, the decision and the validation move the workflow only, and not from
\* the applying phase.
LEMMA DecisionInv ==
  ASSUME IInv, \/ Decide \/ WaitTimesOut \/ StoreRejection \/ Validate \/ OnRejection
               \/ \E u \in Users : OnApproval(u)
  PROVE  IInv'
<1>0. TypeOK /\ PlanKnown /\ UntouchedBefore /\ TouchesPlan /\ ShowsPlan /\ AppliedIsTrue
  BY DEF IInv
<1> USE DEF PCs, Undecided, Applying, Closed
<1>1. CASE OnRejection \/ \E u \in Users : OnApproval(u)
  <2>1. wf'.pc = wf.pc /\ wf'.plan = wf.plan /\ wf.pc # "applied"
    BY <1>0, <1>1 DEF OnRejection, OnApproval, TypeOK
  <2>2. TypeOK'
    BY <1>0, <1>1 DEF OnRejection, OnApproval, TypeOK
  <2>3. Touched' = Touched /\ UNCHANGED <<run, request>>
    BY <1>1 DEF OnRejection, OnApproval, Touched
  <2> QED BY <1>0, <2>1, <2>2, <2>3 DEF IInv, UntouchedBefore, TouchesPlan, ShowsPlan,
             PlanKnown, AppliedIsTrue
<1>2. CASE Decide \/ WaitTimesOut \/ StoreRejection \/ Validate
  <2>1. /\ wf.pc \in {"wait", "store_rejected", "validate"}
        /\ wf'.pc \in {"store_rejected", "validate", "failed", "rejected", "apply_check"}
        /\ wf'.plan = wf.plan /\ wf.plan \in Runs
    BY <1>0, <1>2 DEF Decide, WaitTimesOut, StoreRejection, Validate, Proceed, TypeOK, PlanKnown
  <2>2. faults' \in 0 .. MaxFaults
    BY <1>0, <1>2, AttemptsAssumption
    DEF Decide, WaitTimesOut, StoreRejection, Validate, Patch, Fault, TypeOK
  <2>3. request' \in {request, [status |-> "pending", plan |-> wf.plan]}
    BY <1>2 DEF Decide, WaitTimesOut, StoreRejection, Validate, Patch
  <2>4. run' = run /\ privileged' = privileged
    BY <1>2 DEF Decide, WaitTimesOut, StoreRejection, Validate
  <2>5. wf' \in WorkflowType
    <3> USE <1>0, FirstRun DEF Proceed, TypeOK, WorkflowType
    <3>1. CASE Decide
      <4>1. \/ wf' = [wf EXCEPT !.pc = "store_rejected", !.attempt = 1]
            \/ wf' = [wf EXCEPT !.pc = "validate", !.attempt = 1, !.judged = wf.approver]
        BY <3>1 DEF Decide
      <4> QED BY <4>1
    <3>2. CASE WaitTimesOut
      BY <3>2 DEF WaitTimesOut
    <3>3. CASE StoreRejection
      BY <3>3 DEF StoreRejection
    <3>4. CASE Validate
      <4>1. \/ wf' = [wf EXCEPT !.pc = "apply_check", !.attempt = 1]
            \/ wf' = [wf EXCEPT !.pc = "failed"]
        BY <3>4 DEF Validate
      <4> QED BY <4>1
    <3> QED BY <1>2, <3>1, <3>2, <3>3, <3>4
  <2>6. TypeOK'
    <3>1. request' \in [status : {"pending", "rejected"}, plan : Runs \cup {Null}]
      BY <1>0, <2>1, <2>3 DEF TypeOK
    <3> QED BY <1>0, <2>2, <2>4, <2>5, <3>1 DEF TypeOK, WorkflowType
  <2>7. Touched' = {}
    BY <1>0, <2>1, <2>4 DEF Touched, UntouchedBefore
  <2> QED BY <1>0, <2>1, <2>3, <2>4, <2>6, <2>7 DEF IInv, UntouchedBefore, TouchesPlan, ShowsPlan,
             PlanKnown, AppliedIsTrue
<1> QED BY <1>1, <1>2

\* Applying touches the run of the plan, and calls it applied when it is.
LEMMA ApplyInv ==
  ASSUME IInv, ApplyCheck \/ ApplyPost \/ ApplyDone \/ ApplyFails
  PROVE  IInv'
<1>0. TypeOK /\ PlanKnown /\ UntouchedBefore /\ TouchesPlan /\ ShowsPlan /\ AppliedIsTrue
  BY DEF IInv
<1> USE DEF PCs, Undecided, Applying, Closed
<1>1. CASE ApplyCheck \/ ApplyDone
  <2>1. /\ wf'.pc \in {"apply_post", "applied"} /\ wf'.plan = wf.plan /\ wf.plan \in Runs
        /\ wf'.pc = "applied" => run[wf.plan] = "applied"
    BY <1>0, <1>1 DEF ApplyCheck, ApplyDone, TypeOK, PlanKnown
  <2>2. TypeOK'
    BY <1>0, <1>1 DEF ApplyCheck, ApplyDone, TypeOK
  <2>3. Touched' = Touched /\ UNCHANGED <<run, request>>
    BY <1>1 DEF ApplyCheck, ApplyDone, Touched
  <2> QED BY <1>0, <2>1, <2>2, <2>3 DEF IInv, UntouchedBefore, TouchesPlan, ShowsPlan,
             PlanKnown, AppliedIsTrue
<1>2. CASE ApplyPost
  <2>1. wf' = [wf EXCEPT !.pc = "apply_poll"] /\ wf'.pc = "apply_poll" /\ wf'.plan = wf.plan
        /\ wf.plan \in Runs /\ UNCHANGED <<request, privileged>>
    BY <1>0, <1>2 DEF ApplyPost, TypeOK, PlanKnown
  <2>2. run' \in [Runs -> RunStatus] /\ \A k \in Runs \ {wf.plan} : run'[k] = run[k]
    BY <1>0, <1>2, <2>1 DEF ApplyPost, TypeOK, RunStatus
  <2>3. faults' \in 0 .. MaxFaults
    BY <1>0, <1>2, AttemptsAssumption DEF ApplyPost, Fault, TypeOK
  <2>4. TypeOK'
    BY <1>0, <2>1, <2>2, <2>3 DEF TypeOK
  <2>5. TouchesPlan'
    BY <1>0, <2>1, <2>2 DEF TouchesPlan, Touched
  <2> QED BY <1>0, <2>1, <2>4, <2>5 DEF IInv, UntouchedBefore, ShowsPlan, PlanKnown, AppliedIsTrue
<1>3. CASE ApplyFails
  BY <1>0, <1>3, RetryStep DEF ApplyFails, InActivity, TypeOK
<1> QED BY <1>1, <1>2, <1>3

\* Terraform touches no run it was not asked to apply, and an applied run stays.
LEMMA WorldInv ==
  ASSUME IInv, \/ \E k \in Runs : TerraformMoves(k)
               \/ \E u \in Users : ChangeRole(u)
               \/ AttemptLost \/ UNCHANGED vars
  PROVE  IInv'
<1>0. TypeOK /\ PlanKnown /\ UntouchedBefore /\ TouchesPlan /\ ShowsPlan /\ AppliedIsTrue
  BY DEF IInv
<1>1. ASSUME NEW k \in Runs, TerraformMoves(k) PROVE IInv'
  <2>1. UNCHANGED <<wf, request, privileged, faults>>
    BY <1>1 DEF TerraformMoves
  <2>2. run' \in [Runs -> RunStatus] /\ Touched' = Touched
    BY <1>0, <1>1 DEF TerraformMoves, TypeOK, RunStatus, Touched
  <2>3. \A j \in Runs : run[j] = "applied" => run'[j] = "applied"
    BY <1>0, <1>1 DEF TerraformMoves, TypeOK
  <2> QED BY <1>0, <2>1, <2>2, <2>3 DEF IInv, TypeOK, PlanKnown, UntouchedBefore, TouchesPlan,
             ShowsPlan, AppliedIsTrue, PCs, Undecided, Applying, Closed
<1>2. CASE \E u \in Users : ChangeRole(u)
  BY <1>0, <1>2 DEF ChangeRole, IInv, TypeOK, PlanKnown, UntouchedBefore, TouchesPlan,
     ShowsPlan, AppliedIsTrue, Touched
<1>3. CASE AttemptLost
  <2>1. faults' \in 0 .. MaxFaults
    BY <1>0, <1>3, AttemptsAssumption DEF AttemptLost, Fault, TypeOK
  <2> QED BY <1>3, <2>1, RetryStep DEF AttemptLost
<1>4. CASE UNCHANGED vars
  BY <1>0, <1>4 DEF vars, IInv, TypeOK, PlanKnown, UntouchedBefore, TouchesPlan,
     ShowsPlan, AppliedIsTrue, Touched
<1> QED BY <1>1, <1>2, <1>3, <1>4

\* The invariant is inductive.
LEMMA NextInv == IInv /\ [Next]_vars => IInv'
<1> SUFFICES ASSUME IInv, [Next]_vars PROVE IInv'
  OBVIOUS
<1> QED BY PlanInv, DecisionInv, ApplyInv, WorldInv DEF Next, WorkflowStep

\* The invariant holds in every reachable state.
LEMMA Invariant == Spec => []IInv
<1> QED BY InitInv, NextInv, PTL DEF Spec

-----------------------------------------------------------------------------
\* Every reachable state of a request is well typed, whoever signals and whatever
\* is lost (IaCApplyWorkflow).
THEOREM TypeCorrect == Spec => []TypeOK
<1>1. IInv => TypeOK
  BY DEF IInv
<1> QED BY <1>1, Invariant, PTL

\* Once the plan has been stored the row shows it, unless something failed.
ShownUnlessFault ==
  faults = 0 /\ (wf.pc \in PCs \ {"plan_create", "plan_poll", "store", "failed"} \/ Touched # {})
    => request.plan = wf.plan

\* A step without a fault stores the plan and no other, and never unstores it.
LEMMA ShownNext == IInv /\ ShownUnlessFault /\ [Next]_vars => ShownUnlessFault'
<1> SUFFICES ASSUME IInv, ShownUnlessFault, [Next]_vars, faults' = 0 PROVE ShownUnlessFault'
  BY DEF ShownUnlessFault
<1>1. TypeOK /\ PlanKnown /\ UntouchedBefore
  BY DEF IInv
<1>2. ~Fault
  BY <1>1 DEF Fault, TypeOK
<1> USE DEF ShownUnlessFault, PCs, Undecided, Applying, Closed
<1>3. ASSUME UNCHANGED <<request, faults>>, wf'.plan = wf.plan, Touched' = Touched,
             wf.pc \in {"plan_create", "plan_poll", "store", "failed"}
               => wf'.pc \in {"plan_create", "plan_poll", "store", "failed"},
             wf.pc \in PCs
      PROVE  ShownUnlessFault'
  BY <1>3
<1>4. CASE CreateRun \/ PlanReady
  <2>1. wf'.pc \in {"plan_poll", "store"} /\ wf.pc \in {"plan_create", "plan_poll"}
    BY <1>1, <1>4 DEF CreateRun, PlanReady, Proceed, TypeOK
  <2>2. Touched' = {}
    BY <1>1, <1>4, <2>1 DEF CreateRun, PlanReady, UntouchedBefore, Touched, TypeOK
  <2> QED BY <2>1, <2>2
<1>5. CASE StorePlan
  <2>1. wf'.plan = wf.plan
    BY <1>1, <1>5 DEF StorePlan, Proceed, TypeOK
  <2>2. request'.plan = wf.plan
    BY <1>2, <1>5 DEF StorePlan, Patch
  <2> QED BY <2>1, <2>2
<1>6. CASE NoProvider \/ PlanFails \/ ApplyFails \/ AttemptLost
  <2>1. Retry /\ wf.pc \in InActivity /\ UNCHANGED <<run, request, faults>>
    BY <1>1, <1>2, <1>6 DEF NoProvider, PlanFails, ApplyFails, AttemptLost, InActivity, TypeOK
  <2>2. /\ wf'.plan = wf.plan /\ wf'.pc \in {Top(wf.pc), "failed"}
        /\ wf.pc \in {"plan_create", "plan_poll"} <=> Top(wf.pc) \in {"plan_create", "plan_poll"}
        /\ wf.pc = "store" => Top(wf.pc) = "store"
    BY <1>1, <2>1, RetryKeeps, TopIsPlace
  <2>3. Touched' = Touched
    BY <2>1 DEF Touched
  <2> QED BY <1>3, <2>1, <2>2, <2>3 DEF InActivity
<1>7. CASE Decide \/ WaitTimesOut \/ Validate \/ ApplyCheck \/ ApplyDone
  <2>1. /\ UNCHANGED <<run, request, faults>> /\ wf'.plan = wf.plan /\ wf.pc \in PCs
        /\ wf.pc \notin {"plan_create", "plan_poll", "store", "failed"}
    BY <1>1, <1>2, <1>7
    DEF Decide, WaitTimesOut, Validate, ApplyCheck, ApplyDone, Proceed, TypeOK
  <2>2. Touched' = Touched
    BY <2>1 DEF Touched
  <2> QED BY <1>3, <2>1, <2>2
<1>8. CASE StoreRejection
  <2>1. request'.plan = wf.plan /\ wf'.plan = wf.plan
    BY <1>1, <1>2, <1>8 DEF StoreRejection, Patch, TypeOK
  <2> QED BY <2>1
<1>9. CASE ApplyPost
  <2>1. /\ UNCHANGED <<request, faults>> /\ wf'.plan = wf.plan
        /\ wf.pc = "apply_post"
    BY <1>1, <1>2, <1>9 DEF ApplyPost, TypeOK
  <2> QED BY <2>1
<1>10. CASE OnRejection \/ \E u \in Users : OnApproval(u) \/ ChangeRole(u)
  <2>1. UNCHANGED <<run, request, faults>> /\ wf'.plan = wf.plan /\ wf'.pc = wf.pc /\ wf.pc \in PCs
    BY <1>1, <1>10 DEF OnRejection, OnApproval, ChangeRole, TypeOK
  <2>2. Touched' = Touched
    BY <2>1 DEF Touched
  <2> QED BY <1>3, <2>1, <2>2
<1>11. CASE \E k \in Runs : TerraformMoves(k)
  <2>1. UNCHANGED <<wf, request, faults>> /\ Touched' = Touched /\ wf.pc \in PCs
    BY <1>1, <1>11 DEF TerraformMoves, Touched, TypeOK
  <2> QED BY <1>3, <2>1
<1>12. CASE UNCHANGED vars
  <2>1. UNCHANGED <<wf, run, request, faults>> /\ wf.pc \in PCs
    BY <1>1, <1>12 DEF vars, TypeOK
  <2>2. Touched' = Touched
    BY <2>1 DEF Touched
  <2> QED BY <1>3, <2>1, <2>2
<1> QED BY <1>4, <1>5, <1>6, <1>7, <1>8, <1>9, <1>10, <1>11, <1>12 DEF Next, WorkflowStep

\* A request applies the run of the plan its workflow holds and no other
\* (apply_iac_plan), however many runs the attempts of generate_iac_plan left
\* behind; the row shows that plan, or none when a step of the request failed.
THEOREM OnlyItsPlanAppliedHolds == Spec => []OnlyItsPlanApplied
<1>1. Init => ShownUnlessFault
  <2> SUFFICES ASSUME Init PROVE wf.pc = "plan_create" /\ Touched = {}
    BY DEF ShownUnlessFault
  <2> QED BY FirstRun DEF Init, Touched
<1>2. IInv /\ ShownUnlessFault => OnlyItsPlanApplied
  BY DEF IInv, TouchesPlan, ShowsPlan, OnlyItsPlanApplied, ShownUnlessFault
<1> QED BY <1>1, <1>2, ShownNext, Invariant, PTL DEF Spec

-----------------------------------------------------------------------------
(* The refinement.  A step of the workflow is a step of the gate, or none;   *)
(* what it is depends on the place before and after, and on the plan's run.  *)

\* What the gate shows at each place, and what of the infrastructure when the plan
\* is known: as formulas, to be used of the state before and after a step.
PlaceShown ==
  wf.pc \in PCs =>
    /\ wf.pc \in Undecided \cup {"validate"} => GateOf = "open" /\ ApprovedBy = Null
    /\ wf.pc \in {"store_rejected", "rejected"} => GateOf = "rejected" /\ ApprovedBy = Null
    /\ wf.pc \in Applying => GateOf = "approved" /\ ApprovedBy = wf.judged
    /\ wf.pc = "applied" => GateOf = "applied" /\ ApprovedBy = wf.judged
    /\ wf.pc = "failed" => GateOf = "failed" /\ ApprovedBy = Null

InfraShown ==
  TypeOK /\ TouchesPlan /\ wf.plan \in Runs =>
    /\ run[wf.plan] = "applying" <=> Infra = "changing"
    /\ run[wf.plan] = "applied" <=> Infra = "changed"
    /\ run[wf.plan] = "apply_errored" <=> Infra = "broken"
    /\ wf.plan \notin Touched <=> Infra = "untouched"

\* The places partition into what the gate tells apart.
LEMMA GateOfPlace == PlaceShown
BY DEF PlaceShown, GateOf, ApprovedBy, PCs, Undecided, Applying, Closed

\* The plan's run alone says what is changing, for no other is touched.
LEMMA InfraOfPlan == InfraShown
<1> SUFFICES ASSUME TypeOK, TouchesPlan, wf.plan \in Runs
             PROVE  /\ run[wf.plan] = "applying" <=> Infra = "changing"
                    /\ run[wf.plan] = "applied" <=> Infra = "changed"
                    /\ run[wf.plan] = "apply_errored" <=> Infra = "broken"
                    /\ wf.plan \notin Touched <=> Infra = "untouched"
  BY DEF InfraShown
<1>1. \A k \in Runs \ {wf.plan} : run[k] \notin {"applying", "applied", "apply_errored"}
  BY DEF TouchesPlan, Touched
<1>2. Touched = IF run[wf.plan] \in {"applying", "applied", "apply_errored"}
                THEN {wf.plan} ELSE {}
  BY <1>1 DEF Touched
<1> QED BY <1>1, <1>2 DEF Infra, Touched

\* Nothing is changing as long as no run is touched.
LEMMA InfraUntouched ==
  ASSUME Touched = {} PROVE Infra = "untouched"
BY DEF Touched, Infra

\* What is done to no run changes nothing.
LEMMA InfraSame ==
  ASSUME run' = run PROVE Infra' = Infra
BY DEF Infra, Touched

\* The request starts open and untouched.
LEMMA GateInit == Init => Gate!Init
<1> SUFFICES ASSUME Init PROVE Gate!Init
  OBVIOUS
<1>1. wf.pc = "plan_create" /\ privileged \in SUBSET Users
  BY DEF Init
<1>2. Infra = "untouched"
  BY InfraUntouched DEF Init, Touched
<1>3. GateOf = "open" /\ ApprovedBy = Null
  BY <1>1, GateOfPlace DEF PlaceShown, PCs, Undecided
<1> QED BY <1>1, <1>2, <1>3 DEF Gate!Init

GateStays == UNCHANGED <<GateOf, ApprovedBy, Infra, privileged>>
GateStep == Gate!Next \/ GateStays

\* A failed attempt is no step of the gate, or its failure.
LEMMA RetryIsGateStep ==
  ASSUME IInv, IInv', Retry, wf.pc \in InActivity, UNCHANGED <<run, privileged>>
  PROVE  GateStep
<1>0. TypeOK /\ wf.pc \in PCs /\ wf'.pc \in PCs
  BY DEF IInv, TypeOK
<1>1. PlaceShown /\ PlaceShown'
  BY GateOfPlace, PTL
<1>2. Infra' = Infra
  BY InfraSame
<1>3. wf'.judged = wf.judged /\ wf'.pc \in {Top(wf.pc), "failed"}
  BY <1>0, RetryKeeps
<1>4. CASE wf'.pc = "failed" /\ wf.pc # "store_rejected"
  <2>1. GateOf \in {"open", "approved"} /\ GateOf' = "failed" /\ ApprovedBy' = Null
    BY <1>0, <1>1, <1>4 DEF PlaceShown, InActivity, PCs, Undecided, Applying, Closed
  <2> QED BY <2>1, <1>2 DEF GateStep, Gate!Next, Gate!Fail
<1>5. CASE wf.pc = "store_rejected"
  <2>1. wf' = wf
    BY <1>5 DEF Retry, Unlimited
  <2> QED BY <2>1, <1>2 DEF GateStep, GateStays, GateOf, ApprovedBy
<1>6. CASE wf'.pc = Top(wf.pc)
  <2>1. CASE wf.pc \in Undecided \cup {"validate"}
    <3>1. wf'.pc \in Undecided \cup {"validate"}
      BY <1>6, <2>1 DEF Top, Undecided, Applying
    <3>2. GateOf' = GateOf /\ ApprovedBy' = ApprovedBy
      BY <1>0, <1>1, <2>1, <3>1 DEF PlaceShown
    <3> QED BY <1>2, <3>2 DEF GateStep, GateStays
  <2>2. CASE wf.pc \in Applying
    <3>1. wf'.pc \in Applying
      BY <1>6, <2>2 DEF Top, Applying
    <3>2. GateOf' = GateOf /\ ApprovedBy' = ApprovedBy
      BY <1>0, <1>1, <1>3, <2>2, <3>1 DEF PlaceShown
    <3> QED BY <1>2, <3>2 DEF GateStep, GateStays
  <2> QED BY <1>5, <2>1, <2>2 DEF InActivity, PCs, Closed
<1> QED BY <1>3, <1>4, <1>5, <1>6

\* Planning, storing and signalling leave the gate as it is.
LEMMA PlanIsGateStep ==
  ASSUME IInv, IInv', \/ CreateRun \/ PlanReady \/ StorePlan \/ StoreRejection
                      \/ OnRejection \/ \E u \in Users : OnApproval(u)
  PROVE  GateStep
<1>0. TypeOK /\ wf.pc \in PCs /\ wf'.pc \in PCs /\ UntouchedBefore /\ UntouchedBefore'
  BY DEF IInv, TypeOK
<1>1. PlaceShown /\ PlaceShown'
  BY GateOfPlace, PTL
<1>2. CASE CreateRun \/ PlanReady \/ StorePlan \/ StoreRejection
  <2>1. \/ wf.pc \in Undecided /\ wf'.pc \in Undecided
        \/ wf.pc = "store_rejected" /\ wf'.pc = "rejected"
    BY <1>0, <1>2 DEF CreateRun, PlanReady, StorePlan, StoreRejection, Proceed, TypeOK, Undecided
  <2>2. Touched = {} /\ Touched' = {}
    BY <1>0, <2>1 DEF UntouchedBefore, Undecided, Applying
  <2>3. Infra' = Infra
    BY <2>2 DEF Infra, Touched
  <2>4. privileged' = privileged
    BY <1>2 DEF CreateRun, PlanReady, StorePlan, StoreRejection
  <2>5. GateOf' = GateOf /\ ApprovedBy' = ApprovedBy
    BY <1>0, <1>1, <2>1 DEF PlaceShown
  <2> QED BY <2>3, <2>4, <2>5 DEF GateStep, GateStays
<1>3. CASE OnRejection \/ \E u \in Users : OnApproval(u)
  <2>1. wf'.pc = wf.pc /\ wf'.judged = wf.judged /\ UNCHANGED <<run, privileged>>
    BY <1>0, <1>3 DEF OnRejection, OnApproval, TypeOK
  <2>2. Infra' = Infra
    BY <2>1, InfraSame
  <2> QED BY <2>1, <2>2 DEF GateStep, GateStays, GateOf, ApprovedBy
<1> QED BY <1>2, <1>3

\* The decision, the time-out and the validation open or close the gate.
LEMMA DecisionIsGateStep ==
  ASSUME IInv, IInv', Decide \/ WaitTimesOut \/ Validate
  PROVE  GateStep
<1>0. TypeOK /\ wf.pc \in PCs /\ wf'.pc \in PCs
  BY DEF IInv, TypeOK
<1>1. PlaceShown /\ PlaceShown'
  BY GateOfPlace, PTL
<1>2. UNCHANGED <<run, privileged>> /\ wf.pc \in Undecided \cup {"validate"}
  BY DEF Decide, WaitTimesOut, Validate, Undecided
<1>3. Infra' = Infra /\ GateOf = "open" /\ ApprovedBy = Null
  BY <1>0, <1>1, <1>2, InfraSame DEF PlaceShown
<1>4. \/ wf'.pc = "validate"
      \/ wf'.pc = "store_rejected"
      \/ wf'.pc = "failed"
      \/ wf'.pc = "apply_check" /\ wf'.judged = wf.judged /\ wf.judged \in privileged
  BY <1>0 DEF Decide, WaitTimesOut, Validate, Proceed, TypeOK
<1>5. CASE wf'.pc = "validate"
  BY <1>0, <1>1, <1>2, <1>3, <1>5 DEF PlaceShown, GateStep, GateStays
<1>6. CASE wf'.pc = "store_rejected"
  BY <1>0, <1>1, <1>2, <1>3, <1>6 DEF PlaceShown, GateStep, Gate!Next, Gate!Reject
<1>7. CASE wf'.pc = "failed"
  BY <1>0, <1>1, <1>2, <1>3, <1>7 DEF PlaceShown, GateStep, Gate!Next, Gate!Fail
<1>8. CASE wf'.pc = "apply_check" /\ wf'.judged = wf.judged /\ wf.judged \in privileged
  <2>1. wf.judged \in Users
    BY <1>0, <1>8 DEF TypeOK
  <2>2. GateOf' = "approved" /\ ApprovedBy' = wf.judged
    BY <1>0, <1>1, <1>8 DEF PlaceShown, Applying
  <2>3. Gate!Approve(wf.judged)
    BY <1>2, <1>3, <1>8, <2>2 DEF Gate!Approve
  <2> QED BY <2>1, <2>3 DEF GateStep, Gate!Next
<1> QED BY <1>4, <1>5, <1>6, <1>7, <1>8

\* The apply starts the change while the gate is open for it, and concludes on it.
LEMMA ApplyIsGateStep ==
  ASSUME IInv, IInv', ApplyCheck \/ ApplyPost \/ ApplyDone
  PROVE  GateStep
<1>0. /\ TypeOK /\ TypeOK' /\ TouchesPlan /\ TouchesPlan'
      /\ wf.pc \in PCs /\ wf'.pc \in PCs /\ wf.plan \in Runs
  BY DEF IInv, TypeOK, PlanKnown, ApplyCheck, ApplyPost, ApplyDone, PCs, Applying
<1>1. PlaceShown /\ PlaceShown' /\ InfraShown /\ InfraShown'
  BY GateOfPlace, InfraOfPlan, PTL
<1>2. /\ wf.pc \in Applying /\ wf'.plan = wf.plan /\ wf'.judged = wf.judged
      /\ wf'.pc \in Applying \cup {"applied"} /\ privileged' = privileged
  BY <1>0 DEF ApplyCheck, ApplyPost, ApplyDone, TypeOK, Applying
<1>3. GateOf = "approved" /\ ApprovedBy = wf.judged /\ ApprovedBy' = wf.judged
  BY <1>0, <1>1, <1>2 DEF PlaceShown
<1>4. CASE wf'.pc = "applied"
  <2>1. run[wf.plan] = "applied" /\ run' = run
    BY <1>0, <1>4 DEF ApplyCheck, ApplyPost, ApplyDone, TypeOK
  <2>2. Infra = "changed" /\ Infra' = Infra /\ GateOf' = "applied"
    BY <1>0, <1>1, <1>4, <2>1, InfraSame DEF InfraShown, PlaceShown
  <2> QED BY <1>2, <1>3, <2>2 DEF GateStep, Gate!Next, Gate!Conclude
<1>5. CASE wf'.pc \in Applying /\ run' = run
  <2>1. GateOf' = "approved" /\ Infra' = Infra
    BY <1>0, <1>1, <1>5, InfraSame DEF PlaceShown
  <2> QED BY <1>2, <1>3, <2>1 DEF GateStep, GateStays
<1>6. CASE wf'.pc \in Applying /\ run' # run
  <2>1. run[wf.plan] = "planned" /\ run'[wf.plan] = "applying"
    BY <1>0, <1>6 DEF ApplyCheck, ApplyPost, ApplyDone, TypeOK
  <2>2. Infra = "untouched"
    BY <1>0, <1>1, <2>1 DEF InfraShown, Touched
  <2>3. Infra' = "changing" /\ GateOf' = "approved"
    BY <1>0, <1>1, <1>2, <1>6, <2>1 DEF InfraShown, PlaceShown
  <2> QED BY <1>2, <1>3, <2>2, <2>3 DEF GateStep, Gate!Next, Gate!StartChange
<1> QED BY <1>2, <1>4, <1>5, <1>6

\* Terraform ends a change that was started, and roles change at any time.
LEMMA WorldIsGateStep ==
  ASSUME IInv, IInv', \/ \E k \in Runs : TerraformMoves(k)
                      \/ \E u \in Users : ChangeRole(u)
                      \/ UNCHANGED vars
  PROVE  GateStep
<1>1. ASSUME NEW k \in Runs, TerraformMoves(k) PROVE GateStep
  <2>1. UNCHANGED <<wf, privileged>>
    BY <1>1 DEF TerraformMoves
  <2>2. GateOf' = GateOf /\ ApprovedBy' = ApprovedBy
    BY <2>1 DEF GateOf, ApprovedBy
  <2>3. CASE run[k] = "applying"
    <3>1. wf.plan = k /\ wf'.plan = k
      BY <2>1, <2>3 DEF IInv, TouchesPlan, Touched
    <3>2. run'[k] \in {"applied", "apply_errored"}
      BY <1>1, <2>3 DEF TerraformMoves, IInv, TypeOK
    <3>3. InfraShown /\ InfraShown'
      BY InfraOfPlan, PTL
    <3>4. Infra = "changing" /\ Infra' \in {"changed", "broken"}
      BY <2>3, <3>1, <3>2, <3>3 DEF InfraShown, IInv
    <3> QED BY <2>1, <2>2, <3>4 DEF GateStep, Gate!Next, Gate!EndChange
  <2>4. CASE run[k] # "applying"
    <3>1. \A j \in Runs, s \in {"applying", "applied", "apply_errored"} :
            run'[j] = s <=> run[j] = s
      BY <1>1, <2>4 DEF TerraformMoves, IInv, TypeOK
    <3>2. Infra' = Infra
      BY <3>1 DEF Infra, Touched
    <3> QED BY <2>1, <2>2, <3>2 DEF GateStep, GateStays
  <2> QED BY <2>3, <2>4
<1>2. CASE \E u \in Users : ChangeRole(u)
  <2>1. UNCHANGED <<wf, run>> /\ privileged' \in SUBSET Users
    BY <1>2 DEF ChangeRole, IInv, TypeOK
  <2>2. Infra' = Infra
    BY <2>1, InfraSame
  <2>3. GateOf' = GateOf /\ ApprovedBy' = ApprovedBy
    BY <2>1 DEF GateOf, ApprovedBy
  <2> QED BY <2>1, <2>2, <2>3 DEF GateStep, Gate!Next, Gate!ChangeRoles
<1>3. CASE UNCHANGED vars
  BY <1>3, InfraSame DEF vars, GateStep, GateStays, GateOf, ApprovedBy
<1> QED BY <1>1, <1>2, <1>3

\* Every step of the workflow is one of the gate's, or none.
LEMMA NextIsGateStep == IInv /\ IInv' /\ [Next]_vars => GateStep
<1> SUFFICES ASSUME IInv, IInv', [Next]_vars PROVE GateStep
  OBVIOUS
<1>1. CASE NoProvider \/ PlanFails \/ ApplyFails \/ AttemptLost
  <2>1. Retry /\ wf.pc \in InActivity /\ UNCHANGED <<run, privileged>>
    BY <1>1 DEF NoProvider, PlanFails, ApplyFails, AttemptLost, InActivity, PCs, Undecided,
       Applying, Closed
  <2> QED BY <2>1, RetryIsGateStep
<1> QED BY <1>1, PlanIsGateStep, DecisionIsGateStep, ApplyIsGateStep, WorldIsGateStep
        DEF Next, WorkflowStep

\* The workflow implements the approval gate (IaCApplyWorkflow.run): decided once,
\* by somebody with the role, changed once and while approved, applied when it says.
THEOREM GateKeptHolds == Spec => GateKept
<1>1. IInv /\ IInv' /\ [Next]_vars => [Gate!Next]_(Gate!vars)
  BY NextIsGateStep DEF GateStep, GateStays, Gate!vars
<1> QED BY <1>1, GateInit, Invariant, PTL DEF Spec, GateKept, Gate!Spec
=============================================================================
