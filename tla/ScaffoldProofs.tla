---------------------------- MODULE ScaffoldProofs ----------------------------
(***************************************************************************)
(* Theorems about ScaffoldWorkflow, for any number of executions, attempts *)
(* and faults.                                                             *)
(***************************************************************************)
EXTENDS ScaffoldWorkflow, TLAPS

WfType == [pc : Steps \cup {"gather"} \cup Closed, attempt : 1 .. MaxAttempts,
           dir : {"fresh", "touched"}, late : {"none", "due", "landed"}]
TaskType == [pc : TaskPCs, attempt : 1 .. MaxAttempts]

\* The repository as an execution that got past the protection leaves it.
Owned(w) == repo = [state |-> "pushed", by |-> w, protected |-> TRUE]

\* What a task at some point has made, or found.
Earned(t, x) ==
  /\ t = "k8s" /\ x.pc \in {"quota", "limits", "done"} => "namespace" \in k8s
  /\ t = "k8s" /\ x.pc \in {"limits", "done"} => "quota" \in k8s
  /\ t = "k8s" /\ x.pc = "done" => "limits" \in k8s
  /\ t = "vault" /\ x.pc = "done" => vault # "none"
  /\ t = "catalog" /\ x.pc = "done" => row.state # "free"

\* What an execution k with its tasks ts has left outside.
Fits(w, k, ts) ==
  /\ k.pc = "protect" => repo.state = "pushed" /\ repo.by = w
  /\ k.pc \in {"gather", "completed"} => Owned(w)
  /\ \A t \in Tasks : (ts[t].pc # "off" => Owned(w)) /\ Earned(t, ts[t])
  /\ k.pc = "completed" => \A t \in Tasks : ts[t].pc = "done"

IInv == /\ TypeOK /\ RegisteredOwnsRepo
        /\ \A w \in Scaffolds : Fits(w, wf[w], tasks[w])

OutsideTyped ==
  /\ repo \in [state : {"none", "empty", "pushed"}, by : Scaffolds \cup {Nobody},
               protected : BOOLEAN]
  /\ k8s \in SUBSET Resources
  /\ vault \in {"none", "placeholder", "real"}
  /\ row \in [state : {"free", "active", "deleted"}, by : Scaffolds \cup {Nobody}]
  /\ crowded \in BOOLEAN /\ faults \in 0 .. MaxFaults

\* Nothing outside is ever taken back.
Grows ==
  /\ repo.state = "pushed" =>
       /\ repo'.state = "pushed" /\ repo'.by = repo.by
       /\ repo.protected => repo'.protected
  /\ k8s \subseteq k8s' /\ (vault # "none" => vault' # "none")
  /\ row.state # "free" => row'.state # "free"

LEMMA InitInv == Init => IInv
<1> SUFFICES ASSUME Init PROVE IInv
  OBVIOUS
<1>1. 1 \in 1 .. MaxAttempts /\ 0 \in 0 .. MaxFaults
  BY AttemptsAssumption
<1>2. TypeOK
  BY <1>1 DEF Init, TypeOK, Steps, TaskPCs, Resources
<1>3. RegisteredOwnsRepo
  BY DEF Init, RegisteredOwnsRepo
<1>4. ASSUME NEW w \in Scaffolds PROVE Fits(w, wf[w], tasks[w])
  BY DEF Init, Fits, Earned
<1> QED BY <1>2, <1>3, <1>4 DEF IInv

LEMMA InvOf ==
  ASSUME IInv, NEW w \in Scaffolds
  PROVE  /\ wf \in [Scaffolds -> WfType] /\ wf[w] \in WfType
         /\ tasks \in [Scaffolds -> [Tasks -> TaskType]] /\ tasks[w] \in [Tasks -> TaskType]
         /\ Fits(w, wf[w], tasks[w]) /\ OutsideTyped
BY DEF IInv, TypeOK, WfType, TaskType, OutsideTyped

\* What holds outside an execution stays so when nothing is taken back.
LEMMA FitsKept ==
  ASSUME IInv, Grows, OutsideTyped', NEW w \in Scaffolds, NEW k, NEW ts, Fits(w, k, ts)
  PROVE  Fits(w, k, ts)'
<1>1. Owned(w) => Owned(w)'
  BY DEF Owned, Grows, OutsideTyped
<1>2. \A t \in Tasks : Earned(t, ts[t]) => Earned(t, ts[t])'
  BY DEF Earned, Grows
<1> QED BY <1>1, <1>2 DEF Fits, Grows

LEMMA RegisteredKept ==
  ASSUME IInv, Grows, OutsideTyped', row'.by \in {row.by, Nobody}
  PROVE  RegisteredOwnsRepo'
BY DEF IInv, RegisteredOwnsRepo, Grows, OutsideTyped

-----------------------------------------------------------------------------
\* A step of one execution keeps the invariant if what it leaves fits.
LEMMA OneMoves ==
  ASSUME IInv, NEW w \in Scaffolds, NEW k \in WfType, NEW ts \in [Tasks -> TaskType],
         wf' = [wf EXCEPT ![w] = k], tasks' = [tasks EXCEPT ![w] = ts],
         Grows, OutsideTyped', RegisteredOwnsRepo', Fits(w, k, ts)'
  PROVE  IInv'
<1>1. wf \in [Scaffolds -> WfType] /\ tasks \in [Scaffolds -> [Tasks -> TaskType]]
  BY InvOf
<1>2. wf' \in [Scaffolds -> WfType] /\ tasks' \in [Scaffolds -> [Tasks -> TaskType]]
  BY <1>1
<1>3. TypeOK'
  BY <1>2 DEF TypeOK, WfType, TaskType, OutsideTyped
<1>4. ASSUME NEW v \in Scaffolds PROVE Fits(v, wf[v], tasks[v])'
  <2>1. CASE v = w
    <3>1. wf'[v] = k /\ tasks'[v] = ts
      BY <1>1, <2>1
    <3> QED BY <2>1, <3>1 DEF Fits, Owned, Earned
  <2>2. CASE v # w
    <3>1. wf'[v] = wf[v] /\ tasks'[v] = tasks[v]
      BY <1>1, <2>2
    <3> PICK j, js : j = wf[v] /\ js = tasks[v]
      OBVIOUS
    <3>2. Fits(v, j, js)'
      BY FitsKept DEF IInv
    <3> QED BY <3>1, <3>2 DEF Fits, Owned, Earned
  <2> QED BY <2>1, <2>2
<1> QED BY <1>3, <1>4 DEF IInv

\* A step of the sequential part.
LEMMA WorkflowMoves ==
  ASSUME IInv, NEW w \in Scaffolds, NEW k \in WfType, wf' = [wf EXCEPT ![w] = k],
         UNCHANGED tasks, Grows, OutsideTyped', row'.by = row.by,
         k.pc \in Steps \cup {"failed"},
         k.pc = "protect" => repo'.state = "pushed" /\ repo'.by = w
  PROVE  IInv'
<1> PICK ts : ts = tasks[w]
  OBVIOUS
<1>1. ts \in [Tasks -> TaskType] /\ tasks' = [tasks EXCEPT ![w] = ts]
  BY InvOf
<1>2. RegisteredOwnsRepo'
  BY RegisteredKept
<1> PICK j : j = wf[w]
  OBVIOUS
<1>3. Fits(w, j, ts)'
  BY InvOf, FitsKept
<1>4. Fits(w, k, ts)'
  BY <1>3 DEF Fits, Steps
<1> QED BY <1>1, <1>2, <1>4, OneMoves

\* The ways on: to a step, to the next one, and back for another attempt.
LEMMA Moves ==
  ASSUME IInv, NEW w \in Scaffolds, NEW pc \in Steps \cup {"gather"} \cup Closed,
         Goto(w, pc) \/ Proceed(w, pc)
  PROVE  \E k \in WfType : wf' = [wf EXCEPT ![w] = k] /\ k.pc = pc
<1>1. wf[w] \in WfType /\ 1 \in 1 .. MaxAttempts
  BY InvOf, AttemptsAssumption
<1>2. CASE Goto(w, pc)
  <2>1. [wf[w] EXCEPT !.pc = pc] \in WfType
    BY <1>1 DEF WfType
  <2> QED BY <1>1, <1>2, <2>1 DEF Goto, WfType
<1>3. CASE Proceed(w, pc)
  <2>1. [wf[w] EXCEPT !.pc = pc, !.attempt = 1] \in WfType
    BY <1>1 DEF WfType
  <2> QED BY <1>1, <1>3, <2>1 DEF Proceed, WfType
<1> QED BY <1>2, <1>3

LEMMA Retries ==
  ASSUME IInv, NEW w \in Scaffolds, wf[w].pc \in Steps, Retry(w)
  PROVE  \E k \in WfType : /\ wf' = [wf EXCEPT ![w] = k] /\ k.pc \in Steps \cup {"failed"}
                           /\ k.pc = "protect" => wf[w].pc = "protect"
<1>1. wf[w] \in WfType
  BY InvOf
<1>2. CASE wf[w].attempt < MaxAttempts /\ wf[w].pc # "validate"
  <2>1. Top(wf[w].pc) \in Steps /\ (Top(wf[w].pc) = "protect" => wf[w].pc = "protect")
    BY DEF Top, Steps
  <2>2. wf[w].attempt + 1 \in 1 .. MaxAttempts
    BY <1>1, <1>2, AttemptsAssumption DEF WfType
  <2> PICK k : k = [wf[w] EXCEPT !.pc = Top(wf[w].pc), !.attempt = wf[w].attempt + 1]
    OBVIOUS
  <2>3. k \in WfType /\ k.pc = Top(wf[w].pc)
    BY <1>1, <2>1, <2>2 DEF WfType
  <2>4. wf' = [wf EXCEPT ![w] = k]
    BY <1>2 DEF Retry
  <2> QED BY <2>1, <2>3, <2>4
<1>3. CASE ~(wf[w].attempt < MaxAttempts /\ wf[w].pc # "validate")
  <2>1. Goto(w, "failed")
    BY <1>3 DEF Retry
  <2> QED BY <2>1, Moves DEF Closed
<1> QED BY <1>2, <1>3

\* Steps with nothing outside but a fault.
LEMMA NothingOutside ==
  ASSUME IInv, UNCHANGED outside, UNCHANGED faults \/ Fault
  PROVE  Grows /\ OutsideTyped' /\ row'.by = row.by
<1>1. OutsideTyped
  BY DEF IInv, TypeOK, OutsideTyped
<1> QED BY <1>1, AttemptsAssumption DEF outside, Fault, Grows, OutsideTyped

-----------------------------------------------------------------------------
(* The sequential activities. *)

LEMMA QuietStepInv ==
  ASSUME IInv, NEW w \in Scaffolds,
         Validate(w) \/ Render(w) \/ RepoCheck(w) \/ PushPrepare(w) \/ AttemptLost(w)
  PROVE  IInv'
<1>1. /\ UNCHANGED <<tasks, outside>> /\ (UNCHANGED faults \/ Fault)
  BY DEF Validate, Render, RepoCheck, PushPrepare, AttemptLost
<1>2. \E k \in WfType : /\ wf' = [wf EXCEPT ![w] = k] /\ k.pc \in Steps \cup {"failed"}
                        /\ k.pc = "protect" => wf[w].pc = "protect"
  <2>1. CASE Validate(w) \/ Render(w) \/ RepoCheck(w)
    <3>1. PICK pc \in {"failed", "render", "repo_check", "push", "repo_post"} :
            Goto(w, pc) \/ Proceed(w, pc)
      BY <2>1 DEF Validate, Render, RepoCheck
    <3>2. pc \in Steps \cup {"failed"} /\ pc # "protect" /\ pc \in Steps \cup {"gather"} \cup Closed
      BY DEF Steps, Closed
    <3> QED BY <3>1, <3>2, Moves
  <2>2. CASE PushPrepare(w)
    <3>1. wf[w].pc = "push" /\ wf[w].pc \in Steps
      BY <2>2 DEF PushPrepare, Steps
    <3>2. CASE wf[w].dir = "fresh"
      <4> PICK k : k = [wf[w] EXCEPT !.pc = "push_send", !.dir = "touched"]
        OBVIOUS
      <4>1. k \in WfType /\ k.pc = "push_send"
        BY InvOf DEF WfType, Steps
      <4>2. wf' = [wf EXCEPT ![w] = k]
        BY <2>2, <3>2 DEF PushPrepare
      <4> QED BY <4>1, <4>2 DEF Steps
    <3>3. CASE wf[w].dir # "fresh"
      BY <2>2, <3>1, <3>3, Retries DEF PushPrepare
    <3> QED BY <3>2, <3>3
  <2>3. CASE AttemptLost(w)
    BY <2>3, Retries DEF AttemptLost
  <2> QED BY <2>1, <2>2, <2>3
<1>3. Grows /\ OutsideTyped' /\ row'.by = row.by
  BY <1>1, NothingOutside
<1>4. wf[w].pc = "protect" => repo'.state = "pushed" /\ repo'.by = w
  BY <1>1, InvOf DEF Fits, outside
<1> QED BY <1>1, <1>2, <1>3, <1>4, WorkflowMoves

\* Creating the repository and pushing the first commit never undo a push.
LEMMA RepoStepInv ==
  ASSUME IInv, NEW w \in Scaffolds, RepoPost(w) \/ PushSend(w)
  PROVE  IInv'
<1>1. OutsideTyped /\ wf[w].pc \in Steps
  BY InvOf DEF RepoPost, PushSend, Steps
<1>2. /\ UNCHANGED <<tasks, k8s, vault, row, crowded>> /\ (UNCHANGED faults \/ Fault)
  BY DEF RepoPost, PushSend
<1>3. \/ UNCHANGED repo
      \/ repo.state = "none" /\ repo' = [repo EXCEPT !.state = "empty"]
      \/ repo.state = "empty" /\ repo' = [repo EXCEPT !.state = "pushed", !.by = w]
  BY DEF RepoPost, PushSend, Push
<1>4. Grows /\ OutsideTyped' /\ row'.by = row.by
  <2>1. faults' \in 0 .. MaxFaults
    BY <1>1, <1>2, AttemptsAssumption DEF OutsideTyped, Fault
  <2>2. CASE UNCHANGED repo
    BY <1>1, <1>2, <2>1, <2>2 DEF Grows, OutsideTyped
  <2>3. CASE repo.state = "none" /\ repo' = [repo EXCEPT !.state = "empty"]
    BY <1>1, <1>2, <2>1, <2>3 DEF Grows, OutsideTyped
  <2>4. CASE repo.state = "empty" /\ repo' = [repo EXCEPT !.state = "pushed", !.by = w]
    BY <1>1, <1>2, <2>1, <2>4 DEF Grows, OutsideTyped
  <2> QED BY <1>3, <2>2, <2>3, <2>4
<1>5. \E k \in WfType : /\ wf' = [wf EXCEPT ![w] = k] /\ k.pc \in Steps \cup {"failed"}
                        /\ k.pc = "protect" => repo'.state = "pushed" /\ repo'.by = w
  <2>1. CASE RepoPost(w)
    <3>1. wf[w].pc # "protect"
      BY <2>1 DEF RepoPost
    <3>2. Proceed(w, "push") \/ Retry(w) \/ Goto(w, "failed")
      BY <2>1 DEF RepoPost
    <3> QED BY <1>1, <3>1, <3>2, Retries, Moves DEF Steps, Closed
  <2>2. CASE PushSend(w)
    <3>1. wf[w].pc # "protect"
      BY <2>2 DEF PushSend
    <3>2. Retry(w) \/ (repo.state = "empty" /\ Proceed(w, "protect"))
      BY <2>2 DEF PushSend
    <3>3. CASE Retry(w)
      BY <1>1, <3>1, <3>3, Retries
    <3>4. CASE repo.state = "empty" /\ Proceed(w, "protect")
      <4>1. repo'.state = "pushed" /\ repo'.by = w
        BY <2>2, <3>4, <1>1 DEF PushSend, Push, OutsideTyped
      <4> QED BY <3>4, <4>1, Moves DEF Steps, Closed
    <3> QED BY <3>2, <3>3, <3>4
  <2> QED BY <2>1, <2>2
<1> QED BY <1>2, <1>4, <1>5, WorkflowMoves

LEMMA ProtectInv == ASSUME IInv, NEW w \in Scaffolds, Protect(w) PROVE IInv'
<1>1. /\ wf[w].pc = "protect" /\ repo' = [repo EXCEPT !.protected = TRUE]
      /\ UNCHANGED <<k8s, vault, row, crowded, faults>>
  BY DEF Protect
<1>2. OutsideTyped /\ repo.state = "pushed" /\ repo.by = w
  BY <1>1, InvOf DEF Fits
<1>3. Grows /\ OutsideTyped' /\ row'.by = row.by
  BY <1>1, <1>2 DEF Grows, OutsideTyped
<1>4. Owned(w)'
  BY <1>1, <1>2 DEF Owned, OutsideTyped
<1>5. PICK k \in WfType : wf' = [wf EXCEPT ![w] = k] /\ k.pc = "gather"
  BY Moves DEF Protect
<1>6. PICK ts : /\ tasks' = [tasks EXCEPT ![w] = ts]
                /\ ts = [k8s     |-> [pc |-> "namespace", attempt |-> 1],
                         vault   |-> [pc |-> "read", attempt |-> 1],
                         catalog |-> [pc |-> "check", attempt |-> 1]]
  BY DEF Protect
<1>7. ts \in [Tasks -> TaskType]
  <2>1. 1 \in 1 .. MaxAttempts
    BY AttemptsAssumption
  <2> QED BY <1>6, <2>1 DEF Tasks, TaskType, TaskPCs, Resources
<1>8. /\ ts["k8s"].pc = "namespace" /\ ts["vault"].pc = "read" /\ ts["catalog"].pc = "check"
  BY <1>6
<1>9. Fits(w, k, ts)'
  BY <1>4, <1>5, <1>8 DEF Fits, Earned, Tasks
<1>10. RegisteredOwnsRepo'
  BY <1>3, RegisteredKept
<1> QED BY <1>3, <1>5, <1>6, <1>7, <1>9, <1>10, OneMoves

\* A completed execution has all three tasks done, and what they made is there.
LEMMA GatherInv == ASSUME IInv, NEW w \in Scaffolds, Gather(w) PROVE IInv'
<1>1. /\ wf[w].pc = "gather" /\ \A t \in Tasks : tasks[w][t].pc = "done"
      /\ UNCHANGED <<tasks, outside, faults>>
  BY DEF Gather, At
<1>2. PICK k \in WfType : wf' = [wf EXCEPT ![w] = k] /\ k.pc = "completed"
  BY Moves DEF Gather, Closed
<1> PICK j, ts : j = wf[w] /\ ts = tasks[w]
  OBVIOUS
<1>3. Grows /\ OutsideTyped' /\ row'.by = row.by
  BY <1>1, NothingOutside
<1>4. Fits(w, j, ts)'
  BY <1>3, InvOf, FitsKept
<1>5. Fits(w, k, ts)'
  BY <1>1, <1>2, <1>4 DEF Fits
<1>6. ts \in [Tasks -> TaskType] /\ tasks' = [tasks EXCEPT ![w] = ts]
  BY <1>1, InvOf
<1> QED BY <1>2, <1>3, <1>5, <1>6, RegisteredKept, OneMoves

LEMMA LateVaultWriteInv == ASSUME IInv, NEW w \in Scaffolds, LateVaultWrite(w) PROVE IInv'
<1>1. /\ vault' = "placeholder" /\ UNCHANGED <<tasks, repo, k8s, row, crowded, faults>>
      /\ wf' = [wf EXCEPT ![w] = [wf[w] EXCEPT !.late = "landed"]]
  BY DEF LateVaultWrite
<1> PICK j, k, ts : j = wf[w] /\ k = [wf[w] EXCEPT !.late = "landed"] /\ ts = tasks[w]
  OBVIOUS
<1>2. k \in WfType /\ k.pc = j.pc
  BY InvOf DEF WfType
<1>3. Grows /\ OutsideTyped' /\ row'.by = row.by
  BY <1>1, InvOf DEF Grows, OutsideTyped
<1>4. Fits(w, j, ts)'
  BY <1>3, InvOf, FitsKept
<1>5. Fits(w, k, ts)'
  BY <1>2, <1>4 DEF Fits
<1>6. ts \in [Tasks -> TaskType] /\ tasks' = [tasks EXCEPT ![w] = ts]
  BY <1>1, InvOf
<1> QED BY <1>1, <1>2, <1>3, <1>5, <1>6, RegisteredKept, OneMoves

-----------------------------------------------------------------------------
(* The three concurrent activities. *)

\* A step of a task under way: what it gets to, it has earned.
LEMMA TaskMoves ==
  ASSUME IInv, NEW w \in Scaffolds, NEW t \in Tasks, tasks[w][t].pc \notin {"off", "done"},
         NEW k \in WfType, wf' = [wf EXCEPT ![w] = k], k.pc \in {wf[w].pc, "failed"},
         NEW x \in TaskType, tasks' = [tasks EXCEPT ![w] = [tasks[w] EXCEPT ![t] = x]],
         Grows, OutsideTyped', RegisteredOwnsRepo', Earned(t, x)'
  PROVE  IInv'
<1> PICK j, js, ts : j = wf[w] /\ js = tasks[w] /\ ts = [tasks[w] EXCEPT ![t] = x]
  OBVIOUS
<1>1. js \in [Tasks -> TaskType] /\ Fits(w, j, js)
  BY InvOf
<1>2. ts \in [Tasks -> TaskType] /\ ts[t] = x /\ \A u \in Tasks : u # t => ts[u] = js[u]
  BY <1>1
<1>3. Fits(w, j, js)'
  BY <1>1, FitsKept
<1>4. Owned(w)' /\ j.pc # "completed" /\ js[t].pc # "done"
  BY <1>3, <1>1 DEF Fits
<1>5. ASSUME NEW u \in Tasks PROVE (ts[u].pc # "off" => Owned(w)') /\ Earned(u, ts[u])'
  <2>1. CASE u = t
    BY <1>2, <1>4, <2>1 DEF Earned
  <2>2. CASE u # t
    <3>1. ts[u] = js[u] /\ Earned(u, js[u])'
      BY <1>2, <1>3, <2>2 DEF Fits
    <3> QED BY <3>1, <1>4 DEF Earned
  <2> QED BY <2>1, <2>2
<1>6. Fits(w, k, ts)'
  BY <1>3, <1>4, <1>5 DEF Fits
<1> QED BY <1>2, <1>6, OneMoves

\* A task's next point, or its end.
LEMMA TaskGoes ==
  ASSUME IInv, NEW w \in Scaffolds, NEW t \in Tasks, NEW pc \in TaskPCs, TaskGoto(w, t, pc)
  PROVE  \E x \in TaskType : /\ tasks' = [tasks EXCEPT ![w] = [tasks[w] EXCEPT ![t] = x]]
                             /\ x.pc = pc
<1> PICK x : x = [tasks[w][t] EXCEPT !.pc = pc]
  OBVIOUS
<1>1. x \in TaskType /\ x.pc = pc
  BY InvOf DEF TaskType
<1>2. tasks' = [tasks EXCEPT ![w] = [tasks[w] EXCEPT ![t] = x]]
  BY DEF TaskGoto
<1> QED BY <1>1, <1>2

\* A task starts again, or fails its workflow: it has earned nothing yet.
LEMMA TaskRetries ==
  ASSUME IInv, NEW w \in Scaffolds, NEW t \in Tasks, TaskRetry(w, t)
  PROVE  \E k \in WfType, x \in TaskType :
           /\ wf' = [wf EXCEPT ![w] = k] /\ k.pc \in {wf[w].pc, "failed"}
           /\ tasks' = [tasks EXCEPT ![w] = [tasks[w] EXCEPT ![t] = x]]
           /\ Earned(t, x)'
<1>1. wf[w] \in WfType /\ tasks[w] \in [Tasks -> TaskType] /\ tasks[w][t] \in TaskType
      /\ wf \in [Scaffolds -> WfType]
  BY InvOf
<1>2. CASE wf[w].pc = "gather" /\ tasks[w][t].attempt < MaxAttempts
  <2> PICK x : x = [pc |-> TaskTop(t), attempt |-> tasks[w][t].attempt + 1]
    OBVIOUS
  <2>1. /\ tasks' = [tasks EXCEPT ![w] = [tasks[w] EXCEPT ![t] = x]] /\ UNCHANGED wf
    BY <1>2 DEF TaskRetry
  <2>2. TaskTop(t) \in {"namespace", "read", "check"} /\ TaskTop(t) \in TaskPCs
    BY DEF TaskTop, Tasks, TaskPCs, Resources
  <2>3. tasks[w][t].attempt + 1 \in 1 .. MaxAttempts
    BY <1>1, <1>2, AttemptsAssumption DEF TaskType
  <2>4. x \in TaskType /\ Earned(t, x)'
    BY <2>2, <2>3 DEF TaskType, Earned
  <2>5. wf' = [wf EXCEPT ![w] = wf[w]]
    BY <1>1, <2>1
  <2> QED BY <1>1, <2>1, <2>4, <2>5
<1>3. CASE ~(wf[w].pc = "gather" /\ tasks[w][t].attempt < MaxAttempts)
  <2>1. TaskGoto(w, t, "off") /\ Goto(w, "failed")
    BY <1>3 DEF TaskRetry
  <2>2. PICK k \in WfType : wf' = [wf EXCEPT ![w] = k] /\ k.pc = "failed"
    BY <2>1, Moves DEF Closed
  <2>3. PICK x \in TaskType : /\ tasks' = [tasks EXCEPT ![w] = [tasks[w] EXCEPT ![t] = x]]
                              /\ x.pc = "off"
    BY <2>1, TaskGoes DEF TaskPCs
  <2>4. Earned(t, x)'
    BY <2>3 DEF Earned
  <2> QED BY <2>2, <2>3, <2>4
<1> QED BY <1>2, <1>3

\* A task that gets to its next point without touching its workflow.
LEMMA TaskAdvances ==
  ASSUME IInv, NEW w \in Scaffolds, NEW t \in Tasks, tasks[w][t].pc \notin {"off", "done"},
         NEW pc \in TaskPCs, TaskGoto(w, t, pc), UNCHANGED wf,
         Grows, OutsideTyped', RegisteredOwnsRepo',
         \A x \in TaskType : x.pc = pc => Earned(t, x)'
  PROVE  IInv'
<1>1. PICK x \in TaskType : /\ tasks' = [tasks EXCEPT ![w] = [tasks[w] EXCEPT ![t] = x]]
                            /\ x.pc = pc
  BY TaskGoes
<1>2. wf[w] \in WfType /\ wf' = [wf EXCEPT ![w] = wf[w]]
  BY InvOf
<1> PICK k \in WfType : k = wf[w]
  BY <1>2
<1> QED BY <1>1, <1>2, TaskMoves

LEMMA TaskFails ==
  ASSUME IInv, NEW w \in Scaffolds, NEW t \in Tasks, tasks[w][t].pc \notin {"off", "done"},
         TaskRetry(w, t), Grows, OutsideTyped', RegisteredOwnsRepo'
  PROVE  IInv'
<1>1. PICK k \in WfType, x \in TaskType :
        /\ wf' = [wf EXCEPT ![w] = k] /\ k.pc \in {wf[w].pc, "failed"}
        /\ tasks' = [tasks EXCEPT ![w] = [tasks[w] EXCEPT ![t] = x]]
        /\ Earned(t, x)'
  BY TaskRetries
<1> QED BY <1>1, TaskMoves

LEMMA CreateResourceInv ==
  ASSUME IInv, NEW w \in Scaffolds, NEW kind \in Resources, NEW next \in TaskPCs,
         CreateResource(w, kind, next),
         <<kind, next>> \in {<<"namespace", "quota">>, <<"quota", "limits">>, <<"limits", "done">>}
  PROVE  IInv'
<1>1. /\ tasks[w]["k8s"].pc = kind /\ k8s' = k8s \cup {kind} /\ TaskGoto(w, "k8s", next)
      /\ UNCHANGED <<wf, repo, vault, row, crowded, faults>>
  BY DEF CreateResource, At
<1>2. "k8s" \in Tasks /\ kind \notin {"off", "done"}
  BY DEF Tasks, Resources
<1>3. Grows /\ OutsideTyped' /\ row'.by = row.by
  BY <1>1, InvOf DEF Grows, OutsideTyped
<1>4. /\ kind \in {"quota", "limits"} => "namespace" \in k8s
      /\ kind = "limits" => "quota" \in k8s
  BY <1>1, <1>2, InvOf DEF Fits, Earned
<1>5. \A x \in TaskType : x.pc = next => Earned("k8s", x)'
  BY <1>1, <1>4 DEF Earned
<1> QED BY <1>1, <1>2, <1>3, <1>5, RegisteredKept, TaskAdvances

LEMMA K8sStepInv == ASSUME IInv, NEW w \in Scaffolds, K8sStep(w) PROVE IInv'
<1>1. /\ {"namespace", "quota", "limits"} \subseteq Resources
      /\ {"quota", "limits", "done"} \subseteq TaskPCs
  BY DEF Resources, TaskPCs
<1>2. CASE CreateResource(w, "namespace", "quota")
  BY <1>1, <1>2, CreateResourceInv
<1>3. CASE CreateResource(w, "quota", "limits")
  BY <1>1, <1>3, CreateResourceInv
<1>4. CASE CreateResource(w, "limits", "done")
  BY <1>1, <1>4, CreateResourceInv
<1> QED BY <1>2, <1>3, <1>4 DEF K8sStep

LEMMA VaultReadInv == ASSUME IInv, NEW w \in Scaffolds, VaultRead(w) PROVE IInv'
<1>1. PICK pc \in {"write", "done"} :
        TaskGoto(w, "vault", pc) /\ (pc = "done" => vault # "none")
  BY DEF VaultRead
<1>2. /\ tasks[w]["vault"].pc = "read" /\ UNCHANGED <<wf, outside, faults>>
      /\ "vault" \in Tasks /\ pc \in TaskPCs
  BY DEF VaultRead, At, Tasks, TaskPCs
<1>3. Grows /\ OutsideTyped' /\ row'.by = row.by
  BY <1>2, NothingOutside
<1>4. \A x \in TaskType : x.pc = pc => Earned("vault", x)'
  BY <1>1, <1>3 DEF Earned, Grows
<1> QED BY <1>1, <1>2, <1>3, <1>4, RegisteredKept, TaskAdvances

LEMMA VaultWriteInv == ASSUME IInv, NEW w \in Scaffolds, VaultWrite(w) PROVE IInv'
<1>1. /\ tasks[w]["vault"].pc = "write" /\ vault' = "placeholder"
      /\ UNCHANGED <<repo, k8s, row, crowded>> /\ (UNCHANGED faults \/ Fault)
  BY DEF VaultWrite, At
<1>2. OutsideTyped /\ faults' \in 0 .. MaxFaults
  BY <1>1, InvOf, AttemptsAssumption DEF OutsideTyped, Fault
<1>3. Grows /\ OutsideTyped' /\ row'.by = row.by
  BY <1>1, <1>2 DEF Grows, OutsideTyped
<1>4. RegisteredOwnsRepo' /\ "vault" \in Tasks /\ "done" \in TaskPCs
  BY <1>3, RegisteredKept DEF Tasks, TaskPCs
<1>5. CASE TaskGoto(w, "vault", "done") /\ UNCHANGED <<wf, faults>>
  <2>1. \A x \in TaskType : x.pc = "done" => Earned("vault", x)'
    BY <1>1 DEF Earned
  <2> QED BY <1>1, <1>3, <1>4, <1>5, <2>1, TaskAdvances
<1>6. CASE TaskRetry(w, "vault")
  BY <1>1, <1>3, <1>4, <1>6, TaskFails
<1> QED BY <1>5, <1>6 DEF VaultWrite

LEMMA CatalogCheckInv == ASSUME IInv, NEW w \in Scaffolds, CatalogCheck(w) PROVE IInv'
<1>1. PICK pc \in {"post", "done"} :
        TaskGoto(w, "catalog", pc) /\ (pc = "done" => row.state # "free")
  BY DEF CatalogCheck, Listed
<1>2. /\ tasks[w]["catalog"].pc = "check" /\ UNCHANGED <<wf, outside, faults>>
      /\ "catalog" \in Tasks /\ pc \in TaskPCs
  BY DEF CatalogCheck, At, Tasks, TaskPCs
<1>3. Grows /\ OutsideTyped' /\ row'.by = row.by
  BY <1>2, NothingOutside
<1>4. \A x \in TaskType : x.pc = pc => Earned("catalog", x)'
  BY <1>1, <1>3 DEF Earned, Grows
<1> QED BY <1>1, <1>2, <1>3, <1>4, RegisteredKept, TaskAdvances

\* Who registers the service has protected its own commit before.
LEMMA CatalogPostInv == ASSUME IInv, NEW w \in Scaffolds, CatalogPost(w) PROVE IInv'
<1>1. /\ tasks[w]["catalog"].pc = "post"
      /\ UNCHANGED <<repo, k8s, vault, crowded>> /\ (UNCHANGED faults \/ Fault)
      /\ \/ row.state = "free" /\ row' = [state |-> "active", by |-> w]
         \/ row.state # "free" /\ UNCHANGED row
  BY DEF CatalogPost, At
<1>2. "catalog" \in Tasks /\ "done" \in TaskPCs
  BY DEF Tasks, TaskPCs
<1>3. OutsideTyped /\ faults' \in 0 .. MaxFaults /\ Owned(w)
  BY <1>1, <1>2, InvOf, AttemptsAssumption DEF OutsideTyped, Fault, Fits
<1>4. Grows /\ OutsideTyped'
  BY <1>1, <1>3 DEF Grows, OutsideTyped
<1>5. RegisteredOwnsRepo'
  <2>1. UNCHANGED repo
    BY <1>1
  <2>2. CASE row' = [state |-> "active", by |-> w]
    <3>1. row'.by = w
      BY <2>2
    <3> QED BY <2>1, <3>1, <1>3 DEF RegisteredOwnsRepo, Owned
  <2>3. CASE UNCHANGED row
    BY <2>1, <2>3 DEF IInv, RegisteredOwnsRepo
  <2> QED BY <1>1, <2>2, <2>3
<1>6. CASE /\ row' = [state |-> "active", by |-> w]
           /\ TaskGoto(w, "catalog", "done") /\ UNCHANGED <<wf, faults>>
  <2>1. \A x \in TaskType : x.pc = "done" => Earned("catalog", x)'
    BY <1>6 DEF Earned
  <2> QED BY <1>1, <1>2, <1>4, <1>5, <1>6, <2>1, TaskAdvances
<1>7. CASE TaskRetry(w, "catalog")
  BY <1>1, <1>2, <1>4, <1>5, <1>7, TaskFails
<1> QED BY <1>6, <1>7 DEF CatalogPost

LEMMA TaskLostInv ==
  ASSUME IInv, NEW w \in Scaffolds, NEW t \in Tasks, TaskLost(w, t)
  PROVE  IInv'
<1>1. tasks[w][t].pc \notin {"off", "done"} /\ Fault /\ UNCHANGED outside
  BY DEF TaskLost
<1>2. Grows /\ OutsideTyped' /\ row'.by = row.by
  BY <1>1, NothingOutside
<1>3. RegisteredOwnsRepo'
  BY <1>2, RegisteredKept
<1>4. CASE TaskRetry(w, t)
  BY <1>1, <1>2, <1>3, <1>4, TaskFails
<1>5. CASE /\ t = "vault" /\ wf[w].pc = "gather" /\ tasks[w][t].attempt < MaxAttempts
           /\ tasks' = [tasks EXCEPT ![w][t] = [pc |-> "read", attempt |-> @.attempt + 1]]
           /\ wf' = [wf EXCEPT ![w].late = "due"]
  <2>1. wf[w] \in WfType /\ tasks[w] \in [Tasks -> TaskType] /\ tasks[w][t] \in TaskType
    BY InvOf
  <2> PICK k, x : /\ k = [wf[w] EXCEPT !.late = "due"]
                  /\ x = [pc |-> "read", attempt |-> tasks[w][t].attempt + 1]
    OBVIOUS
  <2>2. k \in WfType /\ k.pc = wf[w].pc /\ wf' = [wf EXCEPT ![w] = k]
    BY <1>5, <2>1 DEF WfType
  <2>3. tasks[w][t].attempt + 1 \in 1 .. MaxAttempts
    BY <1>5, <2>1, AttemptsAssumption DEF TaskType
  <2>4. x \in TaskType /\ x.pc = "read"
    BY <2>3 DEF TaskType, TaskPCs
  <2>5. tasks' = [tasks EXCEPT ![w] = [tasks[w] EXCEPT ![t] = x]]
    BY <1>5
  <2>6. Earned(t, x)'
    BY <1>5, <2>4 DEF Earned
  <2> QED BY <1>1, <1>2, <1>3, <2>2, <2>4, <2>5, <2>6, TaskMoves
<1> QED BY <1>4, <1>5 DEF TaskLost

-----------------------------------------------------------------------------
(* Everything together. *)

LEMMA NobodyMoves ==
  ASSUME IInv, UNCHANGED <<wf, tasks>>, Grows, OutsideTyped', row'.by \in {row.by, Nobody}
  PROVE  IInv'
<1>1. TypeOK'
  BY DEF IInv, TypeOK, OutsideTyped
<1>2. ASSUME NEW w \in Scaffolds PROVE Fits(w, wf[w], tasks[w])'
  <2> PICK j, js : j = wf[w] /\ js = tasks[w]
    OBVIOUS
  <2>1. Fits(w, j, js)'
    BY FitsKept DEF IInv
  <2> QED BY <2>1 DEF Fits, Owned, Earned
<1> QED BY <1>1, <1>2, RegisteredKept DEF IInv

LEMMA NextInv == IInv /\ [Next]_vars => IInv'
<1> SUFFICES ASSUME IInv, [Next]_vars PROVE IInv'
  OBVIOUS
<1>1. ASSUME NEW w \in Scaffolds, WorkflowStep(w) PROVE IInv'
  BY <1>1, QuietStepInv, RepoStepInv, ProtectInv, GatherInv DEF WorkflowStep
<1>2. ASSUME NEW w \in Scaffolds, TaskStep(w) PROVE IInv'
  BY <1>2, K8sStepInv, VaultReadInv, VaultWriteInv, CatalogCheckInv, CatalogPostInv DEF TaskStep
<1>3. ASSUME NEW w \in Scaffolds, AttemptLost(w) PROVE IInv'
  BY <1>3, QuietStepInv
<1>4. OutsideTyped
  BY DEF IInv, TypeOK, OutsideTyped
<1>5. CASE OwnerWritesSecrets
  <2>1. Grows /\ OutsideTyped' /\ row'.by = row.by
    BY <1>4, <1>5 DEF OwnerWritesSecrets, Grows, OutsideTyped
  <2> QED BY <1>5, <2>1, NobodyMoves DEF OwnerWritesSecrets
<1>6. CASE CatalogMoves
  <2>1. Grows /\ OutsideTyped' /\ row'.by \in {row.by, Nobody}
    BY <1>4, <1>6 DEF CatalogMoves, Grows, OutsideTyped
  <2> QED BY <1>6, <2>1, NobodyMoves DEF CatalogMoves
<1>7. CASE UNCHANGED vars
  <2>1. Grows /\ OutsideTyped' /\ row'.by = row.by
    BY <1>4, <1>7 DEF vars, Grows, OutsideTyped
  <2> QED BY <1>7, <2>1, NobodyMoves DEF vars
<1> QED BY <1>1, <1>2, <1>3, <1>5, <1>6, <1>7, LateVaultWriteInv, TaskLostInv DEF Next

LEMMA Invariant == Spec => []IInv
<1> QED BY InitInv, NextInv, PTL DEF Spec

\* Every variable keeps its type; no attempt is counted past its limit.
THEOREM TypeCorrect == Spec => []TypeOK
<1>1. IInv => TypeOK
  BY DEF IInv
<1> QED BY <1>1, Invariant, PTL

\* scaffold_workflow.py returns "completed" only for a service that is whole:
\* its own protected commit, the namespace with quota and limits, a secret, a row.
THEOREM CompletedIsWholeHolds == Spec => []CompletedIsWhole
<1>1. ASSUME IInv PROVE CompletedIsWhole
  <2> SUFFICES ASSUME NEW w \in Scaffolds, wf[w].pc = "completed"
               PROVE  Owned(w) /\ k8s = Resources /\ vault # "none" /\ row.state # "free"
    BY DEF CompletedIsWhole, Owned
  <2>1. Owned(w) /\ \A t \in Tasks : tasks[w][t].pc = "done" /\ Earned(t, tasks[w][t])
    BY <1>1, InvOf DEF Fits
  <2>2. tasks[w]["k8s"].pc = "done" /\ Earned("k8s", tasks[w]["k8s"])
    BY <2>1 DEF Tasks
  <2>3. tasks[w]["vault"].pc = "done" /\ Earned("vault", tasks[w]["vault"])
    BY <2>1 DEF Tasks
  <2>4. tasks[w]["catalog"].pc = "done" /\ Earned("catalog", tasks[w]["catalog"])
    BY <2>1 DEF Tasks
  <2>5. k8s \subseteq Resources
    BY <1>1 DEF IInv, TypeOK
  <2> QED BY <2>1, <2>2, <2>3, <2>4, <2>5 DEF Earned, Resources
<1> QED BY <1>1, Invariant, PTL

\* Hence of all executions for one name at most one completes.
THEOREM OneCompletes ==
  Spec => [](\A v, w \in Scaffolds : wf[v].pc = "completed" /\ wf[w].pc = "completed" => v = w)
<1>1. CompletedIsWhole
      => \A v, w \in Scaffolds : wf[v].pc = "completed" /\ wf[w].pc = "completed" => v = w
  BY DEF CompletedIsWhole
<1> QED BY <1>1, CompletedIsWholeHolds, PTL

\* The catalog lists a scaffolded service only over its own, protected repository.
THEOREM RegisteredOwnsRepoHolds == Spec => []RegisteredOwnsRepo
<1>1. IInv => RegisteredOwnsRepo
  BY DEF IInv
<1> QED BY <1>1, Invariant, PTL
-----------------------------------------------------------------------------
(* The secrets.  Once they are there and nobody is to write, no step starts  *)
(* a write: an attempt that comes to the path now finds something.           *)

Settled == vault = "real" /\ NobodyWrites

\* Wherever an execution goes, it stays as late as it was.
LEMMA MovesKeepLate ==
  ASSUME IInv, NEW w \in Scaffolds, NEW v \in Scaffolds,
         Retry(w) \/ (\E pc \in Steps \cup {"gather"} \cup Closed : Goto(w, pc) \/ Proceed(w, pc))
  PROVE  wf'[v].late = wf[v].late
<1>1. wf \in [Scaffolds -> WfType]
  BY InvOf
<1>2. ASSUME NEW pc, Goto(w, pc) PROVE wf'[v].late = wf[v].late
  BY <1>1, <1>2 DEF Goto, WfType
<1>3. ASSUME NEW pc, Proceed(w, pc) PROVE wf'[v].late = wf[v].late
  <2> PICK k : k = [wf[w] EXCEPT !.pc = pc, !.attempt = 1]
    OBVIOUS
  <2>1. k.late = wf[w].late
    BY <1>1 DEF WfType
  <2>2. wf' = [wf EXCEPT ![w] = k]
    BY <1>3 DEF Proceed
  <2> QED BY <1>1, <2>1, <2>2
<1>4. CASE Retry(w)
  <2>1. CASE wf[w].attempt < MaxAttempts /\ wf[w].pc # "validate"
    <3>1. wf' = [wf EXCEPT ![w].pc = Top(wf[w].pc), ![w].attempt = @ + 1]
      BY <1>4, <2>1 DEF Retry
    <3> QED BY <1>1, <3>1 DEF WfType
  <2>2. CASE ~(wf[w].attempt < MaxAttempts /\ wf[w].pc # "validate")
    BY <1>2, <1>4, <2>2 DEF Retry
  <2> QED BY <2>1, <2>2
<1> QED BY <1>2, <1>3, <1>4

LEMMA TaskRetryKeepsLate ==
  ASSUME IInv, NEW w \in Scaffolds, NEW v \in Scaffolds, NEW t \in Tasks, TaskRetry(w, t)
  PROVE  wf'[v].late = wf[v].late
BY MovesKeepLate DEF TaskRetry, Closed

\* A step of the sequential part is not late and starts no write.
LEMMA WorkflowStepSecrets ==
  ASSUME IInv, Settled, NEW w \in Scaffolds, WorkflowStep(w) \/ AttemptLost(w)
  PROVE  Settled'
<1>1. \A v \in Scaffolds : wf'[v].late = wf[v].late
  <2>1. CASE PushPrepare(w)
    <3>1. CASE wf[w].dir = "fresh"
      BY <2>1, <3>1, InvOf DEF PushPrepare, WfType
    <3>2. CASE wf[w].dir # "fresh"
      BY <2>1, <3>2, MovesKeepLate DEF PushPrepare
    <3> QED BY <3>1, <3>2
  <2>2. CASE ~PushPrepare(w)
    <3>1. /\ {"failed", "render", "repo_check", "repo_post", "push", "protect", "gather", "completed"}
               \subseteq Steps \cup {"gather"} \cup Closed
          /\ \/ Retry(w)
             \/ \E pc \in {"failed", "render", "repo_check", "repo_post", "push", "protect",
                           "gather", "completed"} : Goto(w, pc) \/ Proceed(w, pc)
      BY <2>2 DEF WorkflowStep, AttemptLost, Validate, Render, RepoCheck, RepoPost, PushSend,
         Protect, Gather, Steps, Closed
    <3> QED BY <3>1, MovesKeepLate
  <2> QED BY <2>1, <2>2
<1>2. UNCHANGED vault
  BY DEF WorkflowStep, AttemptLost, Validate, Render, RepoCheck, RepoPost, PushPrepare,
     PushSend, Protect, Gather, outside
<1>3. ASSUME NEW v \in Scaffolds, tasks'[v]["vault"].pc = "write"
      PROVE  tasks[v]["vault"].pc = "write"
  <2>1. UNCHANGED tasks \/ Protect(w)
    BY DEF WorkflowStep, AttemptLost, Validate, Render, RepoCheck, RepoPost, PushPrepare,
       PushSend, Gather
  <2>2. CASE Protect(w) /\ v = w
    BY <1>3, <2>2, InvOf DEF Protect
  <2>3. CASE Protect(w) /\ v # w
    BY <1>3, <2>3, InvOf DEF Protect
  <2> QED BY <1>3, <2>1, <2>2, <2>3
<1> QED BY <1>1, <1>2, <1>3 DEF Settled, NobodyWrites, At

\* A task that goes to a point, or starts again, in the terms of its vault task.
LEMMA TaskGoesSecrets ==
  ASSUME IInv, NEW w \in Scaffolds, NEW t \in Tasks, NEW v \in Scaffolds,
         \/ \E pc \in TaskPCs \ {"write"} : TaskGoto(w, t, pc)
         \/ TaskRetry(w, t)
  PROVE  /\ tasks'[v]["vault"].pc = "write" => tasks[v]["vault"].pc = "write"
         /\ t = "vault" => tasks'[w]["vault"].pc # "write"
<1>1. tasks \in [Scaffolds -> [Tasks -> TaskType]] /\ "vault" \in Tasks
  BY InvOf DEF Tasks
<1>2. PICK x : /\ tasks' = [tasks EXCEPT ![w] = [tasks[w] EXCEPT ![t] = x]]
               /\ x.pc # "write"
  <2>1. ASSUME NEW pc \in TaskPCs \ {"write"}, TaskGoto(w, t, pc)
        PROVE  \E x : /\ tasks' = [tasks EXCEPT ![w] = [tasks[w] EXCEPT ![t] = x]]
                      /\ x.pc # "write"
    BY <2>1, TaskGoes
  <2>2. CASE TaskRetry(w, t)
    <3>1. TaskTop(t) # "write"
      BY DEF TaskTop, Tasks
    <3>2. CASE wf[w].pc = "gather" /\ tasks[w][t].attempt < MaxAttempts
      <4> PICK x : x = [pc |-> TaskTop(t), attempt |-> tasks[w][t].attempt + 1]
        OBVIOUS
      <4>1. tasks' = [tasks EXCEPT ![w] = [tasks[w] EXCEPT ![t] = x]]
        BY <2>2, <3>2 DEF TaskRetry
      <4>2. x.pc # "write"
        BY <3>1
      <4> QED BY <4>1, <4>2
    <3>3. CASE ~(wf[w].pc = "gather" /\ tasks[w][t].attempt < MaxAttempts)
      BY <2>1, <2>2, <3>3 DEF TaskRetry, TaskPCs
    <3> QED BY <3>2, <3>3
  <2> QED BY <2>1, <2>2
<1> QED BY <1>1, <1>2

LEMMA TaskStepSecrets ==
  ASSUME IInv, Settled, NEW w \in Scaffolds, TaskStep(w) \/ \E t \in Tasks : TaskLost(w, t)
  PROVE  Settled'
<1>1. \A v \in Scaffolds : tasks[v]["vault"].pc # "write" /\ wf[v].late # "due"
  BY DEF Settled, NobodyWrites, At
<1>2. \E t \in Tasks : \/ (\E pc \in TaskPCs \ {"write"} : TaskGoto(w, t, pc)) /\ UNCHANGED wf
                       \/ TaskRetry(w, t)
  <2>1. ASSUME K8sStep(w) \/ CatalogCheck(w) \/ CatalogPost(w)
        PROVE  \E t \in {"k8s", "catalog"} :
                 \/ /\ \E pc \in {"quota", "limits", "done", "post"} : TaskGoto(w, t, pc)
                    /\ UNCHANGED wf
                 \/ TaskRetry(w, t)
    BY <2>1 DEF K8sStep, CreateResource, CatalogCheck, CatalogPost
  <2>2. ASSUME VaultRead(w) PROVE TaskGoto(w, "vault", "done") /\ UNCHANGED wf
    BY <2>2 DEF VaultRead, Settled
  <2>3. ~VaultWrite(w)
    BY <1>1 DEF VaultWrite, At
  <2>4. ASSUME NEW t \in Tasks, TaskLost(w, t) PROVE TaskRetry(w, t)
    BY <1>1, <2>4 DEF TaskLost, At
  <2>5. {"k8s", "vault", "catalog"} = Tasks /\ {"quota", "limits", "done", "post"} \subseteq TaskPCs \ {"write"}
    BY DEF Tasks, TaskPCs, Resources
  <2> QED BY <2>1, <2>2, <2>3, <2>4, <2>5 DEF TaskStep
<1>3. ASSUME NEW v \in Scaffolds PROVE tasks'[v]["vault"].pc # "write" /\ wf'[v].late # "due"
  BY <1>1, <1>2, TaskGoesSecrets, TaskRetryKeepsLate
<1>4. UNCHANGED vault
  <2>1. ~VaultWrite(w)
    BY <1>1 DEF VaultWrite, At
  <2> QED BY <2>1 DEF TaskStep, K8sStep, CreateResource, VaultRead, CatalogCheck, CatalogPost,
          TaskLost, outside
<1> QED BY <1>3, <1>4 DEF Settled, NobodyWrites, At

LEMMA StepSecrets == ASSUME IInv, Settled, [Next]_vars PROVE Settled'
<1>1. ASSUME NEW w \in Scaffolds PROVE ~LateVaultWrite(w)
  BY DEF LateVaultWrite, Settled, NobodyWrites
<1>2. ~OwnerWritesSecrets
  BY DEF OwnerWritesSecrets, Settled
<1>3. CASE CatalogMoves \/ UNCHANGED vars
  BY <1>3 DEF CatalogMoves, vars, Settled, NobodyWrites, At
<1> QED BY <1>1, <1>2, <1>3, WorkflowStepSecrets, TaskStepSecrets DEF Next

\* From when an owner's secrets are there and no write is under way, they stay, however
\* many executions and retries come to the path (scaffold_workflow.py:355-378).
THEOREM SecretsSettleHolds == Spec => SecretsSettle
<1>1. IInv /\ Settled /\ [Next]_vars => Settled'
  BY StepSecrets
<1>2. Settled => vault = "real"
  BY DEF Settled
<1>3. Spec => [](Settled => []Settled)
  BY <1>1, Invariant, PTL DEF Spec
<1>4. (vault = "real" /\ NobodyWrites) <=> Settled
  BY DEF Settled
<1> QED BY <1>2, <1>3, <1>4, PTL DEF SecretsSettle
-----------------------------------------------------------------------------
(* The refinement: scaffolds of one name keep to NameClaim.                  *)

Completed == {w \in Scaffolds : wf[w].pc = "completed"}

\* The repository is nobody's until something is pushed, and a row that a scaffold
\* created is a row.
ClaimInv ==
  /\ repo.state # "pushed" => repo.by = Nobody /\ ~repo.protected
  /\ row.by # Nobody => row.state # "free"

\* Nothing of the claim moves.
ClaimStays == UNCHANGED <<repo.by, repo.protected, row.state = "free", row.by, Completed>>

ClaimStep == ClaimInv' /\ (Claim!Next \/ ClaimStays)

\* An execution that neither was completed nor is now.
LEMMA NotCompleted ==
  ASSUME IInv, NEW w \in Scaffolds, NEW k \in WfType, wf' = [wf EXCEPT ![w] = k],
         (k.pc = "completed") <=> (wf[w].pc = "completed")
  PROVE  Completed' = Completed
<1>1. \A v \in Scaffolds : (wf'[v].pc = "completed") <=> (wf[v].pc = "completed")
  BY InvOf
<1> QED BY <1>1 DEF Completed

\* Nothing but where executions are moves.
LEMMA OnlyExecutions ==
  ASSUME ClaimInv, UNCHANGED <<repo, row>>, Completed' = Completed
  PROVE  ClaimStep
BY DEF ClaimStep, ClaimInv, ClaimStays

\* The activities before the push, and the push, which makes the claim.
LEMMA SequentialClaims ==
  ASSUME IInv, ClaimInv, NEW w \in Scaffolds,
         \/ Validate(w) \/ Render(w) \/ RepoCheck(w) \/ PushPrepare(w) \/ AttemptLost(w)
         \/ RepoPost(w) \/ PushSend(w)
  PROVE  ClaimStep
<1>1. /\ UNCHANGED row
      /\ wf[w].pc \in Steps
  BY DEF Validate, Render, RepoCheck, PushPrepare, AttemptLost, RepoPost, PushSend, outside, Steps
<1>2. Completed' = Completed
  <2>1. \E k \in WfType : wf' = [wf EXCEPT ![w] = k] /\ k.pc \in Steps \cup {"failed"}
    <3>1. CASE PushPrepare(w) /\ wf[w].dir = "fresh"
      <4> PICK k : k = [wf[w] EXCEPT !.pc = "push_send", !.dir = "touched"]
        OBVIOUS
      <4>1. k \in WfType /\ k.pc = "push_send"
        BY InvOf DEF WfType, Steps
      <4>2. wf' = [wf EXCEPT ![w] = k]
        BY <3>1 DEF PushPrepare
      <4> QED BY <4>1, <4>2 DEF Steps
    <3>2. CASE ~(PushPrepare(w) /\ wf[w].dir = "fresh")
      <4>1. \/ Retry(w)
            \/ \E pc \in {"failed", "render", "repo_check", "repo_post", "push", "protect"} :
                 Goto(w, pc) \/ Proceed(w, pc)
        BY <3>2 DEF Validate, Render, RepoCheck, PushPrepare, AttemptLost, RepoPost, PushSend
      <4>2. {"failed", "render", "repo_check", "repo_post", "push", "protect"}
              \subseteq Steps \cup {"failed"}
        BY DEF Steps
      <4> QED BY <1>1, <4>1, <4>2, Retries, Moves DEF Closed
    <3> QED BY <3>1, <3>2
  <2>2. "completed" \notin Steps \cup {"failed"}
    BY DEF Steps
  <2> QED BY <1>1, <2>1, <2>2, NotCompleted
<1>3. \/ UNCHANGED repo
      \/ repo.state = "none" /\ repo' = [repo EXCEPT !.state = "empty"]
      \/ repo.state = "empty" /\ repo' = [repo EXCEPT !.state = "pushed", !.by = w]
  BY DEF Validate, Render, RepoCheck, PushPrepare, AttemptLost, RepoPost, PushSend, Push, outside
<1>4. CASE UNCHANGED repo
  BY <1>1, <1>2, <1>4, OnlyExecutions
<1>5. CASE repo.state = "none" /\ repo' = [repo EXCEPT !.state = "empty"]
  <2>1. repo'.by = repo.by /\ repo'.protected = repo.protected
    BY <1>5, InvOf DEF OutsideTyped
  <2> QED BY <1>1, <1>2, <1>5, <2>1 DEF ClaimStep, ClaimStays, ClaimInv
<1>6. CASE repo.state = "empty" /\ repo' = [repo EXCEPT !.state = "pushed", !.by = w]
  <2>1. /\ repo'.by = w /\ repo'.protected = repo.protected /\ repo'.state = "pushed"
        /\ repo.by = Nobody
    BY <1>6, InvOf DEF OutsideTyped, ClaimInv
  <2>2. Claim!Claim(w)
    BY <1>1, <1>2, <2>1 DEF Claim!Claim, Completed
  <2> QED BY <1>1, <2>1, <2>2 DEF ClaimStep, ClaimInv, Claim!Next
<1> QED BY <1>3, <1>4, <1>5, <1>6

\* The protection seals the claim; the end of gather completes who holds it.
LEMMA ProtectClaims == ASSUME IInv, ClaimInv, NEW w \in Scaffolds, Protect(w) PROVE ClaimStep
<1>1. /\ wf[w].pc = "protect" /\ repo' = [repo EXCEPT !.protected = TRUE] /\ UNCHANGED row
  BY DEF Protect
<1>2. PICK k \in WfType : wf' = [wf EXCEPT ![w] = k] /\ k.pc = "gather"
  BY Moves DEF Protect
<1>3. Completed' = Completed
  BY <1>1, <1>2, NotCompleted
<1>4. repo'.by = repo.by /\ repo'.protected = TRUE /\ repo'.state = "pushed" /\ repo.by = w
  BY <1>1, InvOf DEF OutsideTyped, Fits
<1>5. Claim!Seal
  BY <1>1, <1>3, <1>4, NobodyAssumption DEF Claim!Seal, Completed
<1> QED BY <1>1, <1>4, <1>5 DEF ClaimStep, ClaimInv, Claim!Next

LEMMA GatherClaims == ASSUME IInv, ClaimInv, NEW w \in Scaffolds, Gather(w) PROVE ClaimStep
<1>1. /\ wf[w].pc = "gather" /\ tasks[w]["catalog"].pc = "done" /\ UNCHANGED <<repo, row>>
  BY DEF Gather, At, outside, Tasks
<1>2. Owned(w) /\ row.state # "free"
  BY <1>1, InvOf DEF Fits, Earned, Tasks
<1>3. PICK k \in WfType : wf' = [wf EXCEPT ![w] = k] /\ k.pc = "completed"
  BY Moves DEF Gather, Closed
<1>4. \A v \in Scaffolds : (wf'[v].pc = "completed") <=> (v = w \/ wf[v].pc = "completed")
  BY <1>3, InvOf
<1>5. Completed' = Completed \cup {w}
  BY <1>4 DEF Completed
<1>6. Claim!Complete(w)
  BY <1>1, <1>2, <1>5 DEF Claim!Complete, Claim!Holds, Completed, Owned
<1> QED BY <1>1, <1>6 DEF ClaimStep, ClaimInv, Claim!Next

\* A task whose workflow is left alone or failed by it.
LEMMA TaskNotCompleted ==
  ASSUME IInv, NEW w \in Scaffolds, NEW t \in Tasks, tasks[w][t].pc \notin {"off", "done"},
         UNCHANGED wf \/ TaskRetry(w, t) \/ wf' = [wf EXCEPT ![w].late = "due"]
  PROVE  Completed' = Completed
<1>1. wf[w].pc # "completed"
  BY InvOf DEF Fits
<1>2. CASE UNCHANGED wf
  BY <1>2 DEF Completed
<1>3. CASE TaskRetry(w, t)
  BY <1>1, <1>3, TaskRetries, NotCompleted
<1>4. CASE wf' = [wf EXCEPT ![w].late = "due"]
  <2> PICK k : k = [wf[w] EXCEPT !.late = "due"]
    OBVIOUS
  <2>1. k \in WfType /\ k.pc = wf[w].pc
    BY InvOf DEF WfType
  <2>2. wf' = [wf EXCEPT ![w] = k]
    BY <1>4
  <2> QED BY <2>1, <2>2, NotCompleted
<1> QED BY <1>2, <1>3, <1>4

\* The registration: by who holds the sealed claim.
LEMMA TasksClaim ==
  ASSUME IInv, ClaimInv, NEW w \in Scaffolds, TaskStep(w) \/ \E t \in Tasks : TaskLost(w, t)
  PROVE  ClaimStep
<1>1. PICK t \in Tasks : /\ tasks[w][t].pc \notin {"off", "done"}
                         /\ UNCHANGED wf \/ TaskRetry(w, t) \/ wf' = [wf EXCEPT ![w].late = "due"]
  BY DEF TaskStep, K8sStep, CreateResource, VaultRead, VaultWrite, CatalogCheck, CatalogPost,
     TaskLost, At, Tasks, Resources
<1>2. Completed' = Completed /\ Owned(w)
  BY <1>1, TaskNotCompleted, InvOf DEF Fits
<1>3. /\ UNCHANGED repo
      /\ UNCHANGED row \/ (row.state = "free" /\ row' = [state |-> "active", by |-> w])
  BY DEF TaskStep, K8sStep, CreateResource, VaultRead, VaultWrite, CatalogCheck, CatalogPost,
     TaskLost, outside
<1>4. CASE UNCHANGED row
  BY <1>2, <1>3, <1>4, OnlyExecutions
<1>5. CASE row.state = "free" /\ row' = [state |-> "active", by |-> w]
  <2>1. row'.state = "active" /\ row'.by = w
    BY <1>5
  <2>2. Claim!Register(w)
    BY <1>2, <1>3, <1>5, <2>1 DEF Claim!Register, Claim!Holds, Completed, Owned
  <2> QED BY <1>3, <2>1, <2>2 DEF ClaimStep, ClaimInv, Claim!Next
<1> QED BY <1>3, <1>4, <1>5

LEMMA OthersClaim ==
  ASSUME IInv, ClaimInv, OwnerWritesSecrets \/ CatalogMoves \/ UNCHANGED vars
  PROVE  ClaimStep
<1>1. /\ UNCHANGED <<repo, wf>>
      /\ \/ UNCHANGED row
         \/ row.state = "free" /\ row' = [state |-> "active", by |-> Nobody]
         \/ row.state = "active" /\ row' = [row EXCEPT !.state = "deleted"]
  BY DEF OwnerWritesSecrets, CatalogMoves, vars
<1>2. Completed' = Completed
  BY <1>1 DEF Completed
<1>3. CASE UNCHANGED row
  BY <1>1, <1>2, <1>3, OnlyExecutions
<1>4. CASE row.state = "free" /\ row' = [state |-> "active", by |-> Nobody]
  <2>1. row'.state = "active" /\ row'.by = row.by
    BY <1>4 DEF ClaimInv
  <2>2. Claim!OthersRegister
    BY <1>1, <1>2, <1>4, <2>1 DEF Claim!OthersRegister, Completed
  <2> QED BY <1>1, <2>1, <2>2 DEF ClaimStep, ClaimInv, Claim!Next
<1>5. CASE row.state = "active" /\ row' = [row EXCEPT !.state = "deleted"]
  <2>1. row \in [state : {"free", "active", "deleted"}, by : Scaffolds \cup {Nobody}]
    BY DEF IInv, TypeOK
  <2>2. row'.state = "deleted" /\ row'.by = row.by
    BY <1>5, <2>1
  <2> QED BY <1>1, <1>2, <1>5, <2>2 DEF ClaimStep, ClaimStays, ClaimInv
<1> QED BY <1>1, <1>3, <1>4, <1>5

LEMMA LateWriteClaims ==
  ASSUME IInv, ClaimInv, NEW w \in Scaffolds, LateVaultWrite(w)
  PROVE  ClaimStep
<1>1. UNCHANGED <<repo, row>>
  BY DEF LateVaultWrite
<1> PICK k : k = [wf[w] EXCEPT !.late = "landed"]
  OBVIOUS
<1>2. k \in WfType /\ k.pc = wf[w].pc
  BY InvOf DEF WfType
<1>3. wf' = [wf EXCEPT ![w] = k]
  BY DEF LateVaultWrite
<1> QED BY <1>1, <1>2, <1>3, NotCompleted, OnlyExecutions

LEMMA ClaimInit == Init => Claim!Init /\ ClaimInv
<1> SUFFICES ASSUME Init PROVE Claim!Init /\ ClaimInv
  OBVIOUS
<1>1. repo.state = "none" /\ repo.by = Nobody /\ repo.protected = FALSE /\ row.by = Nobody
  BY DEF Init
<1>2. {w \in Scaffolds : wf[w].pc = "completed"} = {}
  BY DEF Init
<1>3. (row.state # "free") \in BOOLEAN
  OBVIOUS
<1> QED BY <1>1, <1>2, <1>3 DEF Claim!Init, ClaimInv

\* The executions for one name, however many, keep to NameClaim: the first commit
\* decides for good whose the name is, and only that one, once its branch is
\* protected, registers the service or completes (scaffold_workflow.py).
THEOREM ClaimKeptHolds == Spec => ClaimKept
<1>1. IInv /\ ClaimInv /\ [Next]_vars => ClaimStep
  BY SequentialClaims, ProtectClaims, GatherClaims, TasksClaim, OthersClaim, LateWriteClaims
     DEF Next, WorkflowStep
<1>2. ClaimStep => ClaimInv' /\ [Claim!Next]_(Claim!vars)
  BY DEF ClaimStep, ClaimStays, Completed, Claim!vars
<1> QED BY <1>1, <1>2, ClaimInit, Invariant, PTL DEF Spec, ClaimKept, Claim!Spec
=============================================================================
