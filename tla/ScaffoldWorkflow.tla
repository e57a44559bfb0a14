--------------------------- MODULE ScaffoldWorkflow ---------------------------
(***************************************************************************)
(* Executions of ScaffoldWorkflow for one service name, over GitHub,       *)
(* Kubernetes, Vault and the catalog.  Activities run at least once; an    *)
(* action is an activity's code between two calls.  Calls that outlast     *)
(* their activity's time-out (git, Vault) may still take effect later.     *)
(***************************************************************************)
EXTENDS Naturals

CONSTANTS
  Scaffolds,     \* the executions
  MaxAttempts,   \* maximum_attempts of the retry policies (5, and 10 for GitHub)
  MaxFaults,     \* bound: attempts that are lost and answers that are errors
  Nobody         \* neither an execution: no owner, or somebody else

ASSUME AttemptsAssumption == MaxAttempts \in Nat \ {0} /\ MaxFaults \in Nat
ASSUME NobodyAssumption == Nobody \notin Scaffolds

VARIABLES
  wf,        \* of each execution: where it is, its directory, a late Vault write
  tasks,     \* of each execution: the three concurrent activities
  repo,      \* the repository, whose commit it has, and whether main is protected
  k8s,       \* the resources of the team's namespace
  vault,     \* the secret path: "none", "placeholder" or "real"
  row,       \* the catalog's row of that name and which execution created it
  crowded,   \* twenty longer names come first when the catalog lists this one
  faults

vars == <<wf, tasks, repo, k8s, vault, row, crowded, faults>>
outside == <<repo, k8s, vault, row, crowded>>

Steps == {"validate", "render", "repo_check", "repo_post", "push", "push_send", "protect"}
Closed == {"completed", "failed"}
Resources == {"namespace", "quota", "limits"}
Tasks == {"k8s", "vault", "catalog"}
TaskPCs == Resources \cup {"off", "read", "write", "check", "post", "done"}

TypeOK ==
  /\ wf \in [Scaffolds -> [pc : Steps \cup {"gather"} \cup Closed, attempt : 1 .. MaxAttempts,
                           dir : {"fresh", "touched"}, late : {"none", "due", "landed"}]]
  /\ tasks \in [Scaffolds -> [Tasks -> [pc : TaskPCs, attempt : 1 .. MaxAttempts]]]
  /\ repo \in [state : {"none", "empty", "pushed"}, by : Scaffolds \cup {Nobody},
               protected : BOOLEAN]
  /\ k8s \in SUBSET Resources
  /\ vault \in {"none", "placeholder", "real"}
  /\ row \in [state : {"free", "active", "deleted"}, by : Scaffolds \cup {Nobody}]
  /\ crowded \in BOOLEAN
  /\ faults \in 0 .. MaxFaults

\* The name may be that of a service deleted earlier, which keeps its row.
Init ==
  /\ wf = [w \in Scaffolds |-> [pc |-> "validate", attempt |-> 1, dir |-> "fresh", late |-> "none"]]
  /\ tasks = [w \in Scaffolds |-> [t \in Tasks |-> [pc |-> "off", attempt |-> 1]]]
  /\ repo = [state |-> "none", by |-> Nobody, protected |-> FALSE]
  /\ k8s = {} /\ vault = "none"
  /\ \E s \in {"free", "deleted"} : row = [state |-> s, by |-> Nobody]
  /\ crowded \in BOOLEAN
  /\ faults = 0

-----------------------------------------------------------------------------
Fault == faults < MaxFaults /\ faults' = faults + 1

Goto(w, pc) == wf' = [wf EXCEPT ![w].pc = pc]
Proceed(w, pc) == wf' = [wf EXCEPT ![w].pc = pc, ![w].attempt = 1]

Top(pc) == CASE pc = "repo_post" -> "repo_check"
             [] pc = "push_send" -> "push"
             [] OTHER            -> pc

\* A plausible slip: the default policy, which is no limit.
RetryForEver(w) ==
  IF wf[w].pc # "validate" THEN Goto(w, Top(wf[w].pc)) ELSE Goto(w, "failed")

\* The activity again from its top; the validation has one attempt only.
Retry(w) ==
  IF wf[w].attempt < MaxAttempts /\ wf[w].pc # "validate"
  THEN wf' = [wf EXCEPT ![w].pc = Top(wf[w].pc), ![w].attempt = @ + 1]
  ELSE Goto(w, "failed")

\* The worker dies, or a call raises or is answered with an error.
AttemptLost(w) ==
  /\ wf[w].pc \in Steps
  /\ Fault /\ Retry(w)
  /\ UNCHANGED <<tasks, outside>>

\* GET /services?q=name: active services, the first twenty of those that match.
Listed == row.state = "active" /\ ~crowded

Validate(w) ==
  /\ wf[w].pc = "validate"
  /\ IF Listed THEN Goto(w, "failed") ELSE Proceed(w, "render")
  /\ UNCHANGED <<tasks, outside, faults>>

\* Every attempt renders into a directory of its own.
Render(w) ==
  /\ wf[w].pc = "render"
  /\ Proceed(w, "repo_check")
  /\ UNCHANGED <<tasks, outside, faults>>

-----------------------------------------------------------------------------
(* create_github_repo: any answer but 200 counts as "there is none". *)

RepoCheck(w) ==
  /\ wf[w].pc = "repo_check"
  /\ \/ /\ IF repo.state # "none" THEN Proceed(w, "push") ELSE Goto(w, "repo_post")
        /\ UNCHANGED faults
     \/ Fault /\ Goto(w, "repo_post")
  /\ UNCHANGED <<tasks, outside>>

\* 422 for a repository that is there, 403 for a bad token: not to be retried.
\* (A rate limit or a lost answer is: AttemptLost, before or after the effect.)
RepoPost(w) ==
  /\ wf[w].pc = "repo_post"
  /\ \/ /\ repo.state = "none"
        /\ repo' = [repo EXCEPT !.state = "empty"]
        /\ \/ Proceed(w, "push") /\ UNCHANGED faults
           \/ Fault /\ Retry(w)
     \/ /\ repo.state # "none" /\ Goto(w, "failed")
        /\ UNCHANGED <<repo, faults>>
     \/ Fault /\ Goto(w, "failed") /\ UNCHANGED repo
  /\ UNCHANGED <<tasks, k8s, vault, row, crowded>>

-----------------------------------------------------------------------------
(* push_initial_commit: init, remote add, checkout -b, add, commit, push.  *)
(* The remote is there already in a directory an attempt has been in.      *)

PushPrepare(w) ==
  /\ wf[w].pc = "push"
  /\ IF wf[w].dir = "fresh" THEN wf' = [wf EXCEPT ![w].pc = "push_send", ![w].dir = "touched"]
     ELSE Retry(w)
  /\ UNCHANGED <<tasks, outside, faults>>

\* GitHub takes a first commit only: another history is not a fast-forward.
Push(w) == repo' = IF repo.state = "empty" THEN [repo EXCEPT !.state = "pushed", !.by = w]
                   ELSE repo

\* A plausible slip: the return code of the last command is not looked at.
PushSendUnchecked(w) ==
  /\ wf[w].pc = "push_send"
  /\ Push(w) /\ Proceed(w, "protect")
  /\ UNCHANGED <<tasks, k8s, vault, row, crowded, faults>>

\* A push may be lost after its effect.  One that outlasts its activity (six
\* commands of a minute each, in two) and lands later leaves the same behind:
\* the directory is of no use to the attempts in between.
PushSend(w) ==
  /\ wf[w].pc = "push_send"
  /\ Push(w)
  /\ \/ repo.state = "empty" /\ Proceed(w, "protect") /\ UNCHANGED faults
     \/ repo.state # "empty" /\ Retry(w) /\ UNCHANGED faults
     \/ Fault /\ Retry(w)
  /\ UNCHANGED <<tasks, k8s, vault, row, crowded>>

\* configure_branch_protection, and the start of the three concurrent activities.
Protect(w) ==
  /\ wf[w].pc = "protect"
  /\ repo' = [repo EXCEPT !.protected = TRUE]
  /\ Proceed(w, "gather")
  /\ tasks' = [tasks EXCEPT ![w] = [k8s     |-> [pc |-> "namespace", attempt |-> 1],
                                    vault   |-> [pc |-> "read", attempt |-> 1],
                                    catalog |-> [pc |-> "check", attempt |-> 1]]]
  /\ UNCHANGED <<k8s, vault, row, crowded, faults>>

-----------------------------------------------------------------------------
(* The three concurrent activities.  When the workflow fails, attempts that  *)
(* are running go on to their end, but none is retried.                      *)

At(w, t, pc) == tasks[w][t].pc = pc
TaskGoto(w, t, pc) == tasks' = [tasks EXCEPT ![w][t].pc = pc]
TaskTop(t) == CASE t = "k8s" -> "namespace" [] t = "vault" -> "read" [] t = "catalog" -> "check"

\* A plausible slip: attempts are counted and never compared.
TaskRetryUncapped(w, t) ==
  IF wf[w].pc = "gather"
  THEN /\ tasks' = [tasks EXCEPT ![w][t] = [pc |-> TaskTop(t), attempt |-> @.attempt + 1]]
       /\ UNCHANGED wf
  ELSE TaskGoto(w, t, "off") /\ Goto(w, "failed")

\* The last attempt's failure is the first exception gather sees: it fails the
\* workflow at once.
TaskRetry(w, t) ==
  IF wf[w].pc = "gather" /\ tasks[w][t].attempt < MaxAttempts
  THEN /\ tasks' = [tasks EXCEPT ![w][t] = [pc |-> TaskTop(t), attempt |-> @.attempt + 1]]
       /\ UNCHANGED wf
  ELSE TaskGoto(w, t, "off") /\ Goto(w, "failed")

\* A Vault call may take as long as its activity: its write may still arrive.
TaskLost(w, t) ==
  /\ tasks[w][t].pc \notin {"off", "done"}
  /\ Fault
  /\ \/ TaskRetry(w, t)
     \/ /\ At(w, "vault", "write") /\ t = "vault" /\ wf[w].pc = "gather"
        /\ tasks[w][t].attempt < MaxAttempts
        /\ tasks' = [tasks EXCEPT ![w][t] = [pc |-> "read", attempt |-> @.attempt + 1]]
        /\ wf' = [wf EXCEPT ![w].late = "due"]
  /\ UNCHANGED outside

\* Each of the three is created, or is there already.
CreateResource(w, kind, next) ==
  /\ At(w, "k8s", kind)
  /\ k8s' = k8s \cup {kind}
  /\ TaskGoto(w, "k8s", next)
  /\ UNCHANGED <<wf, repo, vault, row, crowded, faults>>

K8sStep(w) == \/ CreateResource(w, "namespace", "quota")
              \/ CreateResource(w, "quota", "limits")
              \/ CreateResource(w, "limits", "done")

\* A plausible slip: no check of the path.
VaultReadNothing(w) ==
  /\ At(w, "vault", "read") /\ TaskGoto(w, "vault", "write")
  /\ UNCHANGED <<wf, outside, faults>>

VaultRead(w) ==
  /\ At(w, "vault", "read")
  /\ TaskGoto(w, "vault", IF vault = "none" THEN "write" ELSE "done")
  /\ UNCHANGED <<wf, outside, faults>>

VaultWrite(w) ==
  /\ At(w, "vault", "write")
  /\ vault' = "placeholder"
  /\ \/ TaskGoto(w, "vault", "done") /\ UNCHANGED <<wf, faults>>
     \/ Fault /\ TaskRetry(w, "vault")
  /\ UNCHANGED <<repo, k8s, row, crowded>>

\* "landed" is history: it stays.
LateVaultWrite(w) ==
  /\ wf[w].late = "due"
  /\ vault' = "placeholder"
  /\ wf' = [wf EXCEPT ![w].late = "landed"]
  /\ UNCHANGED <<tasks, repo, k8s, row, crowded, faults>>

CatalogCheck(w) ==
  /\ At(w, "catalog", "check")
  /\ TaskGoto(w, "catalog", IF Listed THEN "done" ELSE "post")
  /\ UNCHANGED <<wf, outside, faults>>

\* A row of that name, listed or not, is a conflict, and a conflict is retried.
CatalogPost(w) ==
  /\ At(w, "catalog", "post")
  /\ \/ /\ row.state = "free"
        /\ row' = [state |-> "active", by |-> w]
        /\ \/ TaskGoto(w, "catalog", "done") /\ UNCHANGED <<wf, faults>>
           \/ Fault /\ TaskRetry(w, "catalog")
     \/ row.state # "free" /\ TaskRetry(w, "catalog") /\ UNCHANGED <<row, faults>>
  /\ UNCHANGED <<repo, k8s, vault, crowded>>

\* A plausible slip: the registration's answer is all that is awaited.
GatherCatalog(w) ==
  /\ wf[w].pc = "gather" /\ At(w, "catalog", "done")
  /\ Goto(w, "completed")
  /\ UNCHANGED <<tasks, outside, faults>>

Gather(w) ==
  /\ wf[w].pc = "gather" /\ \A t \in Tasks : At(w, t, "done")
  /\ Goto(w, "completed")
  /\ UNCHANGED <<tasks, outside, faults>>

-----------------------------------------------------------------------------
(* External: owners write their secrets, whether a placeholder is there or    *)
(* nothing yet; people register and delete services through the catalog.      *)

OwnerWritesSecrets ==
  /\ vault # "real" /\ vault' = "real"
  /\ UNCHANGED <<wf, tasks, repo, k8s, row, crowded, faults>>

CatalogMoves ==
  /\ \/ row.state = "free" /\ row' = [state |-> "active", by |-> Nobody]
     \/ row.state = "active" /\ row' = [row EXCEPT !.state = "deleted"]
  /\ UNCHANGED <<wf, tasks, repo, k8s, vault, crowded, faults>>

WorkflowStep(w) ==
  \/ Validate(w) \/ Render(w) \/ RepoCheck(w) \/ RepoPost(w)
  \/ PushPrepare(w) \/ PushSend(w) \/ Protect(w) \/ Gather(w)
TaskStep(w) ==
  K8sStep(w) \/ VaultRead(w) \/ VaultWrite(w) \/ CatalogCheck(w) \/ CatalogPost(w)

Next ==
  \/ \E w \in Scaffolds : \/ WorkflowStep(w) \/ TaskStep(w) \/ AttemptLost(w)
                          \/ LateVaultWrite(w)
                          \/ \E t \in Tasks : TaskLost(w, t)
  \/ OwnerWritesSecrets \/ CatalogMoves

\* An attempt goes on or is declared lost.
Spec == /\ Init /\ [][Next]_vars
        /\ \A w \in Scaffolds : WF_vars(WorkflowStep(w)) /\ WF_vars(TaskStep(w))

-----------------------------------------------------------------------------
(* Properties *)

\* A workflow that reports "completed" leaves a whole service behind: its own
\* commit, protected, the team's resources, a secret path, a row.  Hence two
\* scaffolds of one name never both complete.
CompletedIsWhole ==
  \A w \in Scaffolds : wf[w].pc = "completed" =>
    /\ repo = [state |-> "pushed", by |-> w, protected |-> TRUE]
    /\ k8s = Resources /\ vault # "none" /\ row.state # "free"

\* The catalog never lists a scaffolded service whose repository is somebody
\* else's, whatever attempts were retried or came late.
RegisteredOwnsRepo ==
  row.by # Nobody => repo = [state |-> "pushed", by |-> row.by, protected |-> TRUE]

\* The scaffolds of a name keep to the promises of NameClaim: the first commit
\* decides, for good, whose the name is; only that scaffold, with its branch
\* protected, registers the service or reports "completed" (230-281, 381-409, 462-509).
Claim == INSTANCE NameClaim
           WITH owner <- repo.by, sealed <- repo.protected, taken <- row.state # "free",
                registrant <- row.by, completed <- {w \in Scaffolds : wf[w].pc = "completed"}
ClaimKept == Claim!Spec

\* Nobody has found the path empty and is still to write there: neither an attempt
\* between its two calls nor one that has outlived its time-out.
NobodyWrites == \A w \in Scaffolds : ~At(w, "vault", "write") /\ wf[w].late # "due"

\* Secrets an owner has written are lost to a write that was under way at most (the
\* path is read at 366 and written at 372): from when there is none left, they stay,
\* whatever is retried and whichever execution provisions the path again.
SecretsSettle == [](vault = "real" /\ NobodyWrites => [](vault = "real"))

\* Every scaffold completes or fails.
EveryScaffoldEnds == \A w \in Scaffolds : <>(wf[w].pc \in Closed)

\* "Safe to retry at any step": one lost attempt of a scaffold past its
\* validation, alone on a name that is free, does not fail it.
SafeToRetry ==
  \A w \in Scaffolds :
    /\ faults = 1 /\ Scaffolds = {w} /\ wf[w].attempt > 1
    /\ row = [state |-> "free", by |-> Nobody]
    => wf[w].pc # "failed"
=============================================================================
