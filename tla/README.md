# Nerve IDP in TLA+

A formal model of the Nerve internal developer platform: what its services do to
the state they share, checked with TLC on small instances and, for the results that
matter most, proved with TLAPS for every value of the parameters.

Paths below are relative to `src/`; `P2` stands for `nerve-idp-phase2-delta` and `MS` for
`Microservice`.

## 1. The system

The platform is a set of asyncio services (FastAPI, SQLAlchemy in READ COMMITTED), two
Temporal workflows, a Celery worker and a Rego policy, over PostgreSQL (the truth), Redis
(a stream of catalog events, a pub/sub channel of pipeline stages), Neo4j (a copy of the
dependency graph), OPA and Alertmanager.

| component | code | state | operations | talks to |
|---|---|---|---|---|
| Compliance policy | `P2/policies/rego/policy.rego` | none | six checks, score, verdict | asked by the enforcer |
| Gatekeeper admission | `P2/policies/gatekeeper/` | none | admit or deny a pod | reads the annotation the enforcer writes |
| Enforcer, deploy gate | `P2/backend/services/enforcer/app/main.py:130-276`, `core/opa.py` | `deploy_history`, `services.compliance_score` | `submit_deploy`, `evaluate_only` | OPA, PostgreSQL |
| Enforcer, freeze | `enforcer/app/main.py:279-325` | `services.deploy_frozen` | `freeze_service` | Alertmanager, PostgreSQL, Redis |
| Enforcer startup | `enforcer/app/main.py:44-71` | none | `wait_for_opa` | OPA |
| Catalog API | `P2/backend/services/catalog/app/api/v1/routers/services.py` | `services`, `service_dependencies` | register, update, delete, list, get | PostgreSQL, then Redis, then Neo4j |
| Event stream | `catalog/app/core/events.py` | `catalog.events`, its consumer groups | create groups, publish, trim | Redis |
| Graph and reconciliation | `catalog/app/core/neo4j.py` | Neo4j nodes and relationships | four writes, one reconciliation pass | PostgreSQL, Neo4j |
| IaC workflow | `P2/workflows/temporal/iac_workflow.py` | workflow history, `iac_requests`, a Terraform run | plan, store, await a signal, validate, apply | Temporal, Terraform Cloud, gateway, catalog |
| Scaffold workflow | `scaffold_workflow.py` | a repository, a namespace, a Vault path, a catalog row | nine activities, the last three concurrent | Temporal, GitHub, Kubernetes, Vault, catalog |
| Temporal worker | `worker.py` | none | registers workflows and activities | Temporal |
| Pipeline poller | `P2/backend/services/pipeline/app/main.py`, `models/pipeline.py` | `pipeline_runs`, a rate limit budget | poll a round, upsert a run; then, never reached, publish stages, queue DORA | GitHub, catalog, PostgreSQL, Redis, Celery |
| Pipeline websocket | the same file, 228-259 | none | forward stage events | Redis |
| DORA workers | `pipeline/app/workers/dora.py` | one metrics record per service | recompute one, recompute all | PostgreSQL, Celery |
| Gateway | `MS/backend/gateway/app/` | none | startup gate, health, readiness, roles, audit log | OPA, PostgreSQL, Redis |
| Schema, infrastructure, documents | `MS/infra`, `MS/docs` | constraints and routes | | |

### What is hard, and what must hold

* **Policy.** Rego bodies may overlap or leave a gap, a score is a sum of rounded halves
  compared with 80, and a second program (Gatekeeper) holds the same threshold. At most one
  result per check and input; a verdict that can be said in terms of checks; agreement of
  the two layers; no improvement may turn a pass into a failure.
* **Deploy gate.** `deploy_frozen` is read before an await of up to ten seconds and not read
  again; deploys of one service overlap; OPA may be down, slow or without a policy. It must
  fail closed, and the row written to the history and the score of the service must be of
  the same deploy.
* **Freeze.** Several alert groups fire for one service, each notification is repeated and
  retried, the event is published *before* the commit, and deploys hold the row. The freeze
  must take effect once, be announced once, and happen at all.
* **Catalog.** Three stores written one after the other, best effort after the first; two
  registrations of one name; an update that loaded its row before a delete of it; a pod
  that dies in between. PostgreSQL must stay consistent, and the stream and the graph may
  lag behind it but never run ahead.
* **Reconciliation.** The pass works from snapshots it took earlier while handlers commit,
  and may itself lose writes or die. The graph must end up right.
* **IaC workflow.** Activities run at least once, signals come at any time and in any
  number, the wait ends after seven days. Nothing may be applied without a valid approval,
  a rejection must be visible, the apply must take effect once.
* **Scaffold workflow.** Retries of steps that are not repeatable, three concurrent
  activities of which one may fail, two scaffolds of one name. What is left behind must be
  adoptable by a retry or cleaned up.
* **Pipeline.** A round ends with the first exception, and GitHub's times are text where the
  table takes a timestamp, so that every upsert is one; the budget is looked at once per service,
  hidden by a lost answer and forgotten by a restart. The polling must go on, the quota must not be
  used up, and a run that ends must be stored (which it is not).
* **DORA.** Two counts, a look for the record and a write, concurrently for one service, by
  tasks that are lost, delivered again and retried. The stored record must end up that of the
  latest history.
* **Startup.** A bounded wait that must end in serving with OPA or in not serving.

`PROJECT.json` lists each hazard at the line where it bites, with the properties that would
catch it, or what is planned for it.

## 2. The modules

| module | models | composed with |
|---|---|---|
| `Policy` | policy.rego and the admission constraint, as operators | |
| `PolicyDrift` | a service's signals changing one at a time | extends `Policy` |
| `DeployGate` | what the enforcer promises of deploys (abstract) | |
| `Enforcer` | deploy gate, freeze, Alertmanager, override, soft delete | extends `Policy`: the verdicts are the policy's; implements `DeployGate` |
| `Registry` | what the catalog promises of names, stream and graph (abstract) | |
| `Catalog` | register, update, delete over three stores | |
| `Reconciler` | the reconciliation pass beside the catalog | extends `Catalog`; implements `Registry` |
| `ApprovalGate` | what an infrastructure request promises (abstract) | |
| `IacWorkflow` | IaCApplyWorkflow, its activities and signals, Terraform | implements `ApprovalGate` |
| `NameClaim` | what a repository is to the scaffolds of its name (abstract) | |
| `ScaffoldWorkflow` | ScaffoldWorkflow for one name, several executions | implements `NameClaim` |
| `Pipeline` | the poller, the runs it looks at and the quota it shares | |
| `Dora` | the recomputation tasks of several workers beside a moving deploy history | |
| `PolicyLemmas` | what the policy's operators return | extends `Policy` |
| `PolicyProofs`, `EnforcerProofs`, `ReconcilerProofs`, `IacProofs`, `ScaffoldProofs`, `PipelineProofs`, `DoraProofs` | theorems | extend the specifications, the first two `PolicyLemmas` |
| `MCPolicyDrift`, `MCEnforcer`, `MCReconciler`, `MCIacWorkflow`, `MCScaffoldWorkflow`, `MCPipeline`, `MCDora` | values of the constants for TLC | |

**How code becomes actions.** A handler is a record with a `pc`; an action is the code
between two awaits that other handlers can tell apart. A query that only reads is one action,
the writes of a transaction take the row lock they need in one action, and its commit, which
makes them visible to all, is another. What a transaction wrote before its commit is in the
handler's record (the verdict, for instance), never in the committed state. Steps that nobody
can tell apart are merged: the `refresh` after a commit with the publication after it.

**Policy.** A Rego rule with several bodies is the *set* of results its bodies produce, so
that a gap (empty) and a conflict (two results) are things the model can show. `checks` is
undefined as soon as one of six is, and `score` and `passed` with it, which the enforcer reads
as 0 and false (`opa.py:161-162`). `round(w * 0.5)` is `Half`, away from zero as OPA rounds:
8 for a weight of 15. Each body words its own `detail`, so two bodies with the same status still
conflict in Rego: `Fail` takes a name for the text, and each body is a set of its own (`Body`).

**Enforcer.** `services` and `history` are what is committed; `rowLock` is the lock an UPDATE
keeps until its transaction ends. `SubmitDeploy` is the SELECT and its two early returns,
`EvaluateDeploy` and `OpaFails` the end of the OPA call, `WriteDeploy` the inserts and the
UPDATE of the score (which waits for the row), `CommitDeploy` the commit and the answer.
`FreezeUpdate` is `UPDATE ... WHERE ... RETURNING`: under READ COMMITTED a row that does not
match as committed is skipped at once, one that does is waited for and looked at again.
`FreezePublish` comes before `FreezeCommit`, as in the code. `AbortDeploy` and `FreezeAbort`
are a transaction that dies (an error, a killed pod): its changes and its lock go.
`freezeCount` is a history variable: how often a service went from unfrozen to frozen.

**Catalog.** A service is identified with its name, which the UNIQUE constraint justifies
(deleted rows keep their name; `RegisterNeverOverwrites` checks it in the model). `pending`
is an INSERT that is not committed, which makes a second one wait. Of the fields only
`health_status` is kept, the one that changes and that the graph copies. A dependency may be
declared and withdrawn at any time between any two rows (`DeclareDependency`,
`WithdrawDependency`, then `SyncDependency`): nothing in the repository keeps the graph of
dependencies free of cycles, and the model does not either.

**Reconciler.** `job` holds the snapshots and work lists of the pass in progress, and each
repair is an action of its own, so that any handler's step fits between two.

**The workflows.** Temporal runs an activity at least once: an attempt ends, fails or is lost
at any point (`AttemptLost`, `TaskLost`; a lost answer is an effect followed by that), and
`Retry` starts the activity again from its top, up to the policy's number of attempts, or
without limit for the two activities that are given no policy. The attempts of one activity
do not overlap, because the calls that write time out well before the activity does. Two
outlast it: a push (six commands of a minute in an activity of two), which leaves what a push
whose answer was lost leaves, and a Vault write, which is `LateVaultWrite`.

**IacWorkflow.** `wf` is the record of one execution (requests share no state); `approver #
Null` stands for `_approved`, `judged` is the argument of the validation, which later signals
do not change. `run[k]` is the Terraform run that attempt `k` of `generate_iac_plan` created:
attempts that are lost leave theirs behind. `Patch` is `store_iac_plan_output`, which ignores
the status it is given and the answer it gets. `GateOf`, `ApprovedBy` and `Infra` map a state
to `ApprovalGate`.

**ScaffoldWorkflow.** All executions are of one name and one team, the case in which they
meet. `wf[w].dir` says whether an attempt of the push has been in the rendered directory,
`tasks[w]` are the three concurrent activities, which go on to the end of their attempt when
`asyncio.gather` has already failed the workflow. `Listed` is what the name checks see: active
rows, on the first page only (`crowded` is a catalog with twenty longer names before it). The owner
may write the secrets whenever they are not there yet, also between an attempt's look at an empty
path and its write (`scaffold_workflow.py:366-372`), which then overwrites them.

**Pipeline.** `run` is GitHub's status of the latest run of a service, which starts, ends and may be
run again under the same id; `budget` is what is left of the token's quota, which the scaffold
workflow spends too (`OthersSpend`). `poller` is the place of the one polling loop in its round: the
services it has not asked about (`todo`) and the run in hand with the status GitHub gave it
(`seen`). `PollService` is `_wait_if_rate_limited` and the request for the latest runs,
`FetchStages` the request for the jobs of the first of them, `StoreRun` the upsert and its commit.
`Row` holds what the code puts in it: the `created_at` of GitHub's JSON, a text (`main.py:147`). The
column is `DateTime(timezone=True)` (`models/pipeline.py:24`), and asyncpg, which encodes the
parameter, takes a `datetime` or nothing (`Takes`). So the commit raises for every run, the `except`
of `run_poller` ends the round (`RoundEnds`), and what comes after the commit in `_process_run` is
reached by no run: the other runs of the service, the stage events and the request for a
recomputation are not in the model. A request is refused at once when the quota is used up, is
refused or fails as a fault. `mustWait` is what the headers last read say about the buffer, until
the window ends: the clocks of GitHub and of the poller are taken to agree. `dug` is a history
variable that counts the requests made below the buffer.

**Dora.** `deploy` and `old` are the production deploys and which of them have left the window
of thirty days; others write them. `task[t]` is a task in the queue or in a worker, from its two
counts (`CountSucceeded` fixes the window, `CountFailed` is a second query) over the look for the
record to the write. `Retry` is `self.retry`, `WorkerLost` a worker that dies: the task is
delivered again (`acks_late`) or is given up, both of which the broker's settings permit. Of the
record only the two counts are kept, from which the frequency and the failure rate are computed;
lead time, tiers and the daily counts are functions of the same reads.

**The abstract specifications.** Each says what a component promises to who only sees its
committed state, without handlers, locks, attempts or faults, and each is checked as a property of
the detailed specification under a refinement mapping:

* `DeployGate` in `Enforcer` (`Gate`): a request is inside while its handler has passed the freeze
  check and has not answered; frozen and gone services, rows and scores are the committed ones. A
  request enters an open service only, is answered once, and leaves nothing or one row together
  with the score of its service. That it may be decided after a freeze has committed is allowed:
  this is what the code does (`frozen_queue`).
* `Registry` in `Reconciler` (`Registered`): a name is free, active or deleted, in that order and
  never back; dependencies, at registration or later, join names that are taken; an event is of a
  state PostgreSQL holds, a node is of a name that is not free.
* `NameClaim` in `ScaffoldWorkflow` (`Claim`): the owner is who made the first commit of the
  repository. Only the owner, with the branch protected, registers the name or completes.
* `ApprovalGate` in `IacWorkflow` (`Gate`), described there.

**The composition.** The poller's `send_task` (`main.py:165`) is all that asks the DORA workers for
anything, and it comes after the commit that raises: as the code stands nobody asks. `Dora` is
therefore a module by itself, of tasks somebody asks for; its `RecordCatchesUp` says what holds of a
service that is asked about again and again, a premise the poller does not meet.

**External parts.** These are not in the repository and are modelled from how the code uses them,
marked `external` or mapped to the configuration that describes them: the unfreeze endpoint (API
contract only); the dependencies router, of which only the two graph functions are there
(`neo4j.py:106-135`: a POST and a DELETE that change the row, then the graph); Alertmanager's
delivery, together with the gateway route it posts to and the enforcer's `app.core.events`; the
Celery beat that starts the pass; Terraform, GitHub and the Temporal server.

## 3. The runs

| run | question | result |
|---|---|---|
| `policy` | is the policy well defined, and does its threshold mean what it seems to? | holds, 15 552 states |
| `enforcer` | gate, score, freeze and event under overlap, outages and dying transactions | holds, 129 778 states |
| `frozen_queue` | is a deploy of a frozen service never queued? | **no** |
| `graph` | PostgreSQL, stream and graph under overlap and failures | holds, 468 945 states |
| `graph_health` | does reconciliation repair a lost health status? | **no** |
| `iac` | is an infrastructure request decided and applied as promised? | holds, 35 552 states |
| `iac_rejection` | is a rejected request stored as rejected? | **no** |
| `scaffold` | what do two scaffolds of one name leave behind? | holds, 420 546 states |
| `scaffold_retry` | is a scaffold safe to retry at any step? | **no** |
| `poller` | does the polling go on within the quota, whatever is lost? | holds, 5 322 states |
| `poller_stores` | is a run that has ended stored? | **no** |
| `dora` | do overlapping recomputations leave the right record? | holds, 524 081 states |

### Passing runs

* `policy`. `RulesExclusive`: no input makes two bodies of a check hold, two that both fail it
  included (their texts differ, and OPA would answer with an error).
  `PassesIffAtMostOneCheckDown`: 80 points mean no critical CVE, and no failed check or
  exactly one without any warning beside it (two warnings alone pass).
  `AdmittedIfPassed`: the two layers agree. `ImprovementKeepsPassing`: getting better on one
  signal never turns a pass into a failure (among inputs that have a score at all).
* `enforcer`. `QueuedOnlyAboveThreshold`: fails closed. `ScoreFollowsHistory`: the score shown
  is that of the deploy committed last, also when deploys overlap, because one transaction
  writes both and the row lock orders them. `GateKept` and
  `FreezeDrains`: what does hold about a freeze and the deploys that raced it: the handlers
  implement `DeployGate`, so nobody gets in while the service is frozen and every decision is one
  row and its score; and those in flight run out. `SurplusEventsNeedFaults`: duplicate events need
  dead transactions, never mere concurrency. `AlertFreezes`: a firing alert ends in a freeze
  (or the service is gone). Deadlock is checked: an alert that repeats always can.
* `graph`. `RegistryKept`: the three stores implement `Registry`, so a deleted name never comes
  back, not even by an update that had loaded it before. `RegisterNeverOverwrites`:
  a name has one row. `EventsFollowCommits` and `NodesAreRegistered`: stream and graph never run
  ahead. `GraphConverges`: once calls and failures stop, the graph has the catalog's nodes and edges
  for good, also when a dependency was declared, withdrawn and declared again meanwhile.
* `iac`. `GateKept`: the workflow implements `ApprovalGate`: decided once, by somebody who held
  the role when it was checked; the infrastructure starts to change only while approved, and
  once; "applied" is the truth. (A request that *failed* may still change it, when the apply was
  under way: the abstract `EndChange` allows that and nothing more.) `OnlyItsPlanApplied`:
  of all the runs the attempts left, the one the workflow holds is applied and no other; the
  row shows that one, or none. None only if an answer was an error: `store_iac_plan_output` does
  not look at it, and the request is put to the approver and applied with no plan to read. `EarlyRejectionHolds`: a
  rejection beside or before an approval wins. `EveryRequestEnds`: without any help from
  Terraform or the people asked.
* `scaffold`. `CompletedIsWhole`: a completed scaffold has its own commit, protected, its
  resources, a secret path and a row; so two of one name never both complete.
  `ClaimKept`: the scaffolds implement `NameClaim`: the catalog lists no scaffolded service over
  somebody else's repository, and whose it is never changes.
  `SecretsSettle`: the secrets an owner wrote are lost to a write that was already under way at
  most, of an attempt between its look and its write or of one that outlived its time-out; from when
  there is none they stay, through every retry and every other execution. `EveryScaffoldEnds`. Deadlock is not checked: when
  all executions have ended and the name is deleted, the system stops.
* `poller`. `DigsLittle`: the look at the quota once per service costs at most one request below
  the buffer, and two more for each lost answer, restart or request of the scaffold workflow.
  `PollingGoesOn`: no lost round, restart, refused request or pause stops the polling of a service
  before which no other has a run. (One that has a run ends the round; see `poller_stores`.) Deadlock
  is checked: the loop and the quota's window go on for ever.
* `dora`. `DoubleCountNeedsRollBack`: the two queries can count one deploy twice, and it takes a
  roll-back between them. `RaceLosesNoTask`: two first tasks race to insert the record; the loser's
  retry writes, and without a fault no task ends before it has written. `RecordCatchesUp`: an older
  result may be stored last, but does not stay. Deadlock is checked: when the history rests, somebody
  can ask or a worker can work.

### Violations: where the code and its own words differ

1. `frozen_queue`: "Check deploy_frozen flag - return 423 if frozen" (`enforcer/app/main.py:7`).
   The flag is read before the policy evaluation only; a freeze that commits meanwhile does
   not stop the deploy from being queued.
2. `graph_health`: "reconciliation job will catch the drift" (`neo4j.py:85`). The job compares
   ids only, so a lost write of a health status is never made up for.
3. `iac_rejection`: the contract has a status "rejected" (`init.sql:419`, `openapi.yaml:2078`) and
   the workflow passes it (`iac_workflow.py:262`); `store_iac_plan_output` always writes "pending".
4. `scaffold_retry`: "the workflow is safe to retry at any step" (`scaffold_workflow.py:19`). A push
   that fails once has left its remote and branch in the directory, so every retry fails.
5. `poller_stores`: "Store pipeline run history in PostgreSQL (used by DORA engine)"
   (`pipeline/app/main.py:6`). The upsert hands GitHub's times over as text (147-148) for columns
   that take a timestamp (`models/pipeline.py:24-25`); asyncpg refuses it, so every commit raises, no
   run is stored, and the services after the first one with a run are not polled.

Differences seen while reading that no run is spent on: "Each check returns: {status, score,
detail, fix_url}" (`policy.rego:24`), but `check_runbook` has no body for a runbook without one of the two
dates, as for a service that was never deployed: no result, hence no score, and the enforcer blocks
with score 0 (the theorem `OnlyGap` says that there is no other such input); the half score of 15 is 8 and
`policy_test.rego:169` expects 7; ADR-003 gives a deploy with a critical CVE the score 0, the
policy only withholds `passed`; a frozen deploy is answered 202 where a test expects 200 and
the module's text says 423; `freeze_service` answers "already frozen" for a service that is
deleted or does not exist; no compensating activity runs when a scaffold fails and nothing sets
its job to "failed" (`scaffold_workflow.py:31-35`); the name of a deleted service passes the
scaffold's validation and always conflicts at its registration; the seven day time-out fails an
infrastructure request where a comment says it rejects it (`iac_workflow.py:253`), a Pulumi request
always fails, a plan that could not be stored is put to the approver all the same, and steps 6 to 9
and the quota check of that module's text do not exist; "only the first call succeeds and publishes
the freeze event" (`enforcer/app/main.py:291`) stands on no transaction dying between the two, which
`OneEventPerFreezeWithoutFaults` makes precise; the drift "found and corrected" (`neo4j.py:238`)
includes dependencies of deleted services, whose edge no pass can create.

In the pipeline: nothing in the repository starts `run_poller`, which its text says runs on startup;
stage events would go out "on every stage status change" (`main.py:234`) only while the run is
running, so its last stages would never be published; the polling every five seconds of an active run
(`main.py:54-56`) is not there; a refused request for the jobs overwrites the stages with an empty
list; a run pushed out of the latest five keeps the status it had; services after the first page
of a hundred are never polled. In the DORA worker: the hourly task that recomputes all services has
no schedule, and what it queues goes to a queue the worker does not read (`--queues=dora`), so
nothing but the poller would ask for a recomputation; the subscription of `dora.py:35` does not exist;
the time to restore is a constant; a service whose deploys all failed has a failure rate of zero,
because the rate divides by the successes; the lead time joins every run with every deploy of the
service. Some files would not import as they are (`asyncio` missing in the
gateway, a column that shadows `relationship` in `models.py`, `pool_class` in `database.py`);
the model is of what the code says it does once it loads.

### Bounds, and why they are enough

* `policy`: two timestamps give every order of a runbook edit and a deploy; the counts 0, 3
  and 4 are the two sides of every threshold. The theorems remove the bound.
* `enforcer`: one service (the handlers of two touch no common row), two deploys (to overlap
  each other), two alert groups (to race for the row), `MaxFaults = 2` (one transaction that
  dies after its event, one lost answer), `MaxUnfreezes = 1` (freeze, lift, freeze again). The
  input is the one `build_opa_input` assembles today, plus OPA without a policy: a verdict
  that passes and two that do not, up to the points.
* `graph`: two services, two calls, each of which may also declare or withdraw a dependency,
  `MaxFaults = 1`, a platform that starts with none, one or
  both of them, two health values. Two registrations of a name, an update against a delete,
  and any call against any point of a pass all fit; a third call would only repeat a pair.

* `iac`: two users (one approves who may not, or after another), two attempts, two faults: a lost
  attempt that leaves its run behind and an error nobody looks at. The theorems remove the bound.
* `scaffold`: two executions of one name, two attempts, two faults; `scaffold_retry` has one
  execution, the code's five attempts and one fault.
* `poller`, `poller_stores`: two services, either of which may have runs, so that the first one's
  end the round before the second; a window of seven requests of which the last five are the buffer,
  as many as two faults let the poller make there; two faults. The theorems remove the bound.
* `dora`: one service (tasks of two touch no common row), two deploys, two tasks at a time on two
  workers, one retry and one fault. Tasks are asked for without end.

A bound is a guard of the action it bounds (`faults < MaxFaults`, `unfreezes < MaxUnfreezes`, `attempt < MaxAttempts`);
nothing else is cut, no state constraint and no symmetry is used.

### Fairness

* `WF(DeployStep(r))`, `WF(FreezeStep(a))`, `WF(CallStep(c))`: a handler that has started goes
  on. Each of its awaits returns or times out (OPA after 10 s, Redis after 5 s), and a row
  lock is given up when its holder's transaction ends. `FreezeStep` includes the first step
  of a notification that is due: Alertmanager delivers it.
* `WF(JobStep)`: Celery beat starts a pass every five minutes (`neo4j.py:143`) and a pass goes on.
* `WF(WorkflowStep)`, `WF(TaskStep)`: Temporal runs an attempt to its end or its time-out, and fires
  its timers. Nothing is assumed of Terraform, GitHub, owners or the people who signal: polls and
  the wait for an approval run out by themselves.
* `WF(PollerSteps)`: the polling loop never ends and awaits only requests with time-outs.
  `WF(QuotaResets)`: GitHub's window ends. Nothing is assumed of runs or restarts.
* `WF(Work(t))` for each task: a worker takes the tasks that wait and goes on with what it has.
  Not assumed: that anybody asks. That is `RecordCatchesUp`'s premise.
* Nothing is assumed about callers, alerts, overrides or failures: no fairness on
  `SubmitDeploy`, `AlertFires`, `AlertRepeats`, `Unfreeze`, `DeleteService`, `RegisterCheck`,
  `LoadRow`, `DeclareDependency`, `WithdrawDependency`, or on any action that dies. A freeze that waits for a locked
  row needs weak fairness only, because a holder cannot take the lock for ever: requests are
  finite in number, each takes it once.

## 4. What is proved

For every set of services, requests, alert groups, names, timestamps and inputs and every
bound, from the assumptions on the constants alone (`TimeAssumption`, `CountsAssumption`,
`ConstantsAssumption`, `CatalogAssumption`, `AttemptsAssumption`, `NullAssumption`,
`NobodyAssumption`, `PipelineAssumption`, `DoraAssumption`):

* `PolicyProofs!RulesExclusiveHolds`, `PassesIffAtMostOneCheckDownHolds`,
  `AdmittedIfPassedHolds`. The invariant is `TypeOK` (what the probes report is an input
  document); the rest is about one document. `BodiesExclusive` goes through the six checks;
  `StatusGivesScore` ties a check's points to its status, and `ScoreByStatus` does the
  arithmetic of the threshold.
* `PolicyProofs!ImprovementKeepsPassingHolds`, for every count and pair of timestamps, not only the
  two sides of each threshold. `PointsOf` reads a check's points off the one body that matches;
  signal by signal a better document keeps or raises each check's points, and `BetterScoresMore`
  adds the six up. `OnlyGap` says which documents the premise leaves out: exactly those with a
  runbook and one of the two dates missing.
* `EnforcerProofs!TypeCorrect`. `TypeOK` alone is not inductive: a handler past its first
  step must also have a service (`Bound`).
* `EnforcerProofs!QueuedOnlyAboveThresholdHolds`. Inductive with `VerdictSound`, the verdict
  a handler carries being one of OPA's (`OpaAnswersSound`, from the policy's lemmas).
* `EnforcerProofs!ScoreFollowsHistoryHolds`. Inductive with the type invariant: one commit appends
  the row and writes its score (`AppendIndices`), and no other step writes either.
* `EnforcerProofs!GateKeptHolds`, the refinement. The invariant `KeepInv` adds to the type invariant
  what a step of the gate asks for: the verdict about to be written is OPA's (`VerdictSound`), a
  freeze between its UPDATE and its commit holds the row and found it unfrozen (`HoldsRow`), and
  its service is not deleted meanwhile (`FreezesLive`: the deletion waits for the row). Then a
  step of a request is `Enter`, `Refuse`, `Drop` or `Decide` (`RequestMoves`, `DeployGates`), and a step on
  the flags of a service freezes, lifts or deletes, or is a stutter.
* `EnforcerProofs!InFlightOnlyShrinks`, an action property, from the type invariant: the gate's
  promise said of two states.
* `EnforcerProofs!SurplusEventsNeedFaultsHolds`. Inductive with `HoldsRow`: a freeze between
  its UPDATE and its commit holds the row, and got it unfrozen. Hence at most one freeze of a
  service is in its transaction (`LockedByOne`), its commit is a freeze, and each event is
  paid for by that commit or by a fault (`NextSurplus`, one step per action).
* `EnforcerProofs!OneEventPerFreezeWithoutFaults`. With no dying transaction the docstring of
  `freeze_service` does hold: the order of publication and commit is all that breaks it.

* `IacProofs!TypeCorrect`, `OnlyItsPlanAppliedHolds`. Inductive with: the plan is known from its
  storing on (`PlanKnown`), nothing is touched before the validation (`UntouchedBefore`), only the
  plan's run is ever (`TouchesPlan`, `ShowsPlan`), "applied" is true (`AppliedIsTrue`), and without
  a fault the row shows the plan from its storing on (`ShownUnlessFault`).
* `IacProofs!GateKeptHolds`, the refinement. `PlaceShown` says what the gate shows at each place,
  `InfraShown` that the plan's run alone decides what is changing (by `TouchesPlan`); then one
  lemma per group of actions names the gate's step, or shows there is none.

* `ReconcilerProofs`: `TypeCorrect`, `EventsFollowCommitsHolds`, `NodesAreRegisteredHolds`,
  `RegisterNeverOverwritesHolds`,
  `DeletedIsFinalHolds` and the refinement `RegistryKeptHolds`, for the catalog *with* the pass beside it. One inductive invariant carries
  them: what a handler or the pass remembers is about rows that exist (`CallsKnow`, `JobKnows`), an
  uncommitted insert is of a name without a row (`PendingIsNew`), dependencies join rows
  (`DepsHaveRows`). For the refinement each group of steps has a lemma: a commit is
  `Register`, `Delete` or a stutter (`RegisterCommitKept`, `RowCommitKept`), a publication an
  `Announce` (`PublishKept`), a write of the graph one of `Show`, `Hide`, `LinkUp` and `Undo`
  (`GraphWriteKept`, used for the handlers and for the pass).
* `ScaffoldProofs`: `TypeCorrect`, `CompletedIsWholeHolds`, `OneCompletes`, `RegisteredOwnsRepoHolds`,
  `SecretsSettleHolds` and the refinement `ClaimKeptHolds`.
  The invariant `Fits` says what an execution has left outside, by where it is: from the push on the
  commit is its own, from the protection on the repository is (`Owned`), each task has made or found
  what its place implies (`Earned`). No step ever takes anything of that back (`Grows`), whoever
  makes it, so every *other* execution keeps fitting (`FitsKept`), and one lemma per action shows
  that the one that moves does. For the secrets `Settled` (they are there, and no write is
  under way) is kept by every step: a task that looks now finds something and does not write, and
  one becomes late only from its write (`StepSecrets`). For the claim one
  more fact is needed: a repository is nobody's and unprotected until something is pushed (`ClaimInv`).
* `PipelineProofs`: `TypeCorrect`, `DigsLittleHolds`. `DigsLittle` is not inductive: `DigOK` says
  that the requests below the buffer and the one the run in hand still takes (`ToFetch`) stay within
  one and two per fault, and that a poller below the buffer that does not know it must wait has two
  of these left. `AllowanceKept` is the arithmetic, once for all steps.
* `DoraProofs`: `TypeCorrect`, `DoubleCountHolds`, `RaceLosesNoTaskHolds`. The first count is of
  deploys that had succeeded, all of which still have or are rolled back; the sum follows from the
  cardinalities of the two sets and of what they share. Without a fault a task has at most one
  retry behind it, since a record once there stays.

Only model-checked: the liveness properties (`AlertFreezes`, `FreezeDrains`, `GraphConverges`,
`EarlyRejectionHolds`, `EveryRequestEnds`, `EveryScaffoldEnds`, `PollingGoesOn`, `RecordCatchesUp`), which are out of the prover's reach under fairness, as is
ENABLED. Every invariant, action property and refinement that a passing run checks is also a
theorem. No module declares a RECURSIVE operator, and nothing is proved by induction over data.

## 5. What is not modelled

* `evaluate_only`, `list_services`, `get_service`: they change nothing.
* What `_process_run` does after its commit (stage events, the request for a recomputation) and the
  web socket that forwards the events: nothing reaches them.
* A Vault write of the *last* attempt that outlives its time-out (`LateVaultWrite` is of the earlier
  ones; `SecretsSettle` would have to wait for it as well), and an apply POST that does.
* The startup gates (`wait_for_opa`, the gateway's): a loop of at most thirty attempts before
  anything is served, beside which nothing runs. Its two ends follow from its shape.
* Consumer groups of the event stream and its trimming: they bear on consumers, and none is in the
  repository.
* Lead time, tiers and daily counts of DORA, and `compute_all_services_dora`: the first are functions
  of what a task reads; the second queues tasks that no worker reads.
* Worker registration, token decoding, the role table, audit logging and configuration: they have no
  state of their own to get wrong.
* The routers and models the code imports and the repository does not hold (SLO, changelog,
  dependencies, error budget, deploy history, the DORA record): only what the code in `src/` does to
  them. That a service has one DORA record is such an assumption.
* Isolation finer than READ COMMITTED row locks: foreign key share locks and connection pool
  exhaustion.

## 6. Plan

1. The safety halves of what is only model-checked: a request rejected before its decision is never
   validated (`EarlyRejectionHolds`), and the ranks that go down until `FreezeDrains` and
   `EveryRequestEnds` end, as action properties.
2. An abstract specification for `Dora`: a record is the counts of some moment since its task began.
3. `EventStream`, once a consumer of `catalog.events` is written; the unfreeze endpoint and the
   dependencies router as code instead of external actions, once they are.
4. The rest of `_process_run`, with runs that GitHub runs again under the same id, once the upsert
   converts the times: the row against the run, the stages read after the status, the stage events
   and the request that `Dora` assumes.

## 7. Running it

    tlc -workers 2 -config MCEnforcer.cfg MCEnforcer
    tlapm EnforcerProofs.tla
