------------------------------ MODULE Enforcer ------------------------------
(***************************************************************************)
(* The golden path enforcer: the deploy gate (submit_deploy) and the       *)
(* error-budget freeze (freeze_service), both over the services table.     *)
(*                                                                         *)
(* Each handler is an async function that runs in one READ COMMITTED       *)
(* transaction and gives way to every other handler at each await.  A step *)
(* below is the code between two awaits that other handlers can tell       *)
(* apart; `services` and `history` hold what is COMMITTED, and `rowLock`   *)
(* the row lock an UPDATE of a service keeps until its transaction ends.   *)
(*                                                                         *)
(* A transaction may die at any point (a database error, a killed pod):    *)
(* its changes and its lock go, the caller sees a 5xx.  MaxFaults bounds   *)
(* how many do.  A pod crash is the abort of each transaction in flight.   *)
(***************************************************************************)
EXTENDS Policy, Sequences

CONSTANTS Services,      \* service ids
          Requests,      \* POST /internal/deploy calls
          Alerts,        \* alert groups, each notified to POST /internal/freeze
          Inputs,        \* the documents build_opa_input may assemble
          MaxFaults,     \* bound: transactions that die
          MaxUnfreezes   \* bound: SRE overrides

ASSUME ConstantsAssumption ==
  /\ Inputs \subseteq Signals
  /\ MaxFaults \in Nat /\ MaxUnfreezes \in Nat
  /\ Requests \cap Alerts = {}
  /\ Null \notin Requests \cup Alerts \cup Services

VARIABLES
  services,   \* the committed row of each service
  history,    \* committed deploy_history rows, in commit order
  rowLock,    \* the transaction that holds the service's row lock, or Null
  deploys,    \* the submit_deploy calls
  freezes,    \* the notifications of each alert group
  events,     \* service.deploy_frozen entries in catalog.events, per service
  freezeCount,\* how often each service went from unfrozen to frozen
  unfreezes,  \* overrides so far
  faults      \* dead transactions so far

vars == <<services, history, rowLock, deploys, freezes, events, freezeCount,
          unfreezes, faults>>

-----------------------------------------------------------------------------
(* What evaluate_compliance returns.  `result` is absent from OPA's answer  *)
(* while no policy is loaded: score and passed then take their defaults.    *)
Verdict == [score : Nat, passed : BOOLEAN]

Evaluation(input) ==
  [score  |-> IF ChecksDefined(input) THEN Score(input) ELSE 0,
   passed |-> Passed(input)]

NoPolicyLoaded == [score |-> 0, passed |-> FALSE]

OpaAnswers == {Evaluation(input) : input \in Inputs} \cup {NoPolicyLoaded}

DeployIdle == [pc |-> "idle", service |-> Null, verdict |-> NoPolicyLoaded]
AlertQuiet == [pc |-> "quiet", service |-> Null]

InHandler  == {"evaluating", "writing", "committing"}
DeployDone == {"not_found", "frozen", "error", "blocked", "queued"}

InFlight(s) == {r \in Requests : deploys[r].service = s /\ deploys[r].pc \in InHandler}

Active(s) == ~services[s].deleted

Init ==
  /\ services = [s \in Services |-> [frozen |-> FALSE, deleted |-> FALSE, score |-> 0]]
  /\ history = <<>>
  /\ rowLock = [s \in Services |-> Null]
  /\ deploys = [r \in Requests |-> DeployIdle]
  /\ freezes = [a \in Alerts |-> AlertQuiet]
  /\ events = [s \in Services |-> 0]
  /\ freezeCount = [s \in Services |-> 0]
  /\ unfreezes = 0
  /\ faults = 0

-----------------------------------------------------------------------------
(* submit_deploy.                                                          *)

\* A plausible slip: the early return on service.deploy_frozen forgotten.
SubmitDeployUnchecked(r) ==
  /\ deploys[r].pc = "idle"
  /\ \E s \in Services :
       deploys' = [deploys EXCEPT ![r] =
                     [@ EXCEPT !.service = s,
                               !.pc = IF Active(s) THEN "evaluating" ELSE "not_found"]]
  /\ UNCHANGED <<services, history, rowLock, freezes, events, freezeCount, unfreezes, faults>>

\* The SELECT: 404 for a missing or deleted service, the frozen answer for a
\* frozen one, else on to the policy evaluation.
SubmitDeploy(r) ==
  /\ deploys[r].pc = "idle"
  /\ \E s \in Services :
       deploys' = [deploys EXCEPT ![r] =
                     [@ EXCEPT !.service = s,
                               !.pc = IF ~Active(s) THEN "not_found"
                                      ELSE IF services[s].frozen THEN "frozen"
                                      ELSE "evaluating"]]
  /\ UNCHANGED <<services, history, rowLock, freezes, events, freezeCount, unfreezes, faults>>

\* OPA answers.
EvaluateDeploy(r) ==
  /\ deploys[r].pc = "evaluating"
  /\ \E v \in OpaAnswers :
       deploys' = [deploys EXCEPT ![r].pc = "writing", ![r].verdict = v]
  /\ UNCHANGED <<services, history, rowLock, freezes, events, freezeCount, unfreezes, faults>>

\* A plausible slip: failing open, the deploy goes on with a passing verdict.
OpaFailsOpen(r) ==
  /\ deploys[r].pc = "evaluating"
  /\ deploys' = [deploys EXCEPT ![r].pc = "writing",
                                ![r].verdict = [score |-> 0, passed |-> TRUE]]
  /\ UNCHANGED <<services, history, rowLock, freezes, events, freezeCount, unfreezes, faults>>

\* A timeout, an HTTP error or a refused connection: RuntimeError (or the
\* ConnectError itself) ends the request before anything is written.
OpaFails(r) ==
  /\ deploys[r].pc = "evaluating"
  /\ deploys' = [deploys EXCEPT ![r].pc = "error"]
  /\ UNCHANGED <<services, history, rowLock, freezes, events, freezeCount, unfreezes, faults>>

\* The INSERTs, then the UPDATE of compliance_score: it waits for the row.
WriteDeploy(r) ==
  /\ deploys[r].pc = "writing"
  /\ LET s == deploys[r].service IN
       /\ rowLock[s] = Null
       /\ rowLock' = [rowLock EXCEPT ![s] = r]
  /\ deploys' = [deploys EXCEPT ![r].pc = "committing"]
  /\ UNCHANGED <<services, history, freezes, events, freezeCount, unfreezes, faults>>

\* A plausible slip: the row takes the handler's state for its status.
DeployRowOfState(r) == [request |-> r,
                        service |-> deploys[r].service,
                        status  |-> deploys[r].pc,
                        score   |-> deploys[r].verdict.score]

DeployRow(r) == [request |-> r,
                 service |-> deploys[r].service,
                 status  |-> IF deploys[r].verdict.passed THEN "queued" ELSE "blocked",
                 score   |-> deploys[r].verdict.score]

\* A plausible slip: a blocked deploy leaves the service's score alone.
CommitDeployScoreIfPassed(r) ==
  /\ deploys[r].pc = "committing"
  /\ LET s == deploys[r].service IN
       /\ history' = Append(history, DeployRow(r))
       /\ services' = IF deploys[r].verdict.passed
                      THEN [services EXCEPT ![s].score = deploys[r].verdict.score]
                      ELSE services
       /\ rowLock' = [rowLock EXCEPT ![s] = Null]
       /\ deploys' = [deploys EXCEPT ![r].pc = DeployRow(r).status]
  /\ UNCHANGED <<freezes, events, freezeCount, unfreezes, faults>>

\* One commit for the deploy_history row and the service's score; the answer
\* is 202 with the annotation, or 403 with the report.
CommitDeploy(r) ==
  /\ deploys[r].pc = "committing"
  /\ LET s == deploys[r].service IN
       /\ history' = Append(history, DeployRow(r))
       /\ services' = [services EXCEPT ![s].score = deploys[r].verdict.score]
       /\ rowLock' = [rowLock EXCEPT ![s] = Null]
       /\ deploys' = [deploys EXCEPT ![r].pc = DeployRow(r).status]
  /\ UNCHANGED <<freezes, events, freezeCount, unfreezes, faults>>

\* A plausible slip: a connection given back with its row still locked.
AbortDeployLocked(r) ==
  /\ deploys[r].pc \in {"writing", "committing"}
  /\ faults < MaxFaults
  /\ faults' = faults + 1
  /\ deploys' = [deploys EXCEPT ![r].pc = "error"]
  /\ UNCHANGED <<services, history, rowLock, freezes, events, freezeCount, unfreezes>>

\* The transaction dies: rollback, 500.
AbortDeploy(r) ==
  /\ deploys[r].pc \in {"writing", "committing"}
  /\ faults < MaxFaults
  /\ faults' = faults + 1
  /\ deploys' = [deploys EXCEPT ![r].pc = "error"]
  /\ rowLock' = [s \in Services |-> IF rowLock[s] = r THEN Null ELSE rowLock[s]]
  /\ UNCHANGED <<services, history, freezes, events, freezeCount, unfreezes>>

-----------------------------------------------------------------------------
(* freeze_service, called by Alertmanager's webhook.                       *)

\* An alert group for a service starts firing.
AlertFires(a) ==
  /\ freezes[a].pc = "quiet"
  /\ \E s \in Services : freezes' = [freezes EXCEPT ![a] = [pc |-> "firing", service |-> s]]
  /\ UNCHANGED <<services, history, rowLock, deploys, events, freezeCount, unfreezes, faults>>

\* The group still fires when repeat_interval is over: notified once more.
AlertRepeats(a) ==
  /\ freezes[a].pc \in {"frozen", "already_frozen"}
  /\ freezes' = [freezes EXCEPT ![a].pc = "firing"]
  /\ UNCHANGED <<services, history, rowLock, deploys, events, freezeCount, unfreezes, faults>>

\* UPDATE ... RETURNING id.  A row that does not match as committed gives no row
\* back at once, "already frozen" to the caller whatever the reason; one that
\* does is waited for, and looked at again when its holder is done.
FreezeUpdateWhere(a, matches) ==
  /\ freezes[a].pc = "firing"
  /\ LET s == freezes[a].service IN
       \/ /\ matches
          /\ rowLock[s] = Null
          /\ rowLock' = [rowLock EXCEPT ![s] = a]
          /\ freezes' = [freezes EXCEPT ![a].pc = "publishing"]
       \/ /\ ~matches
          /\ freezes' = [freezes EXCEPT ![a].pc = "already_frozen"]
          /\ UNCHANGED rowLock
  /\ UNCHANGED <<services, history, deploys, events, freezeCount, unfreezes, faults>>

\* A plausible slip: the WHERE clause without deploy_frozen = FALSE.
FreezeUpdateUnguarded(a) == FreezeUpdateWhere(a, Active(freezes[a].service))

\* WHERE id = ... AND deploy_frozen = FALSE AND deleted_at IS NULL.
FreezeUpdate(a) ==
  FreezeUpdateWhere(a, /\ Active(freezes[a].service)
                       /\ ~services[freezes[a].service].frozen)

\* publish_catalog_event, BEFORE the commit; it swallows its failures.
FreezePublish(a) ==
  /\ freezes[a].pc = "publishing"
  /\ \/ events' = [events EXCEPT ![freezes[a].service] = @ + 1]
     \/ UNCHANGED events
  /\ freezes' = [freezes EXCEPT ![a].pc = "committing"]
  /\ UNCHANGED <<services, history, rowLock, deploys, freezeCount, unfreezes, faults>>

\* The commit.  The caller may lose the answer and notify again.
FreezeCommit(a) ==
  /\ freezes[a].pc = "committing"
  /\ LET s == freezes[a].service IN
       /\ services' = [services EXCEPT ![s].frozen = TRUE]
       /\ freezeCount' = [freezeCount EXCEPT ![s] = @ + (IF services[s].frozen THEN 0 ELSE 1)]
       /\ rowLock' = [rowLock EXCEPT ![s] = Null]
  /\ \/ freezes' = [freezes EXCEPT ![a].pc = "frozen"] /\ UNCHANGED faults
     \/ /\ faults < MaxFaults
        /\ freezes' = [freezes EXCEPT ![a].pc = "firing"]
        /\ faults' = faults + 1
  /\ UNCHANGED <<history, deploys, events, unfreezes>>

\* The same slip in the freeze.
FreezeAbortLocked(a) ==
  /\ freezes[a].pc \in {"publishing", "committing"}
  /\ faults < MaxFaults
  /\ faults' = faults + 1
  /\ freezes' = [freezes EXCEPT ![a].pc = "firing"]
  /\ UNCHANGED <<services, history, rowLock, deploys, events, freezeCount, unfreezes>>

\* The transaction dies: rollback, 5xx, and Alertmanager notifies again.
FreezeAbort(a) ==
  /\ freezes[a].pc \in {"publishing", "committing"}
  /\ faults < MaxFaults
  /\ faults' = faults + 1
  /\ freezes' = [freezes EXCEPT ![a].pc = "firing"]
  /\ rowLock' = [rowLock EXCEPT ![freezes[a].service] = Null]
  /\ UNCHANGED <<services, history, deploys, events, freezeCount, unfreezes>>

-----------------------------------------------------------------------------
(* The rest of the platform, as far as it writes these rows.               *)

\* An SRE lifts the freeze.  The endpoint is in the API contract only.
Unfreeze(s) ==
  /\ Active(s) /\ services[s].frozen
  /\ rowLock[s] = Null
  /\ unfreezes < MaxUnfreezes
  /\ unfreezes' = unfreezes + 1
  /\ services' = [services EXCEPT ![s].frozen = FALSE]
  /\ UNCHANGED <<history, rowLock, deploys, freezes, events, freezeCount, faults>>

\* The catalog's soft delete commits.
DeleteService(s) ==
  /\ Active(s)
  /\ rowLock[s] = Null
  /\ services' = [services EXCEPT ![s].deleted = TRUE]
  /\ UNCHANGED <<history, rowLock, deploys, freezes, events, freezeCount, unfreezes, faults>>

DeployStep(r) == \/ EvaluateDeploy(r) \/ OpaFails(r)
                 \/ WriteDeploy(r) \/ CommitDeploy(r)

FreezeStep(a) == FreezeUpdate(a) \/ FreezePublish(a) \/ FreezeCommit(a)

Next ==
  \/ \E r \in Requests : SubmitDeploy(r) \/ DeployStep(r) \/ AbortDeploy(r)
  \/ \E a \in Alerts : AlertFires(a) \/ AlertRepeats(a) \/ FreezeStep(a) \/ FreezeAbort(a)
  \/ \E s \in Services : Unfreeze(s) \/ DeleteService(s)

\* A handler that has started goes on: every await of it returns or times out
\* (OPA after 10s, Redis after 5s, a row lock when its holder ends), and
\* Alertmanager delivers a notification that is due.
Fairness == /\ \A r \in Requests : WF_vars(DeployStep(r))
            /\ \A a \in Alerts : WF_vars(FreezeStep(a))

Spec == Init /\ [][Next]_vars /\ Fairness

-----------------------------------------------------------------------------
(* Properties.                                                             *)

DeployPc == {"idle"} \cup InHandler \cup DeployDone
AlertPc  == {"quiet", "firing", "publishing", "committing", "frozen", "already_frozen"}

HistoryRow == [request : Requests, service : Services,
               status : {"queued", "blocked"}, score : Nat]

Deploy == [pc : DeployPc, service : Services \cup {Null}, verdict : Verdict]
Freeze == [pc : AlertPc, service : Services \cup {Null}]
ServiceRow == [frozen : BOOLEAN, deleted : BOOLEAN, score : Nat]

TypeOK ==
  /\ services \in [Services -> ServiceRow]
  /\ history \in Seq(HistoryRow)
  /\ rowLock \in [Services -> Requests \cup Alerts \cup {Null}]
  /\ deploys \in [Requests -> Deploy]
  /\ freezes \in [Alerts -> Freeze]
  /\ events \in [Services -> Nat]
  /\ freezeCount \in [Services -> Nat]
  /\ unfreezes \in Nat
  /\ faults \in Nat

\* The gate fails closed: whatever OPA does, a deploy_history row is "queued"
\* only with a score the admission constraint accepts too.
QueuedOnlyAboveThreshold ==
  \A i \in DOMAIN history :
    history[i].status = "queued" => GatekeeperAdmits(TRUE, history[i].score)

\* The score shown for a service is the one of the deploy committed last, also
\* when deploys of one service overlap.
ScoreFollowsHistory ==
  \A i \in DOMAIN history :
    (\A j \in DOMAIN history : j > i => history[j].service # history[i].service)
      => services[history[i].service].score = history[i].score

\* The freeze calls past their UPDATE whose event may be out but whose commit is not.
Publishing(s) == {a \in Alerts : freezes[a].service = s /\ freezes[a].pc = "committing"}

\* However many alert groups notify at once and however often each repeats,
\* the stream carries at most one service.deploy_frozen per freeze, plus the
\* one being committed, plus one for each transaction that died in between.
SurplusEventsNeedFaults ==
  \A s \in Services :
    events[s] <= freezeCount[s] + faults + (IF Publishing(s) = {} THEN 0 ELSE 1)

\* While a service stays frozen no further deploy of it gets past the check:
\* the ones under evaluation when the freeze committed are the only ones left.
InFlightOnlyShrinksWhileFrozen ==
  [][\A s \in Services :
       services[s].frozen /\ services'[s].frozen => InFlight(s)' \subseteq InFlight(s)]_vars

\* The handlers keep to the promises of DeployGate, however deploys, freezes,
\* overrides, deletions and dead transactions overlap (main.py:131-226, 280-325): a
\* deploy enters an open service only, and its row and the score come together.
Gate == INSTANCE DeployGate
          WITH Threshold <- MinScore,
               inside <- [s \in Services |-> InFlight(s)],
               answered <- {r \in Requests : deploys[r].pc \in DeployDone},
               frozen <- {s \in Services : services[s].frozen},
               gone <- {s \in Services : services[s].deleted},
               ledger <- history,
               score <- [s \in Services |-> services[s].score]
GateKept == Gate!Spec

\* A firing alert ends with its service frozen (or gone), through lost answers,
\* dead transactions and other holders of the row.
AlertFreezes ==
  \A a \in Alerts, s \in Services :
    freezes[a].pc = "firing" /\ freezes[a].service = s
      ~> services[s].frozen \/ services[s].deleted

\* Once frozen, a service runs out of deploys in flight, unless it is unfrozen.
FreezeDrains ==
  \A s \in Services :
    services[s].frozen ~> InFlight(s) = {} \/ ~services[s].frozen

\* "Check deploy_frozen flag - return 423 if frozen" (main.py:7): a deploy of a
\* frozen service is not queued.
NeverQueuedWhileFrozen ==
  [][\A r \in Requests :
       deploys[r].pc # "queued" /\ deploys'[r].pc = "queued"
         => ~services[deploys[r].service].frozen]_vars

\* "Only the first call succeeds and publishes the freeze event"
\* (main.py:291): one event per freeze.
OneEventPerFreeze ==
  \A s \in Services :
    events[s] <= freezeCount[s] + (IF Publishing(s) = {} THEN 0 ELSE 1)
=============================================================================
