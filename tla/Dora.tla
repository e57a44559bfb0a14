--------------------------------- MODULE Dora ---------------------------------
(***************************************************************************)
(* The DORA worker: a task counts the service's production deploys of the  *)
(* last 30 days in two queries, the succeeded ones and the ones that went  *)
(* wrong, and writes the service's record.  Several run at once, are lost  *)
(* with their worker, delivered again (acks_late) or tried again.  Deploys *)
(* move on by themselves meanwhile; the poller asks for the tasks.         *)
(*                                                                         *)
(* compute_all_services_dora is no action: what it queues goes to the      *)
(* default queue, which the one worker (--queues=dora) never reads.        *)
(***************************************************************************)
EXTENDS Naturals, FiniteSets

CONSTANTS
  Services,
  Deploys,
  Owner,      \* the service of a deploy
  Slots,      \* bound: tasks that can wait or run at a time
  Workers,    \* worker processes (--concurrency=2)
  MaxRetries, \* 3 in the code
  MaxFaults,  \* bound: failed queries and lost workers
  Null

Counts == [ok : 0..Cardinality(Deploys), bad : 0..Cardinality(Deploys)]

ASSUME DoraAssumption ==
  /\ Owner \in [Deploys -> Services] /\ IsFiniteSet(Deploys)
  /\ Workers \in Nat \ {0} /\ MaxRetries \in Nat \ {0} /\ MaxFaults \in Nat
  /\ Null \notin Counts

VARIABLES
  deploy,  \* deploy_history: the status of a production deploy
  old,     \* the deploys that have left the window
  record,  \* the DORA record of a service: its two counts, or Null
  task,
  faults

vars == <<deploy, old, record, task, faults>>
history == <<deploy, old>>

Bad == {"failed", "rolled_back"}
Status == {"running", "succeeded"} \cup Bad

Free == [at |-> "free", svc |-> Null, tries |-> 0, window |-> {}, ok |-> 0, bad |-> 0]
Waiting(s, n) == [at |-> "queued", svc |-> s, tries |-> n, window |-> {}, ok |-> 0, bad |-> 0]

Init ==
  /\ deploy = [d \in Deploys |-> "running"] /\ old = {}
  /\ record = [s \in Services |-> Null]
  /\ task = [t \in Slots |-> Free]
  /\ faults = 0

-----------------------------------------------------------------------------
(* The deploys, written by others. *)

DeployEnds(d) ==
  /\ deploy[d] = "running"
  /\ \E st \in {"succeeded", "failed"} : deploy' = [deploy EXCEPT ![d] = st]
  /\ UNCHANGED <<old, record, task, faults>>

RollsBack(d) ==
  /\ deploy[d] = "succeeded"
  /\ deploy' = [deploy EXCEPT ![d] = "rolled_back"]
  /\ UNCHANGED <<old, record, task, faults>>

LeavesWindow(d) ==
  /\ deploy[d] # "running" /\ d \notin old
  /\ old' = old \cup {d}
  /\ UNCHANGED <<deploy, record, task, faults>>

-----------------------------------------------------------------------------
(* The queue and the workers. *)

\* The poller's send_task, with the service as its only argument.
Ask(s) ==
  /\ \E t \in Slots : /\ task[t].at = "free"
                      /\ task' = [task EXCEPT ![t] = Waiting(s, 0)]
  /\ UNCHANGED <<history, record, faults>>

Steps == {"failures", "find", "insert", "update"}
Running == {t \in Slots : task[t].at \in Steps}

\* SELECT count(*) of a service's deploys of the window with one of the statuses.
Count(s, statuses, window) ==
  Cardinality({d \in Deploys : Owner[d] = s /\ deploy[d] \in statuses /\ d \in window})

\* window_start is fixed once; the deploys in hand with status "succeeded".
CountSucceeded(t) ==
  /\ task[t].at = "queued" /\ Cardinality(Running) < Workers
  /\ LET window == Deploys \ old
     IN  task' = [task EXCEPT ![t].at = "failures", ![t].window = window,
                              ![t].ok = Count(task[t].svc, {"succeeded"}, window)]
  /\ UNCHANGED <<history, record, faults>>

\* A plausible slip: every deploy that has ended.
EveryEnd == Bad \cup {"succeeded"}

\* The statuses of a deploy that failed the change.
WentWrong == Bad

CountFailed(t) ==
  /\ task[t].at = "failures"
  /\ task' = [task EXCEPT ![t].at = "find", ![t].window = {},
                          ![t].bad = Count(task[t].svc, WentWrong, task[t].window)]
  /\ UNCHANGED <<history, record, faults>>

FindRecord(t) ==
  /\ task[t].at = "find"
  /\ task' = [task EXCEPT ![t].at = IF record[task[t].svc] = Null THEN "insert" ELSE "update"]
  /\ UNCHANGED <<history, record, faults>>

Done(t) == task' = [task EXCEPT ![t] = Free]

\* A plausible slip: max_retries is not looked at.
RetryForEver(t) == task' = [task EXCEPT ![t] = Waiting(task[t].svc, task[t].tries + 1)]

\* A plausible slip: the first attempt is counted as a retry.
RetryOnceLess(t) ==
  IF task[t].tries + 1 < MaxRetries
  THEN task' = [task EXCEPT ![t] = Waiting(task[t].svc, task[t].tries + 1)]
  ELSE Done(t)

\* self.retry, up to MaxRetries times: the task starts again from its top.
Retry(t) ==
  IF task[t].tries < MaxRetries
  THEN task' = [task EXCEPT ![t] = Waiting(task[t].svc, task[t].tries + 1)]
  ELSE Done(t)

\* A plausible slip: the assignments fall under "if not record".
WriteIfAbsent(t) ==
  /\ task[t].at \in {"insert", "update"}
  /\ record' = IF task[t].at = "insert"
               THEN [record EXCEPT ![task[t].svc] = [ok |-> task[t].ok, bad |-> task[t].bad]]
               ELSE record
  /\ Done(t)
  /\ UNCHANGED <<history, faults>>

\* A record found is overwritten by whoever commits last.  One of two inserts
\* fails on the other's row (a record has its service for key).
Write(t) ==
  LET s == task[t].svc
  IN  /\ task[t].at \in {"insert", "update"}
      /\ IF task[t].at = "insert" /\ record[s] # Null THEN Retry(t) /\ UNCHANGED record
         ELSE /\ record' = [record EXCEPT ![s] = [ok |-> task[t].ok, bad |-> task[t].bad]]
              /\ Done(t)
      /\ UNCHANGED <<history, faults>>

Fault == faults < MaxFaults /\ faults' = faults + 1

\* Any exception in the task.
TaskFails(t) ==
  /\ t \in Running /\ Fault /\ Retry(t)
  /\ UNCHANGED <<history, record>>

\* acks_late: the task is delivered again, unless the broker counts the lost
\* process as a failed task.
WorkerLost(t) ==
  /\ t \in Running /\ Fault
  /\ \/ Done(t)
     \/ task' = [task EXCEPT ![t] = Waiting(task[t].svc, task[t].tries)]
  /\ UNCHANGED <<history, record>>

-----------------------------------------------------------------------------
Work(t) == CountSucceeded(t) \/ CountFailed(t) \/ FindRecord(t) \/ Write(t)

Next ==
  \/ \E d \in Deploys : DeployEnds(d) \/ RollsBack(d) \/ LeavesWindow(d)
  \/ \E s \in Services : Ask(s)
  \/ \E t \in Slots : Work(t) \/ TaskFails(t) \/ WorkerLost(t)

\* The workers take the tasks that wait and carry on with those they have.
Spec == Init /\ [][Next]_vars /\ \A t \in Slots : WF_vars(Work(t))

-----------------------------------------------------------------------------
\* Every variable stays in its type.
TypeOK ==
  /\ deploy \in [Deploys -> Status] /\ old \subseteq Deploys
  /\ record \in [Services -> Counts \cup {Null}]
  /\ task \in [Slots -> [at : Steps \cup {"free", "queued"}, svc : Services \cup {Null},
                         tries : 0..MaxRetries, window : SUBSET Deploys,
                         ok : 0..Cardinality(Deploys), bad : 0..Cardinality(Deploys)]]
  /\ faults \in 0..MaxFaults

Of(s, statuses) == {d \in Deploys : Owner[d] = s /\ deploy[d] \in statuses}

\* The two counts come from two queries (140-149, 202-211): a deploy is counted
\* twice only when it has been rolled back, never otherwise.
DoubleCountNeedsRollBack ==
  \A s \in Services :
    record[s] # Null =>
      record[s].ok + record[s].bad <= Cardinality(Of(s, {"succeeded"} \cup Bad))
                                        + Cardinality(Of(s, {"rolled_back"}))

Current(s) == [ok  |-> Count(s, {"succeeded"}, Deploys \ old),
               bad |-> Count(s, Bad, Deploys \ old)]

\* However tasks overtake each other, the record ends up as the history has it
\* once that rests: an older result stored last (223-235) does not stay, as long
\* as the poller goes on asking.
RecordCatchesUp ==
  \A s \in Services : []<><<Ask(s)>>_vars => <>[](record[s] = Current(s))

\* Two first tasks of a service race to insert its record (216-221): the loser's
\* retry writes, and without a fault no task ends before it has written.
RaceLosesNoTask ==
  [][\A t \in Slots :
       (t \in Running /\ task'[t].at = "free" /\ faults' = 0) =>
         record'[task[t].svc] = [ok |-> task[t].ok, bad |-> task[t].bad]]_vars
=============================================================================
