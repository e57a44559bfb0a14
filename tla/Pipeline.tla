------------------------------- MODULE Pipeline -------------------------------
(***************************************************************************)
(* The poller of the pipeline service.  A round asks the catalog for the   *)
(* services and GitHub for the latest workflow runs of each; for a run it  *)
(* reads the jobs and upserts a row of pipeline_runs.  GitHub gives the    *)
(* time of the row's started_at as text and the upsert raises on it, so    *)
(* the first run that a round meets is its last: the other runs of that    *)
(* service, the services after it and what follows the commit (the stage   *)
(* events, the request for a DORA recomputation) are not reached.  GitHub  *)
(* is external; services are numbers, in the order the catalog gives.      *)
(***************************************************************************)
EXTENDS Naturals

CONSTANTS
  Services,   \* the services of the page the catalog gives
  Quota,      \* GitHub requests in one rate limit window (5000)
  Buffer,     \* GITHUB_RATE_LIMIT_BUFFER (100)
  MaxFaults,  \* bound: failed calls, restarts and requests of other clients
  Null

ASSUME PipelineAssumption ==
  /\ Services \subseteq Nat /\ Null \notin Nat
  /\ Quota \in Nat /\ Buffer \in Nat /\ Buffer <= Quota /\ MaxFaults \in Nat

VARIABLES
  run,      \* GitHub: the status of the latest run of a service's repository
  budget,   \* GitHub: what is left of the token's quota
  stored,   \* pipeline_runs: the status in the row of that run
  poller,   \* the poller's place in its round
  mustWait, \* the last answer left less than Buffer, in this rate limit window
  dug,      \* requests the poller made below Buffer since the last reset
  faults

rate == <<budget, mustWait, dug>>
vars == <<run, stored, poller, rate, faults>>

Status == {"none", "queued", "in_progress", "completed"}

\* todo: the services this round has not polled.  service, seen: the one whose
\* run is in hand and the status GitHub gave.
Resting == [at |-> "service", todo |-> {}, service |-> Null, seen |-> "none"]

\* Every variable stays in its type.
TypeOK ==
  /\ run \in [Services -> Status] /\ stored \in [Services -> Status]
  /\ poller \in [at : {"service", "fetch", "store"}, todo : SUBSET Services,
                 service : Services \cup {Null}, seen : Status]
  /\ budget \in 0 .. Quota /\ mustWait \in BOOLEAN /\ dug \in Nat
  /\ faults \in 0 .. MaxFaults

Init ==
  /\ run = [s \in Services |-> "none"] /\ stored = [s \in Services |-> "none"]
  /\ poller = Resting
  /\ budget = Quota /\ mustWait = FALSE /\ dug = 0
  /\ faults = 0

-----------------------------------------------------------------------------
(* GitHub *)

\* A run is created, goes on, ends; it, or a newer one, is run again: the
\* identifier of a run that is run again is the same.
RunMoves(s) ==
  /\ run' = [run EXCEPT ![s] = CASE run[s] \in {"none", "completed"} -> "queued"
                                 [] run[s] = "queued"                -> "in_progress"
                                 [] OTHER                            -> "completed"]
  /\ UNCHANGED <<stored, poller, rate, faults>>

\* A plausible slip: the wait goes round until an answer shows more left.
QuotaResetsUnseen ==
  /\ budget' = Quota /\ dug' = 0
  /\ UNCHANGED <<run, stored, poller, mustWait, faults>>

\* The rate limit window ends, and with it the poller's pause.
QuotaResets ==
  /\ budget' = Quota /\ mustWait' = FALSE /\ dug' = 0
  /\ UNCHANGED <<run, stored, poller, faults>>

Fault == faults < MaxFaults /\ faults' = faults + 1

\* The scaffold workflow spends the same token.
OthersSpend ==
  /\ budget > 0 /\ budget' = budget - 1 /\ Fault
  /\ UNCHANGED <<run, stored, poller, mustWait, dug>>

-----------------------------------------------------------------------------
(* The poller.  Any exception ends the round: the next one starts anew. *)

Spent == IF budget > 0 THEN budget - 1 ELSE 0
Deeper == IF budget < Buffer THEN dug + 1 ELSE dug

\* A request that GitHub answers, with the headers _check_rate_limit reads.
Request == budget' = Spent /\ dug' = Deeper /\ mustWait' = (Spent < Buffer)

\* A request without an answer: spent or not, no header is read.
Unanswered ==
  /\ UNCHANGED <<budget, dug>> \/ (budget' = Spent /\ dug' = Deeper)
  /\ UNCHANGED mustWait

\* A plausible slip: the exception is caught outside the loop.
PollingEnds == poller' = [Resting EXCEPT !.at = "ended"]

RoundEnds == poller' = Resting

RequestFails == Fault /\ RoundEnds /\ Unanswered

\* The process is restarted: it forgets the rate limit as well.
PollerRestarts ==
  /\ Fault /\ RoundEnds /\ mustWait' = FALSE
  /\ UNCHANGED <<run, stored, budget, dug>>

\* GET /services of the catalog.  (When it fails the poller stays where it is.)
RoundStarts ==
  /\ poller.at = "service" /\ poller.todo = {}
  /\ poller' = [poller EXCEPT !.todo = Services]
  /\ UNCHANGED <<run, stored, rate, faults>>

NextService(s) == s \in poller.todo /\ \A q \in poller.todo : s <= q

\* A plausible slip: the pause is left out.
NeverPauses == TRUE

\* _wait_if_rate_limited: sleeps until the reset.
MayPoll == ~mustWait

\* The latest runs of the service; on to the next one when the repository is not
\* there, has no run, or the request is refused.
PollService(s) ==
  /\ poller.at = "service" /\ NextService(s) /\ MayPoll
  /\ \/ /\ budget > 0 /\ run[s] # "none"
        /\ poller' = [at |-> "fetch", todo |-> poller.todo \ {s}, service |-> s, seen |-> run[s]]
        /\ Request /\ UNCHANGED faults
     \/ /\ poller' = [poller EXCEPT !.todo = @ \ {s}]
        /\ Request
        /\ IF budget > 0 /\ run[s] # "none" THEN Fault ELSE UNCHANGED faults
     \/ RequestFails
  /\ UNCHANGED <<run, stored>>

\* _fetch_run_stages; a refused request gives an empty list and no exception.
FetchStages ==
  /\ poller.at = "fetch"
  /\ \/ /\ poller' = [poller EXCEPT !.at = "store"]
        /\ Request /\ UNCHANGED faults
     \/ RequestFails
  /\ UNCHANGED <<run, stored>>

\* A timestamptz column takes a datetime or nothing: asyncpg refuses a text.
Takes(value) == value \in {"datetime", Null}

\* run_data: the time of the run's creation is what GitHub's JSON holds.
Row == [status |-> poller.seen, started_at |-> "text"]

\* pipeline_runs after the commit of a row.
Committed(s, row) == IF Takes(row.started_at) THEN [stored EXCEPT ![s] = row.status] ELSE stored

\* The upsert and its commit, which raises.  (With the database down it does too.)
StoreRun ==
  /\ poller.at = "store"
  /\ stored' = Committed(poller.service, Row)
  /\ RoundEnds
  /\ UNCHANGED <<run, rate, faults>>

-----------------------------------------------------------------------------
PollerSteps == RoundStarts \/ (\E s \in Services : PollService(s)) \/ FetchStages \/ StoreRun

World == (\E s \in Services : RunMoves(s)) \/ QuotaResets \/ OthersSpend \/ PollerRestarts

Next == PollerSteps \/ World

\* The poller's loop goes on for ever and the rate limit window ends.
Spec == Init /\ [][Next]_vars /\ WF_vars(PollerSteps) /\ WF_vars(QuotaResets)

-----------------------------------------------------------------------------
\* "Pauses until reset": however stale the header the poller looked at, it makes
\* one request below the buffer, and two more for each fault that hid an answer
\* from it or spent what it had counted on (67-82, looked at once for each service).
DigsLittle == dug <= 1 + 2 * faults

\* No lost round, restart, refused request or pause stops the polling: a service
\* with none before it that has a run is polled again and again (75-82, 279-300).
PollingGoesOn ==
  \A s \in Services :
    <>[](\A q \in Services : q < s => run[q] = "none") => []<><<PollService(s)>>_vars

\* "Store pipeline run history in PostgreSQL": a run that has ended and stays the
\* latest of its service gets its row.
EndedRunIsStored ==
  \A s \in Services : <>[](run[s] = "completed") => <>(stored[s] = "completed")
=============================================================================
