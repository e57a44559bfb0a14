----------------------------- MODULE PolicyDrift -----------------------------
(***************************************************************************)
(* The signals of one service as its probes report them: one signal        *)
(* changes at a time, in any order, starting from the document             *)
(* build_opa_input assembles today.  The probes are not in the repository  *)
(* (they are its TODOs); the document they fill is.                        *)
(***************************************************************************)
EXTENDS Policy

CONSTANTS Counts  \* the endpoint and CVE counts a probe may report

ASSUME CountsAssumption == Counts \subseteq Nat

VARIABLE signals

Init == signals = StubInput

\* A probe of a yes/no signal reports its other value.
FlagProbe ==
  \E f \in {"health", "slo", "runbook_url", "otel", "vault", "plaintext"} :
     signals' = [signals EXCEPT ![f] = ~@]

\* A count of unreported endpoints or of open CVEs changes.
CountProbe ==
  \E f \in {"otel_missing", "critical", "high"}, n \in Counts :
     signals' = [signals EXCEPT ![f] = n]

\* A runbook edit or a deploy moves one of the two timestamps.
TimeProbe ==
  \E f \in {"updated_at", "last_deploy"}, t \in Time :
     signals' = [signals EXCEPT ![f] = t]

Next == FlagProbe \/ CountProbe \/ TimeProbe

Spec == Init /\ [][Next]_signals

-----------------------------------------------------------------------------
TypeOK == signals \in Signals

\* No two bodies of a check hold for one input, not even two that both fail it:
\* their details differ, and OPA would answer such an input with an evaluation
\* error, and the enforcer with a 500.
RulesExclusive ==
  \A c \in CheckNames : Cardinality(Checks(signals)[c]) <= 1

\* The verdict in terms of checks, not of points: a deploy passes exactly when
\* there is no critical CVE and either nothing fails, or one check fails and
\* no other is even at warning level.
StatusOf(s, c) == The(Checks(s)[c]).status
Failing(s) == {c \in CheckNames : StatusOf(s, c) = "fail"}
Warned(s)  == {c \in CheckNames : StatusOf(s, c) = "warn"}

PassesIffAtMostOneCheckDown ==
  ChecksDefined(signals) =>
    (Passed(signals) <=> /\ signals.critical = 0
                         /\ \/ Failing(signals) = {}
                            \/ Cardinality(Failing(signals)) = 1 /\ Warned(signals) = {})

\* The two layers agree: the annotation written for a passing evaluation is
\* one the admission constraint accepts.
AdmittedIfPassed ==
  Passed(signals) => GatekeeperAdmits(TRUE, Score(signals))

\* t is at least as good as s on every signal (plaintext secrets, missing
\* endpoints, CVEs and later deploys count against a service).
AtLeastAsGood(s, t) ==
  /\ \A f \in {"health", "slo", "runbook_url", "otel", "vault"} : s[f] => t[f]
  /\ t.plaintext => s.plaintext
  /\ t.otel_missing <= s.otel_missing
  /\ t.critical <= s.critical /\ t.high <= s.high
  /\ \/ t.updated_at = s.updated_at
     \/ s.updated_at \in Time /\ t.updated_at \in Time /\ t.updated_at >= s.updated_at
  /\ \/ t.last_deploy = s.last_deploy
     \/ s.last_deploy \in Time /\ t.last_deploy \in Time /\ t.last_deploy <= s.last_deploy

\* A service that passes still passes after any one of its signals improves,
\* as long as every check still has a result.
ImprovementKeepsPassing ==
  [][Passed(signals) /\ AtLeastAsGood(signals, signals') /\ ChecksDefined(signals')
       => Passed(signals')]_signals
=============================================================================
