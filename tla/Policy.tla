------------------------------- MODULE Policy -------------------------------
(***************************************************************************)
(* The Rego package nerve.deploy: six checks of one deploy's signals, the  *)
(* score they add up to and the verdict, and the Gatekeeper constraint     *)
(* that reads the verdict's annotation at admission.                       *)
(*                                                                         *)
(* A Rego rule with several bodies is a set of results: empty when no body *)
(* holds (the rule is undefined), and an evaluation error when two bodies  *)
(* hold with different results.  Every check below is therefore the SET of *)
(* results its bodies produce, and nothing is assumed about its size.      *)
(* Each body words its own detail (and fix_url), so that two bodies with   *)
(* the same status still conflict: the texts are left out, and a name for  *)
(* the body's text stands in their place.                                  *)
(***************************************************************************)
EXTENDS Naturals, FiniteSets

CONSTANTS Null,  \* Rego's null, for a timestamp that is not there
          Time   \* timestamps: ISO-8601 strings in one zone, ordered as numbers

ASSUME TimeAssumption == Time \subseteq Nat /\ Null \notin Time

-----------------------------------------------------------------------------
(* The input document; a runbook_url is only ever compared with null, and  *)
(* otel_missing is the length of otel_missing_endpoints.                   *)
Signals == [health       : BOOLEAN,
            slo          : BOOLEAN,
            runbook_url  : BOOLEAN,
            updated_at   : Time \cup {Null},
            last_deploy  : Time \cup {Null},
            otel         : BOOLEAN,
            otel_missing : Nat,
            vault        : BOOLEAN,
            plaintext    : BOOLEAN,
            critical     : Nat,
            high         : Nat]

(* The document build_opa_input assembles: constants, until its probes exist. *)
StubInput == [health |-> TRUE, slo |-> TRUE, runbook_url |-> FALSE,
              updated_at |-> Null, last_deploy |-> Null,
              otel |-> TRUE, otel_missing |-> 0,
              vault |-> TRUE, plaintext |-> FALSE,
              critical |-> 0, high |-> 0]

Weight == [health |-> 15, slo |-> 20, runbook |-> 15, otel |-> 15,
           secrets |-> 20, security |-> 15]

CheckNames == DOMAIN Weight

ASSUME WeightsSumTo100 ==
  Weight.health + Weight.slo + Weight.runbook + Weight.otel
    + Weight.secrets + Weight.security = 100

\* round(w * 0.5): OPA rounds a half away from zero.
Half(w) == (w + 1) \div 2

(* What the bodies write: detail names the text, which no two bodies of a  *)
(* check share.                                                            *)
Pass(c)      == [status |-> "pass", score |-> Weight[c], detail |-> "good"]
Warn(c)      == [status |-> "warn", score |-> Half(Weight[c]), detail |-> "partial"]
Fail(detail) == [status |-> "fail", score |-> 0, detail |-> detail]

\* One rule body: its result when its condition holds, and nothing otherwise.
Body(holds, result) == {r \in {result} : holds}

-----------------------------------------------------------------------------
CheckHealth(s) == Body(s.health, Pass("health")) \cup Body(~s.health, Fail("down"))

CheckSlo(s) == Body(s.slo, Pass("slo")) \cup Body(~s.slo, Fail("no slo"))

\* A runbook of a service that was never deployed matches none of the bodies.
CheckRunbook(s) ==
  LET dated == s.runbook_url /\ s.updated_at # Null /\ s.last_deploy # Null
  IN  Body(dated /\ s.updated_at >= s.last_deploy, Pass("runbook"))
        \cup Body(dated /\ s.updated_at < s.last_deploy, Fail("stale"))
        \cup Body(~s.runbook_url, Fail("no runbook"))

\* A plausible slip: the two exporting bodies exchanged.
CheckOtelSwapped(s) ==
  Body(s.otel /\ s.otel_missing > 0, Pass("otel"))
    \cup Body(s.otel /\ s.otel_missing = 0, Warn("otel"))
    \cup Body(~s.otel, Fail("no traces"))

CheckOtel(s) ==
  Body(s.otel /\ s.otel_missing = 0, Pass("otel"))
    \cup Body(s.otel /\ s.otel_missing > 0, Warn("otel"))
    \cup Body(~s.otel, Fail("no traces"))

\* A plausible slip: the last body without its has_plaintext_secrets conjunct.
CheckSecretsOverlap(s) ==
  Body(s.vault /\ ~s.plaintext, Pass("secrets"))
    \cup Body(s.plaintext, Fail("plaintext"))
    \cup Body(~s.vault, Fail("no vault"))

CheckSecrets(s) ==
  Body(s.vault /\ ~s.plaintext, Pass("secrets"))
    \cup Body(s.plaintext, Fail("plaintext"))
    \cup Body(~s.vault /\ ~s.plaintext, Fail("no vault"))

CheckSecurity(s) ==
  Body(s.critical > 0, Fail("critical"))
    \cup Body(s.critical = 0 /\ s.high > 3, Warn("security"))
    \cup Body(s.critical = 0 /\ s.high <= 3, Pass("security"))

Checks(s) == [health   |-> CheckHealth(s),  slo      |-> CheckSlo(s),
              runbook  |-> CheckRunbook(s), otel     |-> CheckOtel(s),
              secrets  |-> CheckSecrets(s), security |-> CheckSecurity(s)]

-----------------------------------------------------------------------------
(* The aggregate.  checks is an object: undefined as soon as one of its six *)
(* values is, and score and passed with it.                                *)
ChecksDefined(s) == \A c \in CheckNames : Checks(s)[c] # {}

The(results) == CHOOSE r \in results : TRUE

Score(s) == LET c == Checks(s)
            IN  The(c.health).score + The(c.slo).score + The(c.runbook).score
                  + The(c.otel).score + The(c.secrets).score + The(c.security).score

CriticalCveBlock(s) == s.critical > 0

\* A plausible slip: a threshold that forgives one failed check and a warning.
PassedLenient(s) == ChecksDefined(s) /\ Score(s) >= 75 /\ ~CriticalCveBlock(s)

\* A plausible slip: the bound excluded.
PassedStrict(s) == ChecksDefined(s) /\ Score(s) > 80 /\ ~CriticalCveBlock(s)

Passed(s) == ChecksDefined(s) /\ Score(s) >= 80 /\ ~CriticalCveBlock(s)

(***************************************************************************)
(* Gatekeeper's RequireComplianceAnnotation: a pod is admitted when no     *)
(* violation rule fires on its annotations.  An absent annotation reads    *)
(* as compliance-passed = "false", compliance-score = "0".  The pod is one *)
(* with the `app` label the message of the first rule names.               *)
(***************************************************************************)
MinScore == 80

GatekeeperAdmits(annotatedPassed, annotatedScore) ==
  /\ annotatedPassed
  /\ ~(annotatedScore < MinScore)
=============================================================================
