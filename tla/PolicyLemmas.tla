---------------------------- MODULE PolicyLemmas ----------------------------
(***************************************************************************)
(* What the policy's operators return, for the proofs about the policy     *)
(* itself and about the enforcer that asks it.                             *)
(***************************************************************************)
EXTENDS Policy, TLAPS

\* The policy has six checks, each worth something.
LEMMA NamesOfChecks ==
  /\ CheckNames = {"health", "slo", "runbook", "otel", "secrets", "security"}
  /\ \A c \in CheckNames : Weight[c] \in Nat \ {0}
BY DEF CheckNames, Weight

\* Half of a weight is a number of points.
LEMMA HalfIsNat == \A w \in Nat : Half(w) \in Nat
BY DEF Half

\* A check that has a result has the one taken for it.
LEMMA TheIsMember ==
  ASSUME NEW S, S # {}
  PROVE  The(S) \in S
BY DEF The

\* What one check contributes: its status and its points go together.
LEMMA StatusGivesScore ==
  ASSUME NEW s, NEW c \in CheckNames, ChecksDefined(s)
  PROVE  LET r == The(Checks(s)[c])
         IN  \/ r.status = "pass" /\ r.score = Weight[c]
             \/ r.status = "warn" /\ r.score = Half(Weight[c]) /\ c \in {"otel", "security"}
             \/ r.status = "fail" /\ r.score = 0
<1> DEFINE r == The(Checks(s)[c])
<1>1. r \in Checks(s)[c]
  BY TheIsMember DEF ChecksDefined
<1>2. /\ Pass(c).status = "pass" /\ Pass(c).score = Weight[c]
      /\ Warn(c).status = "warn" /\ Warn(c).score = Half(Weight[c])
      /\ \A d : Fail(d).status = "fail" /\ Fail(d).score = 0
  BY DEF Pass, Warn, Fail
<1>3. \A holds, result : r \in Body(holds, result) => holds /\ r = result
  BY DEF Body
<1>4. r = Pass(c) \/ (r = Warn(c) /\ c \in {"otel", "security"}) \/ \E d : r = Fail(d)
  <2>1. CASE c = "health"
    BY <1>1, <1>3, <2>1 DEF Checks, CheckHealth
  <2>2. CASE c = "slo"
    BY <1>1, <1>3, <2>2 DEF Checks, CheckSlo
  <2>3. CASE c = "runbook"
    BY <1>1, <1>3, <2>3 DEF Checks, CheckRunbook
  <2>4. CASE c = "otel"
    BY <1>1, <1>3, <2>4 DEF Checks, CheckOtel
  <2>5. CASE c = "secrets"
    BY <1>1, <1>3, <2>5 DEF Checks, CheckSecrets
  <2>6. CASE c = "security"
    BY <1>1, <1>3, <2>6 DEF Checks, CheckSecurity
  <2> QED BY <2>1, <2>2, <2>3, <2>4, <2>5, <2>6, NamesOfChecks
<1> QED BY <1>2, <1>4

\* A defined score is a number.
LEMMA ScoreIsNat ==
  ASSUME NEW s, ChecksDefined(s)
  PROVE  Score(s) \in Nat
<1>1. \A c \in CheckNames : The(Checks(s)[c]).score \in Nat
  BY StatusGivesScore, NamesOfChecks, HalfIsNat
<1> QED BY <1>1, NamesOfChecks DEF Score
=============================================================================
