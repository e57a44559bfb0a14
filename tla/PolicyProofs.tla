---------------------------- MODULE PolicyProofs ----------------------------
(***************************************************************************)
(* Proofs about the policy for every input document: any number of open    *)
(* CVEs and unreported endpoints, any timestamps, where TLC looks at a few *)
(* of each.                                                                *)
(***************************************************************************)
EXTENDS PolicyDrift, PolicyLemmas, FiniteSetTheorems, TLAPS

-----------------------------------------------------------------------------
\* What the probes report is an input document, whatever its values.
THEOREM SignalsTyped == Spec => []TypeOK
<1>1. Init => TypeOK
  BY DEF Init, TypeOK, StubInput, Signals
<1>2. TypeOK /\ [Next]_signals => TypeOK'
  <2> SUFFICES ASSUME TypeOK, [Next]_signals PROVE TypeOK'
    OBVIOUS
  <2>1. CASE FlagProbe
    BY <2>1 DEF FlagProbe, TypeOK, Signals
  <2>2. CASE CountProbe
    BY <2>2, CountsAssumption DEF CountProbe, TypeOK, Signals
  <2>3. CASE TimeProbe
    BY <2>3 DEF TimeProbe, TypeOK, Signals
  <2>4. CASE UNCHANGED signals
    BY <2>4 DEF TypeOK
  <2> QED BY <2>1, <2>2, <2>3, <2>4 DEF Next
<1> QED BY <1>1, <1>2, PTL DEF Spec

-----------------------------------------------------------------------------
(* A check of which at most one body holds has at most one result.         *)

\* A set whose members are all the same has at most one.
LEMMA AtMostOneResult ==
  ASSUME NEW R, \A x, y \in R : x = y
  PROVE  Cardinality(R) <= 1
<1>1. CASE R = {}
  BY <1>1, FS_EmptySet
<1>2. CASE R # {}
  <2>1. PICK r : R = {r}
    BY <1>2
  <2>2. Cardinality({r}) = 1
    BY FS_Singleton
  <2> QED BY <2>1, <2>2
<1> QED BY <1>1, <1>2

\* The bodies of each of the six checks exclude each other on every input, the two
\* that fail a runbook and the two that fail the secrets among them.
LEMMA BodiesExclusive ==
  ASSUME NEW s \in Signals, NEW c \in CheckNames
  PROVE  Cardinality(Checks(s)[c]) <= 1
<1>1. /\ s.critical \in Nat /\ s.high \in Nat /\ s.otel_missing \in Nat
      /\ s.updated_at \in Time \cup {Null} /\ s.last_deploy \in Time \cup {Null}
  BY DEF Signals
<1>2. \A x, y \in CheckHealth(s) : x = y
  BY DEF CheckHealth, Body
<1>3. \A x, y \in CheckSlo(s) : x = y
  BY DEF CheckSlo, Body
<1>4. \A x, y \in CheckRunbook(s) : x = y
  <2> DEFINE dated == s.runbook_url /\ s.updated_at # Null /\ s.last_deploy # Null
             fresh == dated /\ s.updated_at >= s.last_deploy
             stale == dated /\ s.updated_at < s.last_deploy
  <2>1. ~(fresh /\ stale)
    <3>1. dated => s.updated_at \in Nat /\ s.last_deploy \in Nat
      BY <1>1, TimeAssumption
    <3>2. \A m, n \in Nat : ~(m >= n /\ m < n)
      OBVIOUS
    <3> QED BY <3>1, <3>2
  <2>2. (fresh \/ stale) => s.runbook_url
    OBVIOUS
  <2>3. CheckRunbook(s) = Body(fresh, Pass("runbook")) \cup Body(stale, Fail("stale"))
                            \cup Body(~s.runbook_url, Fail("no runbook"))
    BY DEF CheckRunbook
  <2> HIDE DEF dated, fresh, stale
  <2> QED BY <2>1, <2>2, <2>3 DEF Body
<1>5. \A x, y \in CheckOtel(s) : x = y
  <2>1. ~(s.otel_missing = 0 /\ s.otel_missing > 0)
    BY <1>1
  <2> QED BY <2>1 DEF CheckOtel, Body
<1>6. \A x, y \in CheckSecrets(s) : x = y
  BY DEF CheckSecrets, Body
<1>7. \A x, y \in CheckSecurity(s) : x = y
  <2>1. ~(s.critical = 0 /\ s.critical > 0) /\ ~(s.high <= 3 /\ s.high > 3)
    BY <1>1
  <2> QED BY <2>1 DEF CheckSecurity, Body
<1>8. \A x, y \in Checks(s)[c] : x = y
  BY <1>2, <1>3, <1>4, <1>5, <1>6, <1>7, NamesOfChecks DEF Checks
<1> QED BY <1>8, AtMostOneResult

\* No input makes two bodies of a check disagree.
THEOREM RulesExclusiveHolds == Spec => []RulesExclusive
<1>1. TypeOK => RulesExclusive
  BY BodiesExclusive DEF TypeOK, RulesExclusive
<1> QED BY <1>1, SignalsTyped, PTL

-----------------------------------------------------------------------------
(* The verdict in terms of checks.                                         *)

\* Points against checks: 80 is what is left when one check fails and the others
\* pass, and less than what two warnings leave.
LEMMA ScoreByStatus ==
  ASSUME NEW s \in Signals, ChecksDefined(s)
  PROVE  Score(s) >= 80 <=> \/ Failing(s) = {}
                            \/ (\E c \in CheckNames : Failing(s) = {c}) /\ Warned(s) = {}
<1> DEFINE Fails(c) == StatusOf(s, c) = "fail"
           Warns(c) == StatusOf(s, c) = "warn"
           Points(c) == The(Checks(s)[c]).score
<1>1. \A c \in CheckNames : /\ Fails(c) => Points(c) = 0 /\ ~Warns(c)
                            /\ Warns(c) => Points(c) = Half(Weight[c])
                                             /\ c \in {"otel", "security"}
                            /\ ~Fails(c) /\ ~Warns(c) => Points(c) = Weight[c]
  BY StatusGivesScore DEF StatusOf
<1>2. /\ Weight["health"] = 15 /\ Weight["slo"] = 20 /\ Weight["runbook"] = 15
      /\ Weight["otel"] = 15 /\ Weight["secrets"] = 20 /\ Weight["security"] = 15
      /\ Half(15) = 8
  BY DEF Weight, Half
<1>3. Score(s) = Points("health") + Points("slo") + Points("runbook") + Points("otel")
                   + Points("secrets") + Points("security")
  BY DEF Score
<1>h. Points("health") = (IF Fails("health") THEN 0 ELSE 15)
  BY <1>1, <1>2, NamesOfChecks
<1>l. Points("slo") = (IF Fails("slo") THEN 0 ELSE 20)
  BY <1>1, <1>2, NamesOfChecks
<1>r. Points("runbook") = (IF Fails("runbook") THEN 0 ELSE 15)
  BY <1>1, <1>2, NamesOfChecks
<1>o. /\ Points("otel") = (IF Fails("otel") THEN 0 ELSE IF Warns("otel") THEN 8 ELSE 15)
      /\ ~(Fails("otel") /\ Warns("otel"))
  BY <1>1, <1>2, NamesOfChecks
<1>s. Points("secrets") = (IF Fails("secrets") THEN 0 ELSE 20)
  BY <1>1, <1>2, NamesOfChecks
<1>v. /\ Points("security")
           = (IF Fails("security") THEN 0 ELSE IF Warns("security") THEN 8 ELSE 15)
      /\ ~(Fails("security") /\ Warns("security"))
  BY <1>1, <1>2, NamesOfChecks
<1>4. Failing(s) = {} <=> \A c \in CheckNames : ~Fails(c)
  BY DEF Failing
<1>5. \A c \in CheckNames :
        Failing(s) = {c} <=> Fails(c) /\ \A d \in CheckNames : d # c => ~Fails(d)
  BY DEF Failing
<1>6. Warned(s) = {} <=> ~Warns("otel") /\ ~Warns("security")
  BY <1>1, NamesOfChecks DEF Warned
<1> QED BY <1>3, <1>h, <1>l, <1>r, <1>o, <1>s, <1>v, <1>4, <1>5, <1>6, NamesOfChecks

\* A set of checks has one member exactly when it is a singleton.
LEMMA SingletonSize ==
  ASSUME NEW S \in SUBSET CheckNames
  PROVE  Cardinality(S) = 1 <=> \E c \in CheckNames : S = {c}
<1>1. IsFiniteSet(CheckNames)
  <2>1. \A x, y, z : IsFiniteSet({x, y, z})
    <3> SUFFICES ASSUME NEW x, NEW y, NEW z PROVE IsFiniteSet({x, y, z})
      OBVIOUS
    <3>1. IsFiniteSet({x}) /\ IsFiniteSet({y}) /\ IsFiniteSet({z})
      BY FS_Singleton
    <3>2. {x, y, z} = ({x} \cup {y}) \cup {z}
      OBVIOUS
    <3>3. IsFiniteSet({x} \cup {y})
      BY <3>1, FS_Union
    <3>4. IsFiniteSet(({x} \cup {y}) \cup {z})
      BY <3>1, <3>3, FS_Union
    <3> QED BY <3>2, <3>4
  <2>2. CheckNames = {"health", "slo", "runbook"} \cup {"otel", "secrets", "security"}
    BY NamesOfChecks
  <2> QED BY <2>1, <2>2, FS_Union
<1>2. IsFiniteSet(S)
  BY <1>1, FS_Subset
<1> QED BY <1>2, FS_Singleton

\* A deploy passes exactly when no critical CVE is open and either no check fails,
\* or one does and no other is even at warning level, whatever the counts.
THEOREM PassesIffAtMostOneCheckDownHolds == Spec => []PassesIffAtMostOneCheckDown
<1>1. TypeOK => PassesIffAtMostOneCheckDown
  <2> SUFFICES ASSUME TypeOK, ChecksDefined(signals)
               PROVE  Passed(signals) <=>
                        /\ signals.critical = 0
                        /\ \/ Failing(signals) = {}
                           \/ Cardinality(Failing(signals)) = 1 /\ Warned(signals) = {}
    BY DEF PassesIffAtMostOneCheckDown
  <2>1. signals \in Signals /\ signals.critical \in Nat
    BY DEF TypeOK, Signals
  <2>2. Cardinality(Failing(signals)) = 1
          <=> \E c \in CheckNames : Failing(signals) = {c}
    BY SingletonSize DEF Failing
  <2>3. CriticalCveBlock(signals) <=> signals.critical # 0
    BY <2>1 DEF CriticalCveBlock
  <2> QED BY <2>1, <2>2, <2>3, ScoreByStatus DEF Passed
<1> QED BY <1>1, SignalsTyped, PTL

\* The two enforcement layers agree on every passing evaluation.
THEOREM AdmittedIfPassedHolds == Spec => []AdmittedIfPassed
<1>1. TypeOK => AdmittedIfPassed
  <2> SUFFICES ASSUME TypeOK, Passed(signals)
               PROVE  GatekeeperAdmits(TRUE, Score(signals))
    BY DEF AdmittedIfPassed
  <2>1. ChecksDefined(signals) /\ Score(signals) >= 80
    BY DEF Passed
  <2>2. Score(signals) \in Nat
    BY <2>1, ScoreIsNat
  <2> QED BY <2>1, <2>2 DEF GatekeeperAdmits, MinScore
<1> QED BY <1>1, SignalsTyped, PTL
-----------------------------------------------------------------------------
(* The verdict never gets worse when a signal gets better.                 *)

\* The points of a check that has one result only.
LEMMA OnlyResult ==
  /\ \A c : The({Pass(c)}).score = Weight[c] /\ The({Warn(c)}).score = Half(Weight[c])
  /\ \A d : The({Fail(d)}).score = 0
<1>1. \A r : The({r}) = r
  <2> SUFFICES ASSUME NEW r PROVE The({r}) = r
    OBVIOUS
  <2> QED BY TheIsMember
<1>2. /\ \A c : Pass(c).score = Weight[c] /\ Warn(c).score = Half(Weight[c])
      /\ \A d : Fail(d).score = 0
  BY DEF Pass, Warn, Fail
<1> QED BY <1>1, <1>2

RunbookFresh(s) == s.runbook_url /\ s.updated_at >= s.last_deploy
SecretsClean(s) == s.vault /\ ~s.plaintext

\* The points of each check, in terms of the signals alone.
LEMMA PointsOf ==
  ASSUME NEW s \in Signals, ChecksDefined(s)
  PROVE  /\ The(CheckHealth(s)).score = IF s.health THEN 15 ELSE 0
         /\ The(CheckSlo(s)).score = IF s.slo THEN 20 ELSE 0
         /\ The(CheckRunbook(s)).score = IF RunbookFresh(s) THEN 15 ELSE 0
         /\ s.runbook_url => s.updated_at \in Nat /\ s.last_deploy \in Nat
         /\ The(CheckOtel(s)).score
              = IF ~s.otel THEN 0 ELSE IF s.otel_missing = 0 THEN 15 ELSE 8
         /\ The(CheckSecrets(s)).score = IF SecretsClean(s) THEN 20 ELSE 0
         /\ The(CheckSecurity(s)).score
              = IF s.critical > 0 THEN 0 ELSE IF s.high <= 3 THEN 15 ELSE 8
<1>1. /\ s.critical \in Nat /\ s.high \in Nat /\ s.otel_missing \in Nat
      /\ s.updated_at \in Time \cup {Null} /\ s.last_deploy \in Time \cup {Null}
      /\ s.health \in BOOLEAN /\ s.slo \in BOOLEAN /\ s.runbook_url \in BOOLEAN
      /\ s.otel \in BOOLEAN /\ s.vault \in BOOLEAN /\ s.plaintext \in BOOLEAN
  BY DEF Signals
<1>2. /\ Weight["health"] = 15 /\ Weight["slo"] = 20 /\ Weight["runbook"] = 15
      /\ Weight["otel"] = 15 /\ Weight["secrets"] = 20 /\ Weight["security"] = 15
      /\ Half(15) = 8
  BY DEF Weight, Half
<1>b. /\ The({Pass("health")}).score = 15 /\ The({Fail("down")}).score = 0
      /\ The({Pass("slo")}).score = 20 /\ The({Fail("no slo")}).score = 0
      /\ The({Pass("runbook")}).score = 15 /\ The({Fail("stale")}).score = 0
      /\ The({Fail("no runbook")}).score = 0
      /\ The({Pass("otel")}).score = 15 /\ The({Warn("otel")}).score = 8
      /\ The({Fail("no traces")}).score = 0
      /\ The({Pass("secrets")}).score = 20 /\ The({Fail("plaintext")}).score = 0
      /\ The({Fail("no vault")}).score = 0
      /\ The({Pass("security")}).score = 15 /\ The({Warn("security")}).score = 8
      /\ The({Fail("critical")}).score = 0
  <2>1. \A c, d : /\ The({Pass(c)}).score = Weight[c]
                  /\ The({Warn(c)}).score = Half(Weight[c])
                  /\ The({Fail(d)}).score = 0
    BY OnlyResult
  <2>2. /\ The({Warn("otel")}).score = Half(Weight["otel"])
        /\ The({Warn("security")}).score = Half(Weight["security"])
    BY <2>1
  <2>3. /\ The({Pass("health")}).score = Weight["health"]
        /\ The({Pass("slo")}).score = Weight["slo"]
        /\ The({Pass("runbook")}).score = Weight["runbook"]
        /\ The({Pass("otel")}).score = Weight["otel"]
        /\ The({Pass("secrets")}).score = Weight["secrets"]
        /\ The({Pass("security")}).score = Weight["security"]
    BY <2>1
  <2>4. /\ The({Fail("down")}).score = 0 /\ The({Fail("no slo")}).score = 0
        /\ The({Fail("stale")}).score = 0 /\ The({Fail("no runbook")}).score = 0
        /\ The({Fail("no traces")}).score = 0 /\ The({Fail("plaintext")}).score = 0
        /\ The({Fail("no vault")}).score = 0 /\ The({Fail("critical")}).score = 0
    BY <2>1
  <2> QED BY <1>2, <2>2, <2>3, <2>4
<1>3. The(CheckHealth(s)).score = IF s.health THEN 15 ELSE 0
  <2>1. /\ s.health => CheckHealth(s) = {Pass("health")}
        /\ ~s.health => CheckHealth(s) = {Fail("down")}
    BY DEF CheckHealth, Body
  <2>2. /\ s.health => The(CheckHealth(s)).score = 15
        /\ ~s.health => The(CheckHealth(s)).score = 0
    BY <1>b, <2>1
  <2> QED BY <2>2
<1>4. The(CheckSlo(s)).score = IF s.slo THEN 20 ELSE 0
  <2>1. /\ s.slo => CheckSlo(s) = {Pass("slo")}
        /\ ~s.slo => CheckSlo(s) = {Fail("no slo")}
    BY DEF CheckSlo, Body
  <2>2. /\ s.slo => The(CheckSlo(s)).score = 20
        /\ ~s.slo => The(CheckSlo(s)).score = 0
    BY <1>b, <2>1
  <2> QED BY <2>2
<1>5. /\ s.runbook_url => s.updated_at \in Nat /\ s.last_deploy \in Nat
      /\ The(CheckRunbook(s)).score = IF RunbookFresh(s) THEN 15 ELSE 0
  <2> DEFINE dated == s.runbook_url /\ s.updated_at # Null /\ s.last_deploy # Null
             fresh == dated /\ s.updated_at >= s.last_deploy
             stale == dated /\ s.updated_at < s.last_deploy
  <2>1. dated => s.updated_at \in Nat /\ s.last_deploy \in Nat
    BY <1>1, TimeAssumption
  <2>2. CheckRunbook(s) = Body(fresh, Pass("runbook")) \cup Body(stale, Fail("stale"))
                            \cup Body(~s.runbook_url, Fail("no runbook"))
    BY DEF CheckRunbook
  <2>3. CheckRunbook(s) # {}
    BY NamesOfChecks DEF ChecksDefined, Checks
  <2>4. s.runbook_url => dated
    BY <2>2, <2>3 DEF Body
  <2>5. /\ fresh \/ stale \/ ~s.runbook_url
        /\ ~(fresh /\ stale)
        /\ (fresh \/ stale) => s.runbook_url
        /\ fresh <=> RunbookFresh(s)
    <3>1. \A m, n \in Nat : (m >= n \/ m < n) /\ ~(m >= n /\ m < n)
      OBVIOUS
    <3> QED BY <2>1, <2>4, <3>1 DEF RunbookFresh
  <2> HIDE DEF fresh, stale, dated
  <2>6. /\ fresh => CheckRunbook(s) = {Pass("runbook")}
        /\ stale => CheckRunbook(s) = {Fail("stale")}
        /\ ~s.runbook_url => CheckRunbook(s) = {Fail("no runbook")}
    BY <2>2, <2>5 DEF Body
  <2>7. /\ fresh => The(CheckRunbook(s)).score = 15
        /\ stale => The(CheckRunbook(s)).score = 0
        /\ ~s.runbook_url => The(CheckRunbook(s)).score = 0
    BY <1>b, <2>6
  <2> QED BY <2>1, <2>4, <2>5, <2>7
<1>6. The(CheckOtel(s)).score
        = IF ~s.otel THEN 0 ELSE IF s.otel_missing = 0 THEN 15 ELSE 8
  <2>1. (s.otel_missing = 0 \/ s.otel_missing > 0) /\ ~(s.otel_missing = 0 /\ s.otel_missing > 0)
    BY <1>1
  <2>2. /\ s.otel /\ s.otel_missing = 0 => CheckOtel(s) = {Pass("otel")}
        /\ s.otel /\ s.otel_missing > 0 => CheckOtel(s) = {Warn("otel")}
        /\ ~s.otel => CheckOtel(s) = {Fail("no traces")}
    BY <2>1 DEF CheckOtel, Body
  <2>3. /\ s.otel /\ s.otel_missing = 0 => The(CheckOtel(s)).score = 15
        /\ s.otel /\ s.otel_missing > 0 => The(CheckOtel(s)).score = 8
        /\ ~s.otel => The(CheckOtel(s)).score = 0
    BY <1>b, <2>2
  <2> QED BY <2>1, <2>3
<1>7. The(CheckSecrets(s)).score = IF SecretsClean(s) THEN 20 ELSE 0
  <2>1. /\ SecretsClean(s) => CheckSecrets(s) = {Pass("secrets")}
        /\ s.plaintext => CheckSecrets(s) = {Fail("plaintext")}
        /\ ~s.vault /\ ~s.plaintext => CheckSecrets(s) = {Fail("no vault")}
    BY DEF CheckSecrets, Body, SecretsClean
  <2> QED BY <1>b, <2>1 DEF SecretsClean
<1>8. The(CheckSecurity(s)).score
        = IF s.critical > 0 THEN 0 ELSE IF s.high <= 3 THEN 15 ELSE 8
  <2>1. /\ (s.critical = 0 \/ s.critical > 0) /\ ~(s.critical = 0 /\ s.critical > 0)
        /\ (s.high <= 3 \/ s.high > 3) /\ ~(s.high <= 3 /\ s.high > 3)
    BY <1>1
  <2>2. /\ s.critical = 0 /\ s.high <= 3 => CheckSecurity(s) = {Pass("security")}
        /\ s.critical = 0 /\ s.high > 3 => CheckSecurity(s) = {Warn("security")}
        /\ s.critical > 0 => CheckSecurity(s) = {Fail("critical")}
    BY <2>1 DEF CheckSecurity, Body
  <2>3. /\ s.critical = 0 /\ s.high <= 3 => The(CheckSecurity(s)).score = 15
        /\ s.critical = 0 /\ s.high > 3 => The(CheckSecurity(s)).score = 8
        /\ s.critical > 0 => The(CheckSecurity(s)).score = 0
    BY <1>b, <2>2
  <2> QED BY <2>1, <2>3
<1> QED BY <1>3, <1>4, <1>5, <1>6, <1>7, <1>8

\* Of two documents the better one scores at least as much, whatever they say.
LEMMA BetterScoresMore ==
  ASSUME NEW s \in Signals, NEW t \in Signals, ChecksDefined(s), ChecksDefined(t),
         AtLeastAsGood(s, t)
  PROVE  Score(t) >= Score(s)
<1>1. /\ s.critical \in Nat /\ s.high \in Nat /\ s.otel_missing \in Nat
      /\ t.critical \in Nat /\ t.high \in Nat /\ t.otel_missing \in Nat
  BY DEF Signals
<1>2. /\ (s.health => t.health) /\ (s.slo => t.slo) /\ (s.runbook_url => t.runbook_url)
      /\ (s.otel => t.otel) /\ (s.vault => t.vault)
      /\ (t.plaintext => s.plaintext) /\ t.otel_missing <= s.otel_missing
      /\ t.critical <= s.critical /\ t.high <= s.high
  BY DEF AtLeastAsGood
<1>3. RunbookFresh(s) => RunbookFresh(t)
  <2> SUFFICES ASSUME RunbookFresh(s) PROVE RunbookFresh(t)
    OBVIOUS
  <2>1. /\ s.updated_at \in Nat /\ s.last_deploy \in Nat
        /\ t.updated_at \in Nat /\ t.last_deploy \in Nat
        /\ s.updated_at >= s.last_deploy /\ t.runbook_url
    BY <1>2, PointsOf DEF RunbookFresh
  <2>2. t.updated_at >= s.updated_at /\ t.last_deploy <= s.last_deploy
    BY <2>1 DEF AtLeastAsGood
  <2> QED BY <2>1, <2>2 DEF RunbookFresh
<1>4. SecretsClean(s) => SecretsClean(t)
  BY <1>2 DEF SecretsClean
<1>5. PICK f, g : /\ f = [c \in CheckNames |-> The(Checks(s)[c]).score]
                  /\ g = [c \in CheckNames |-> The(Checks(t)[c]).score]
  OBVIOUS
<1>6. /\ Score(s) = f["health"] + f["slo"] + f["runbook"] + f["otel"] + f["secrets"] + f["security"]
      /\ Score(t) = g["health"] + g["slo"] + g["runbook"] + g["otel"] + g["secrets"] + g["security"]
  BY <1>5, NamesOfChecks DEF Score
<1>7. /\ f["health"] = The(CheckHealth(s)).score /\ g["health"] = The(CheckHealth(t)).score
      /\ f["slo"] = The(CheckSlo(s)).score /\ g["slo"] = The(CheckSlo(t)).score
      /\ f["runbook"] = The(CheckRunbook(s)).score /\ g["runbook"] = The(CheckRunbook(t)).score
      /\ f["otel"] = The(CheckOtel(s)).score /\ g["otel"] = The(CheckOtel(t)).score
      /\ f["secrets"] = The(CheckSecrets(s)).score /\ g["secrets"] = The(CheckSecrets(t)).score
      /\ f["security"] = The(CheckSecurity(s)).score
      /\ g["security"] = The(CheckSecurity(t)).score
  BY <1>5, NamesOfChecks DEF Checks
<1>8. \A c \in CheckNames : f[c] \in Nat /\ g[c] \in Nat /\ f[c] <= g[c]
  <2>1. f["health"] \in Nat /\ g["health"] \in Nat /\ f["health"] <= g["health"]
    BY <1>2, <1>7, PointsOf
  <2>2. f["slo"] \in Nat /\ g["slo"] \in Nat /\ f["slo"] <= g["slo"]
    BY <1>2, <1>7, PointsOf
  <2>3. f["runbook"] \in Nat /\ g["runbook"] \in Nat /\ f["runbook"] <= g["runbook"]
    BY <1>3, <1>7, PointsOf
  <2>4. f["otel"] \in Nat /\ g["otel"] \in Nat /\ f["otel"] <= g["otel"]
    BY <1>1, <1>2, <1>7, PointsOf
  <2>5. f["secrets"] \in Nat /\ g["secrets"] \in Nat /\ f["secrets"] <= g["secrets"]
    BY <1>4, <1>7, PointsOf
  <2>6. f["security"] \in Nat /\ g["security"] \in Nat /\ f["security"] <= g["security"]
    BY <1>1, <1>2, <1>7, PointsOf
  <2> QED BY <2>1, <2>2, <2>3, <2>4, <2>5, <2>6, NamesOfChecks
<1> QED BY <1>6, <1>8, NamesOfChecks

\* A service that passes goes on passing when one of its signals improves, whatever
\* counts and timestamps its probes report, as long as every check has a result.
THEOREM ImprovementKeepsPassingHolds == Spec => ImprovementKeepsPassing
<1>1. TypeOK /\ TypeOK' =>
        (Passed(signals) /\ AtLeastAsGood(signals, signals') /\ ChecksDefined(signals')
           => Passed(signals'))
  <2> SUFFICES ASSUME NEW s \in Signals, NEW t \in Signals, Passed(s), AtLeastAsGood(s, t),
                      ChecksDefined(t)
               PROVE  Passed(t)
    BY DEF TypeOK
  <2>1. ChecksDefined(s) /\ Score(s) >= 80 /\ ~(s.critical > 0)
    BY DEF Passed, CriticalCveBlock
  <2>2. Score(s) \in Nat /\ Score(t) \in Nat /\ Score(t) >= Score(s)
    BY <2>1, ScoreIsNat, BetterScoresMore
  <2>3. s.critical \in Nat /\ t.critical \in Nat /\ t.critical <= s.critical
    BY DEF Signals, AtLeastAsGood
  <2> QED BY <2>1, <2>2, <2>3 DEF Passed, CriticalCveBlock
<1> QED BY <1>1, SignalsTyped, PTL DEF ImprovementKeepsPassing

\* The one gap of the six checks: a runbook of a service for which one of the two
\* dates is missing matches no body of check_runbook, and any other document has a
\* score (policy.rego: "each check returns").
THEOREM OnlyGap ==
  ASSUME NEW s \in Signals
  PROVE  ChecksDefined(s)
           <=> ~(s.runbook_url /\ (s.updated_at = Null \/ s.last_deploy = Null))
<1>1. /\ s.critical \in Nat /\ s.high \in Nat /\ s.otel_missing \in Nat
      /\ s.updated_at \in Time \cup {Null} /\ s.last_deploy \in Time \cup {Null}
  BY DEF Signals
<1>2. \A holds, result : Body(holds, result) # {} <=> holds
  BY DEF Body
<1>3. Checks(s)["health"] # {} /\ Checks(s)["slo"] # {} /\ Checks(s)["secrets"] # {}
  BY <1>2 DEF Checks, CheckHealth, CheckSlo, CheckSecrets
<1>4. Checks(s)["otel"] # {} /\ Checks(s)["security"] # {}
  <2>1. /\ s.otel_missing = 0 \/ s.otel_missing > 0
        /\ s.critical = 0 \/ s.critical > 0
        /\ s.high <= 3 \/ s.high > 3
    BY <1>1
  <2> QED BY <1>2, <2>1 DEF Checks, CheckOtel, CheckSecurity
<1>5. Checks(s)["runbook"] # {}
        <=> ~(s.runbook_url /\ (s.updated_at = Null \/ s.last_deploy = Null))
  <2> DEFINE dated == s.runbook_url /\ s.updated_at # Null /\ s.last_deploy # Null
             fresh == dated /\ s.updated_at >= s.last_deploy
             stale == dated /\ s.updated_at < s.last_deploy
  <2>1. Checks(s)["runbook"] = Body(fresh, Pass("runbook")) \cup Body(stale, Fail("stale"))
                                 \cup Body(~s.runbook_url, Fail("no runbook"))
    BY DEF Checks, CheckRunbook
  <2>2. dated => s.updated_at >= s.last_deploy \/ s.updated_at < s.last_deploy
    <3>1. dated => s.updated_at \in Nat /\ s.last_deploy \in Nat
      BY <1>1, TimeAssumption
    <3>2. \A m, n \in Nat : m >= n \/ m < n
      OBVIOUS
    <3> QED BY <3>1, <3>2
  <2>3. Checks(s)["runbook"] # {} <=> fresh \/ stale \/ ~s.runbook_url
    BY <1>2, <2>1
  <2> QED BY <2>2, <2>3
<1> QED BY <1>3, <1>4, <1>5, NamesOfChecks DEF ChecksDefined
=============================================================================
