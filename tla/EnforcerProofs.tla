--------------------------- MODULE EnforcerProofs ---------------------------
(***************************************************************************)
(* Proofs about the enforcer, for any sets of services, requests, alert    *)
(* groups and policy inputs, and any bounds on faults and overrides.       *)
(***************************************************************************)
EXTENDS Enforcer, PolicyLemmas, TLAPS

-----------------------------------------------------------------------------
\* Whatever OPA is asked and whether or not it has a policy, a verdict that
\* passes carries a score the admission constraint accepts.
LEMMA OpaAnswersSound ==
  \A v \in OpaAnswers : v \in Verdict /\ (v.passed => v.score >= MinScore)
<1> SUFFICES ASSUME NEW v \in OpaAnswers
             PROVE  v \in Verdict /\ (v.passed => v.score >= MinScore)
  OBVIOUS
<1>1. CASE v = NoPolicyLoaded
  BY <1>1 DEF NoPolicyLoaded, Verdict
<1>2. ASSUME NEW input \in Inputs, v = Evaluation(input)
      PROVE  v \in Verdict /\ (v.passed => v.score >= MinScore)
  <2>1. Passed(input) \in BOOLEAN
    BY DEF Passed
  <2>2. CASE ChecksDefined(input)
    <3>1. v = [score |-> Score(input), passed |-> Passed(input)]
      BY <1>2, <2>2 DEF Evaluation
    <3>2. v.passed => Score(input) >= 80
      BY <3>1 DEF Passed
    <3> QED BY <3>1, <3>2, <2>1, <2>2, ScoreIsNat DEF Verdict, MinScore
  <2>3. CASE ~ChecksDefined(input)
    <3>1. Passed(input) = FALSE
      BY <2>3 DEF Passed
    <3>2. v = [score |-> 0, passed |-> FALSE]
      BY <1>2, <2>3, <3>1 DEF Evaluation
    <3> QED BY <3>2 DEF Verdict
  <2> QED BY <2>2, <2>3
<1> QED BY <1>1, <1>2 DEF OpaAnswers

-----------------------------------------------------------------------------
(***************************************************************************)
(* The inductive invariant.  TypeOK alone is not inductive: a handler that *)
(* is past its first step has a service (Bound).  The verdict a handler    *)
(* carries is one OPA gave (VerdictSound).  A handler between its UPDATE   *)
(* and its commit holds the row, and a freeze got it unfrozen (HoldsRow).  *)
(***************************************************************************)
Bound ==
  /\ \A r \in Requests : deploys[r].pc # "idle" => deploys[r].service \in Services
  /\ \A a \in Alerts : freezes[a].pc # "quiet" => freezes[a].service \in Services

VerdictSound ==
  \A r \in Requests : deploys[r].verdict.passed => deploys[r].verdict.score >= MinScore

FreezesInTransaction == {a \in Alerts : freezes[a].pc \in {"publishing", "committing"}}

HoldsRow ==
  /\ \A a \in FreezesInTransaction : /\ rowLock[freezes[a].service] = a
                                     /\ ~services[freezes[a].service].frozen
  /\ \A r \in Requests :
       deploys[r].pc = "committing" => rowLock[deploys[r].service] = r

TypeInv == TypeOK /\ Bound

\* The database and the handlers start well typed.
LEMMA InitTypeInv == Init => TypeInv
<1> SUFFICES ASSUME Init PROVE TypeInv
  OBVIOUS
<1> USE DEF Init, TypeInv
<1>1. history \in Seq(HistoryRow)
  OBVIOUS
<1>2. \A r \in Requests : deploys[r] = DeployIdle /\ deploys[r].pc = "idle"
  BY DEF DeployIdle
<1>3. DeployIdle \in Deploy
  BY DEF Deploy, DeployIdle, DeployPc, NoPolicyLoaded, Verdict
<1>4. AlertQuiet \in Freeze
  BY DEF Freeze, AlertQuiet, AlertPc
<1>5. \A a \in Alerts : freezes[a].pc = "quiet"
  BY DEF AlertQuiet
<1>6. TypeOK
  BY <1>1, <1>3, <1>4 DEF TypeOK, ServiceRow
<1> QED BY <1>2, <1>5, <1>6 DEF Bound

\* What changing the state of one call leaves of the others, and of the call.
LEMMA DeployMoves ==
  ASSUME TypeInv, NEW r \in Requests, NEW pc \in DeployPc \ {"idle"},
         deploys[r].pc # "idle", deploys' = [deploys EXCEPT ![r].pc = pc]
  PROVE  /\ deploys' \in [Requests -> Deploy]
         /\ \A q \in Requests : /\ deploys'[q].service = deploys[q].service
                                /\ deploys'[q].verdict = deploys[q].verdict
                                /\ deploys'[q].pc = IF q = r THEN pc ELSE deploys[q].pc
         /\ \A q \in Requests : deploys'[q].pc # "idle" => deploys'[q].service \in Services
<1>1. deploys \in [Requests -> Deploy]
  BY DEF TypeInv, TypeOK
<1>2. [deploys[r] EXCEPT !.pc = pc] \in Deploy
  BY <1>1 DEF Deploy
<1>3. deploys' \in [Requests -> Deploy]
  BY <1>1, <1>2
<1>4. \A q \in Requests : /\ deploys'[q].service = deploys[q].service
                          /\ deploys'[q].verdict = deploys[q].verdict
                          /\ deploys'[q].pc = IF q = r THEN pc ELSE deploys[q].pc
  BY <1>1 DEF Deploy
<1> QED BY <1>3, <1>4 DEF TypeInv, Bound

\* The same for a freeze.
LEMMA FreezeMoves ==
  ASSUME TypeInv, NEW a \in Alerts, NEW pc \in AlertPc \ {"quiet"},
         freezes[a].pc # "quiet", freezes' = [freezes EXCEPT ![a].pc = pc]
  PROVE  /\ freezes' \in [Alerts -> Freeze]
         /\ \A b \in Alerts : /\ freezes'[b].service = freezes[b].service
                              /\ freezes'[b].pc = IF b = a THEN pc ELSE freezes[b].pc
         /\ \A b \in Alerts : freezes'[b].pc # "quiet" => freezes'[b].service \in Services
<1>1. freezes \in [Alerts -> Freeze]
  BY DEF TypeInv, TypeOK
<1>2. [freezes[a] EXCEPT !.pc = pc] \in Freeze
  BY <1>1 DEF Freeze
<1>3. freezes' \in [Alerts -> Freeze]
  BY <1>1, <1>2
<1>4. \A b \in Alerts : /\ freezes'[b].service = freezes[b].service
                        /\ freezes'[b].pc = IF b = a THEN pc ELSE freezes[b].pc
  BY <1>1 DEF Freeze
<1> QED BY <1>3, <1>4 DEF TypeInv, Bound

\* Every step of a handler, of Alertmanager or of an operator keeps the types and
\* the services the handlers are bound to.
LEMMA NextTypeInv ==
  ASSUME TypeInv, [Next]_vars
  PROVE  TypeInv'
<1> USE DEF TypeInv
<1>1. ASSUME NEW r \in Requests, SubmitDeploy(r) PROVE TypeInv'
  <2>1. PICK s \in Services : deploys' = [deploys EXCEPT ![r] =
                     [@ EXCEPT !.service = s,
                               !.pc = IF ~Active(s) THEN "not_found"
                                      ELSE IF services[s].frozen THEN "frozen"
                                      ELSE "evaluating"]]
    BY <1>1 DEF SubmitDeploy
  <2>2. deploys'[r] \in Deploy /\ deploys'[r].service = s
    BY <2>1 DEF TypeOK, Deploy, DeployPc, InHandler, DeployDone
  <2>3. \A q \in Requests \ {r} : deploys'[q] = deploys[q]
    BY <2>1 DEF TypeOK
  <2>4. deploys' \in [Requests -> Deploy]
    BY <2>1, <2>2 DEF TypeOK
  <2> QED BY <1>1, <2>2, <2>3, <2>4 DEF SubmitDeploy, TypeOK, Bound
<1>2. ASSUME NEW r \in Requests, EvaluateDeploy(r) PROVE TypeInv'
  <2>1. PICK v \in OpaAnswers :
          deploys' = [deploys EXCEPT ![r].pc = "writing", ![r].verdict = v]
    BY <1>2 DEF EvaluateDeploy
  <2>2. /\ deploys'[r] = [deploys[r] EXCEPT !.pc = "writing", !.verdict = v]
        /\ \A q \in Requests \ {r} : deploys'[q] = deploys[q]
        /\ DOMAIN deploys' = Requests /\ deploys' = [q \in Requests |-> deploys'[q]]
    BY <2>1 DEF TypeOK
  <2>3. deploys'[r] \in Deploy /\ deploys'[r].service = deploys[r].service
    <3>1. v \in Verdict /\ "writing" \in DeployPc
      BY <2>1, OpaAnswersSound DEF DeployPc, InHandler
    <3>2. deploys[r] \in Deploy
      BY DEF TypeOK
    <3> QED BY <2>2, <3>1, <3>2 DEF Deploy
  <2>4. deploys' \in [Requests -> Deploy]
    BY <2>2, <2>3 DEF TypeOK
  <2>5. deploys[r].service \in Services
    BY <1>2 DEF EvaluateDeploy, Bound
  <2> QED BY <1>2, <2>2, <2>3, <2>4, <2>5 DEF EvaluateDeploy, TypeOK, Bound
<1>3. ASSUME NEW r \in Requests, OpaFails(r) PROVE TypeInv'
  <2>1. deploys[r].pc # "idle" /\ "error" \in DeployPc \ {"idle"}
    BY <1>3 DEF OpaFails, DeployPc, DeployDone
  <2> QED BY <1>3, <2>1, DeployMoves DEF OpaFails, TypeOK, Bound
<1>4. ASSUME NEW r \in Requests, WriteDeploy(r) PROVE TypeInv'
  <2>1. deploys[r].pc # "idle" /\ "committing" \in DeployPc \ {"idle"}
    BY <1>4 DEF WriteDeploy, DeployPc, InHandler
  <2>2. rowLock' \in [Services -> Requests \cup Alerts \cup {Null}]
    BY <1>4 DEF WriteDeploy, TypeOK
  <2> QED BY <1>4, <2>1, <2>2, DeployMoves DEF WriteDeploy, TypeOK, Bound
<1>5. ASSUME NEW r \in Requests, CommitDeploy(r) PROVE TypeInv'
  <2>1. deploys[r].service \in Services /\ deploys[r].verdict \in Verdict
    BY <1>5 DEF CommitDeploy, TypeOK, Bound, Deploy
  <2>2. DeployRow(r) \in HistoryRow /\ DeployRow(r).status \in DeployPc \ {"idle"}
    BY <2>1 DEF DeployRow, HistoryRow, Verdict, DeployPc, DeployDone
  <2>3. history' \in Seq(HistoryRow)
    BY <1>5, <2>2 DEF CommitDeploy, TypeOK
  <2>4. services' \in [Services -> ServiceRow]
    <3>1. [services[deploys[r].service] EXCEPT !.score = deploys[r].verdict.score]
            \in ServiceRow
      BY <2>1 DEF TypeOK, ServiceRow, Verdict
    <3> QED BY <1>5, <2>1, <3>1 DEF CommitDeploy, TypeOK
  <2>5. rowLock' \in [Services -> Requests \cup Alerts \cup {Null}]
    BY <1>5 DEF CommitDeploy, TypeOK
  <2>6. deploys' = [deploys EXCEPT ![r].pc = DeployRow(r).status] /\ deploys[r].pc # "idle"
    BY <1>5 DEF CommitDeploy
  <2>7. /\ deploys' \in [Requests -> Deploy]
        /\ \A q \in Requests : deploys'[q].pc # "idle" => deploys'[q].service \in Services
    BY <2>2, <2>6, DeployMoves
  <2> QED BY <1>5, <2>3, <2>4, <2>5, <2>7 DEF CommitDeploy, TypeOK, Bound
<1>6. ASSUME NEW r \in Requests, AbortDeploy(r) PROVE TypeInv'
  <2>1. deploys[r].pc # "idle" /\ "error" \in DeployPc \ {"idle"}
    BY <1>6 DEF AbortDeploy, DeployPc, DeployDone
  <2>2. rowLock' \in [Services -> Requests \cup Alerts \cup {Null}]
    BY <1>6 DEF AbortDeploy, TypeOK
  <2>3. faults' \in Nat
    BY <1>6 DEF AbortDeploy, TypeOK
  <2> QED BY <1>6, <2>1, <2>2, <2>3, DeployMoves DEF AbortDeploy, TypeOK, Bound
<1>7. ASSUME NEW a \in Alerts, AlertFires(a) PROVE TypeInv'
  <2>1. PICK s \in Services : freezes' = [freezes EXCEPT ![a] = [pc |-> "firing", service |-> s]]
    BY <1>7 DEF AlertFires
  <2>2. [pc |-> "firing", service |-> s] \in Freeze
    BY DEF Freeze, AlertPc
  <2>3. freezes' \in [Alerts -> Freeze] /\ freezes'[a].service = s
    BY <2>1, <2>2 DEF TypeOK
  <2>4. \A b \in Alerts \ {a} : freezes'[b] = freezes[b]
    BY <2>1 DEF TypeOK
  <2> QED BY <1>7, <2>3, <2>4 DEF AlertFires, TypeOK, Bound
<1>8. ASSUME NEW a \in Alerts, AlertRepeats(a) PROVE TypeInv'
  <2>1. freezes[a].pc # "quiet" /\ "firing" \in AlertPc \ {"quiet"}
    BY <1>8 DEF AlertRepeats, AlertPc
  <2> QED BY <1>8, <2>1, FreezeMoves DEF AlertRepeats, TypeOK, Bound
<1>9. ASSUME NEW a \in Alerts, FreezeUpdate(a) PROVE TypeInv'
  <2>1. /\ freezes[a].pc # "quiet"
        /\ "publishing" \in AlertPc \ {"quiet"} /\ "already_frozen" \in AlertPc \ {"quiet"}
    BY <1>9 DEF FreezeUpdate, FreezeUpdateWhere, AlertPc
  <2>2. rowLock' \in [Services -> Requests \cup Alerts \cup {Null}]
    BY <1>9 DEF FreezeUpdate, FreezeUpdateWhere, TypeOK
  <2>3. \/ freezes' = [freezes EXCEPT ![a].pc = "publishing"]
        \/ freezes' = [freezes EXCEPT ![a].pc = "already_frozen"]
    BY <1>9 DEF FreezeUpdate, FreezeUpdateWhere
  <2>4. /\ freezes' \in [Alerts -> Freeze]
        /\ \A b \in Alerts : freezes'[b].pc # "quiet" => freezes'[b].service \in Services
    BY <2>1, <2>3, FreezeMoves
  <2> QED BY <1>9, <2>2, <2>4 DEF FreezeUpdate, FreezeUpdateWhere, TypeOK, Bound
<1>10. ASSUME NEW a \in Alerts, FreezePublish(a) PROVE TypeInv'
  <2>1. freezes[a].pc # "quiet" /\ "committing" \in AlertPc \ {"quiet"}
    BY <1>10 DEF FreezePublish, AlertPc
  <2>2. events' \in [Services -> Nat]
    <3>1. freezes[a].service \in Services
      BY <1>10 DEF FreezePublish, Bound
    <3>2. \A s \in Services : events[s] + 1 \in Nat
      BY DEF TypeOK
    <3> QED BY <1>10, <3>1, <3>2 DEF FreezePublish, TypeOK
  <2> QED BY <1>10, <2>1, <2>2, FreezeMoves DEF FreezePublish, TypeOK, Bound
<1>11. ASSUME NEW a \in Alerts, FreezeCommit(a) PROVE TypeInv'
  <2>1. /\ freezes[a].pc # "quiet"
        /\ "frozen" \in AlertPc \ {"quiet"} /\ "firing" \in AlertPc \ {"quiet"}
    BY <1>11 DEF FreezeCommit, AlertPc
  <2>2. /\ rowLock' \in [Services -> Requests \cup Alerts \cup {Null}]
        /\ freezeCount' \in [Services -> Nat]
        /\ faults' \in Nat
    <3>1. rowLock' \in [Services -> Requests \cup Alerts \cup {Null}]
      BY <1>11 DEF FreezeCommit, TypeOK
    <3>2. \A s \in Services : freezeCount[s] + (IF services[s].frozen THEN 0 ELSE 1) \in Nat
      BY DEF TypeOK
    <3>3. freezes[a].service \in Services
      BY <1>11 DEF FreezeCommit, Bound
    <3>4. freezeCount' \in [Services -> Nat]
      BY <1>11, <3>2, <3>3 DEF FreezeCommit, TypeOK
    <3>5. faults' \in Nat
      BY <1>11 DEF FreezeCommit, TypeOK
    <3> QED BY <3>1, <3>4, <3>5
  <2>3. services' \in [Services -> ServiceRow]
    <3>1. \A s \in Services : [services[s] EXCEPT !.frozen = TRUE] \in ServiceRow
      BY DEF TypeOK, ServiceRow
    <3> QED BY <1>11, <3>1 DEF FreezeCommit, TypeOK
  <2>4. \/ freezes' = [freezes EXCEPT ![a].pc = "frozen"]
        \/ freezes' = [freezes EXCEPT ![a].pc = "firing"]
    BY <1>11 DEF FreezeCommit
  <2>5. /\ freezes' \in [Alerts -> Freeze]
        /\ \A b \in Alerts : freezes'[b].pc # "quiet" => freezes'[b].service \in Services
    BY <2>1, <2>4, FreezeMoves
  <2> QED BY <1>11, <2>2, <2>3, <2>5 DEF FreezeCommit, TypeOK, Bound
<1>12. ASSUME NEW a \in Alerts, FreezeAbort(a) PROVE TypeInv'
  <2>1. freezes[a].pc # "quiet" /\ "firing" \in AlertPc \ {"quiet"}
    BY <1>12 DEF FreezeAbort, AlertPc
  <2>2. rowLock' \in [Services -> Requests \cup Alerts \cup {Null}]
    BY <1>12 DEF FreezeAbort, TypeOK
  <2>3. faults' \in Nat
    BY <1>12 DEF FreezeAbort, TypeOK
  <2> QED BY <1>12, <2>1, <2>2, <2>3, FreezeMoves DEF FreezeAbort, TypeOK, Bound
<1>13. ASSUME NEW s \in Services, Unfreeze(s) PROVE TypeInv'
  <2>1. [services[s] EXCEPT !.frozen = FALSE] \in ServiceRow
    BY DEF TypeOK, ServiceRow
  <2>2. services' \in [Services -> ServiceRow]
    BY <1>13, <2>1 DEF Unfreeze, TypeOK
  <2> QED BY <1>13, <2>2 DEF Unfreeze, TypeOK, Bound
<1>14. ASSUME NEW s \in Services, DeleteService(s) PROVE TypeInv'
  <2>1. [services[s] EXCEPT !.deleted = TRUE] \in ServiceRow
    BY DEF TypeOK, ServiceRow
  <2>2. services' \in [Services -> ServiceRow]
    BY <1>14, <2>1 DEF DeleteService, TypeOK
  <2> QED BY <1>14, <2>2 DEF DeleteService, TypeOK, Bound
<1>15. CASE UNCHANGED vars
  BY <1>15 DEF vars, TypeOK, Bound
<1> QED
  BY <1>1, <1>2, <1>3, <1>4, <1>5, <1>6, <1>7, <1>8, <1>9, <1>10, <1>11, <1>12, <1>13,
     <1>14, <1>15 DEF Next, DeployStep, FreezeStep

\* Every variable keeps its type in every behaviour of the enforcer.
THEOREM TypeCorrect == Spec => []TypeOK
<1>1. TypeInv => TypeOK
  BY DEF TypeInv
<1> QED BY <1>1, InitTypeInv, NextTypeInv, PTL DEF Spec

-----------------------------------------------------------------------------
(* The gate: what is queued passed.                                        *)

GateInv == TypeInv /\ VerdictSound /\ QueuedOnlyAboveThreshold

\* Only an evaluation changes the verdict a call carries.
LEMMA VerdictsKept ==
  ASSUME TypeInv, NEW r \in Requests, NEW pc, deploys' = [deploys EXCEPT ![r].pc = pc]
  PROVE  \A q \in Requests : deploys'[q].verdict = deploys[q].verdict
BY DEF TypeInv, TypeOK, Deploy

\* A handler never comes to carry a passing verdict other than one of OPA's.
LEMMA NextVerdictSound ==
  ASSUME TypeInv, VerdictSound, [Next]_vars
  PROVE  VerdictSound'
<1>1. ASSUME NEW r \in Requests, SubmitDeploy(r) PROVE VerdictSound'
  <2>1. \A q \in Requests : deploys'[q].verdict = deploys[q].verdict
    BY <1>1 DEF SubmitDeploy, TypeInv, TypeOK, Deploy
  <2> QED BY <2>1 DEF VerdictSound
<1>2. ASSUME NEW r \in Requests, EvaluateDeploy(r) PROVE VerdictSound'
  <2>1. PICK v \in OpaAnswers :
          deploys' = [deploys EXCEPT ![r].pc = "writing", ![r].verdict = v]
    BY <1>2 DEF EvaluateDeploy
  <2>2. /\ deploys'[r] = [deploys[r] EXCEPT !.pc = "writing", !.verdict = v]
        /\ \A q \in Requests \ {r} : deploys'[q] = deploys[q]
    BY <2>1 DEF TypeInv, TypeOK
  <2>3. deploys'[r].verdict = v
    BY <2>2 DEF TypeInv, TypeOK, Deploy
  <2> QED BY <2>2, <2>3, OpaAnswersSound DEF VerdictSound
<1>3. ASSUME NEW r \in Requests,
             OpaFails(r) \/ WriteDeploy(r) \/ CommitDeploy(r) \/ AbortDeploy(r)
      PROVE  VerdictSound'
  <2>1. \E pc : deploys' = [deploys EXCEPT ![r].pc = pc]
    BY <1>3 DEF OpaFails, WriteDeploy, CommitDeploy, AbortDeploy
  <2> QED BY <2>1, VerdictsKept DEF VerdictSound
<1>4. CASE UNCHANGED deploys
  BY <1>4 DEF VerdictSound
<1> QED
  BY <1>1, <1>2, <1>3, <1>4
  DEF Next, DeployStep, FreezeStep, AlertFires, AlertRepeats, FreezeUpdate, FreezeUpdateWhere,
      FreezePublish, FreezeCommit, FreezeAbort, Unfreeze, DeleteService, vars

\* Appending a row changes no earlier one.
LEMMA AppendIndices ==
  ASSUME NEW S, NEW seq \in Seq(S), NEW x
  PROVE  /\ DOMAIN seq = 1..Len(seq)
         /\ DOMAIN Append(seq, x) = 1..(Len(seq) + 1)
         /\ Len(seq) \in Nat
         /\ Append(seq, x)[Len(seq) + 1] = x
         /\ \A i \in DOMAIN seq : Append(seq, x)[i] = seq[i]
         /\ \A i \in 1..(Len(seq) + 1) : \/ Append(seq, x)[i] = x
                                         \/ i \in DOMAIN seq /\ Append(seq, x)[i] = seq[i]
<1>1. Len(seq) \in Nat /\ DOMAIN seq = 1..Len(seq)
  OBVIOUS
<1>2. DOMAIN Append(seq, x) = 1..(Len(seq) + 1)
  <2>1. Append(seq, x) \in Seq(S \cup {x}) /\ Len(Append(seq, x)) = Len(seq) + 1
    OBVIOUS
  <2> QED BY <2>1
<1>3. \A i \in 1..(Len(seq) + 1) :
        Append(seq, x)[i] = IF i = Len(seq) + 1 THEN x ELSE seq[i]
  OBVIOUS
<1>4. Len(seq) + 1 \in 1..(Len(seq) + 1)
  BY <1>1
<1>5. \A i \in 1..Len(seq) : i \in 1..(Len(seq) + 1) /\ i # Len(seq) + 1
  BY <1>1
<1>6. \A i \in 1..(Len(seq) + 1) : i # Len(seq) + 1 => i \in 1..Len(seq)
  BY <1>1
<1>7. Append(seq, x)[Len(seq) + 1] = x
  BY <1>3, <1>4
<1>8. \A i \in DOMAIN seq : Append(seq, x)[i] = seq[i]
  BY <1>1, <1>3, <1>5
<1>9. \A i \in 1..(Len(seq) + 1) : \/ Append(seq, x)[i] = x
                                   \/ i \in DOMAIN seq /\ Append(seq, x)[i] = seq[i]
  <2> SUFFICES ASSUME NEW i \in 1..(Len(seq) + 1)
               PROVE  \/ Append(seq, x)[i] = x
                      \/ i \in DOMAIN seq /\ Append(seq, x)[i] = seq[i]
    OBVIOUS
  <2>1. Append(seq, x)[i] = IF i = Len(seq) + 1 THEN x ELSE seq[i]
    BY <1>3
  <2>2. CASE i = Len(seq) + 1
    BY <2>1, <2>2
  <2>3. CASE i # Len(seq) + 1
    BY <1>1, <1>6, <2>1, <2>3
  <2> QED BY <2>2, <2>3
<1> QED BY <1>1, <1>2, <1>7, <1>8, <1>9

\* The only step that writes history writes a row its verdict justifies.
LEMMA NextQueued ==
  ASSUME TypeInv, VerdictSound, QueuedOnlyAboveThreshold, [Next]_vars
  PROVE  QueuedOnlyAboveThreshold'
<1>1. ASSUME NEW r \in Requests, CommitDeploy(r) PROVE QueuedOnlyAboveThreshold'
  <2>1. history' = Append(history, DeployRow(r))
    BY <1>1 DEF CommitDeploy
  <2>2. history \in Seq(HistoryRow)
    BY DEF TypeInv, TypeOK
  <2>3. DeployRow(r).status = "queued" => GatekeeperAdmits(TRUE, DeployRow(r).score)
    <3>1. deploys[r].verdict.score \in Nat
      BY DEF TypeInv, TypeOK, Deploy, Verdict
    <3> QED BY <3>1 DEF DeployRow, VerdictSound, GatekeeperAdmits, MinScore
  <2>4. \A i \in DOMAIN history' : \/ history'[i] = DeployRow(r)
                                   \/ i \in DOMAIN history /\ history'[i] = history[i]
    <3>1. DOMAIN history' = 1..(Len(history) + 1)
      BY <2>1, <2>2, AppendIndices
    <3> QED BY <2>1, <2>2, <3>1, AppendIndices
  <2> QED BY <2>3, <2>4 DEF QueuedOnlyAboveThreshold
<1>2. CASE UNCHANGED history
  BY <1>2 DEF QueuedOnlyAboveThreshold
<1> QED
  BY <1>1, <1>2
  DEF Next, DeployStep, FreezeStep, SubmitDeploy, EvaluateDeploy, OpaFails, WriteDeploy,
      AbortDeploy, AlertFires, AlertRepeats, FreezeUpdate, FreezeUpdateWhere, FreezePublish,
      FreezeCommit, FreezeAbort, Unfreeze, DeleteService, vars

\* The gate fails closed: in every behaviour a deploy_history row is "queued"
\* only with a score at which the admission constraint lets the pod in.
THEOREM QueuedOnlyAboveThresholdHolds == Spec => []QueuedOnlyAboveThreshold
<1>1. Init => GateInv
  <2>1. Init => VerdictSound
    BY DEF Init, VerdictSound, DeployIdle, NoPolicyLoaded
  <2>2. Init => QueuedOnlyAboveThreshold
    BY DEF Init, QueuedOnlyAboveThreshold
  <2> QED BY <2>1, <2>2, InitTypeInv DEF GateInv
<1>2. GateInv /\ [Next]_vars => GateInv'
  BY NextTypeInv, NextVerdictSound, NextQueued DEF GateInv
<1>3. GateInv => QueuedOnlyAboveThreshold
  BY DEF GateInv
<1> QED BY <1>1, <1>2, <1>3, PTL DEF Spec

-----------------------------------------------------------------------------
(* The score.  Only a commit writes it, and that of the row it appends.      *)

LEMMA NextScore ==
  ASSUME TypeInv, ScoreFollowsHistory, [Next]_vars
  PROVE  ScoreFollowsHistory'
<1>1. services \in [Services -> ServiceRow] /\ history \in Seq(HistoryRow)
  BY DEF TypeInv, TypeOK
<1>2. \A i \in DOMAIN history : history[i].service \in Services
  <2>1. \A i \in DOMAIN history : history[i] \in HistoryRow
    BY <1>1
  <2> QED BY <2>1 DEF HistoryRow
<1>3. ASSUME NEW r \in Requests, CommitDeploy(r) PROVE ScoreFollowsHistory'
  <2> DEFINE s == deploys[r].service
             row == DeployRow(r)
  <2>1. /\ history' = Append(history, row)
        /\ services' = [services EXCEPT ![s].score = deploys[r].verdict.score]
    BY <1>3 DEF CommitDeploy
  <2>2. s \in Services /\ row.service = s /\ row.score = deploys[r].verdict.score
    BY <1>3 DEF CommitDeploy, TypeInv, Bound, DeployRow
  <2>3. /\ services'[s].score = row.score
        /\ \A t \in Services \ {s} : services'[t] = services[t]
    BY <1>1, <2>1, <2>2 DEF ServiceRow
  <2> HIDE DEF row
  <2>4. /\ DOMAIN history = 1 .. Len(history) /\ Len(history) \in Nat
        /\ DOMAIN history' = 1 .. (Len(history) + 1)
        /\ history'[Len(history) + 1] = row
        /\ \A i \in DOMAIN history : history'[i] = history[i]
    BY <1>1, <2>1, AppendIndices
  <2> SUFFICES ASSUME NEW i \in DOMAIN history',
                      \A j \in DOMAIN history' :
                        j > i => history'[j].service # history'[i].service
               PROVE  services'[history'[i].service].score = history'[i].score
    BY DEF ScoreFollowsHistory
  <2>5. CASE i = Len(history) + 1
    BY <2>2, <2>3, <2>4, <2>5
  <2>6. CASE i \in DOMAIN history
    <3>1. Len(history) + 1 \in DOMAIN history' /\ Len(history) + 1 > i
      BY <2>4, <2>6
    <3>2. history[i].service \in Services \ {s}
      BY <1>2, <2>2, <2>4, <2>6, <3>1
    <3>3. \A j \in DOMAIN history : j > i => history[j].service # history[i].service
      BY <2>4, <2>6
    <3>4. services[history[i].service].score = history[i].score
      BY <2>6, <3>3 DEF ScoreFollowsHistory
    <3> QED BY <2>3, <2>4, <2>6, <3>2, <3>4
  <2> QED BY <2>4, <2>5, <2>6
<1>4. ASSUME UNCHANGED history, \A t \in Services : services'[t].score = services[t].score
      PROVE  ScoreFollowsHistory'
  BY <1>2, <1>4 DEF ScoreFollowsHistory
<1>5. ASSUME NEW a \in Alerts, FreezeCommit(a) PROVE ScoreFollowsHistory'
  <2>1. UNCHANGED history
    BY <1>5 DEF FreezeCommit
  <2>2. \A t \in Services : services'[t].score = services[t].score
    BY <1>1, <1>5 DEF FreezeCommit, ServiceRow
  <2> QED BY <2>1, <2>2, <1>4
<1>6. ASSUME NEW t \in Services, Unfreeze(t) \/ DeleteService(t) PROVE ScoreFollowsHistory'
  <2>1. UNCHANGED history
    BY <1>6 DEF Unfreeze, DeleteService
  <2>2. \A u \in Services : services'[u].score = services[u].score
    <3>1. CASE Unfreeze(t)
      BY <1>1, <3>1 DEF Unfreeze, ServiceRow
    <3>2. CASE DeleteService(t)
      BY <1>1, <3>2 DEF DeleteService, ServiceRow
    <3> QED BY <1>6, <3>1, <3>2
  <2> QED BY <2>1, <2>2, <1>4
<1>7. CASE UNCHANGED <<history, services>>
  BY <1>4, <1>7
<1> QED
  BY <1>3, <1>5, <1>6, <1>7
  DEF Next, DeployStep, FreezeStep, SubmitDeploy, EvaluateDeploy, OpaFails, WriteDeploy,
      AbortDeploy, AlertFires, AlertRepeats, FreezeUpdate, FreezeUpdateWhere, FreezePublish,
      FreezeAbort, vars

\* The score that a service shows is that of its deploy committed last, in
\* whatever order overlapping deploys of it got their verdicts.
THEOREM ScoreFollowsHistoryHolds == Spec => []ScoreFollowsHistory
<1>1. Init => TypeInv /\ ScoreFollowsHistory
  BY InitTypeInv DEF Init, ScoreFollowsHistory
<1>2. TypeInv /\ ScoreFollowsHistory /\ [Next]_vars => (TypeInv /\ ScoreFollowsHistory)'
  BY NextTypeInv, NextScore
<1> QED BY <1>1, <1>2, PTL DEF Spec

-----------------------------------------------------------------------------
(* The freeze: no deploy passes the check of a service that stays frozen.  *)

\* In every behaviour, while a service stays frozen the set of its deploys in
\* flight can only lose members.
THEOREM InFlightOnlyShrinks == Spec => InFlightOnlyShrinksWhileFrozen
<1> DEFINE Shrinks == \A s \in Services : services[s].frozen /\ services'[s].frozen
                                            => InFlight(s)' \subseteq InFlight(s)
<1>1. TypeInv /\ [Next]_vars => Shrinks
  <2> SUFFICES ASSUME TypeInv, [Next]_vars PROVE Shrinks
    OBVIOUS
  <2>1. ASSUME NEW r \in Requests, SubmitDeploy(r) PROVE Shrinks
    <3>1. PICK t \in Services : deploys' = [deploys EXCEPT ![r] =
                       [@ EXCEPT !.service = t,
                                 !.pc = IF ~Active(t) THEN "not_found"
                                        ELSE IF services[t].frozen THEN "frozen"
                                        ELSE "evaluating"]]
      BY <2>1 DEF SubmitDeploy
    <3>2. \A q \in Requests \ {r} : deploys'[q] = deploys[q]
      BY <3>1 DEF TypeInv, TypeOK
    <3>3. deploys'[r].service = t /\ (services[t].frozen => deploys'[r].pc \notin InHandler)
      BY <3>1 DEF TypeInv, TypeOK, Deploy, InHandler
    <3> QED BY <3>2, <3>3 DEF InFlight
  <2>2. ASSUME NEW r \in Requests, EvaluateDeploy(r) PROVE Shrinks
    <3>1. /\ \A q \in Requests \ {r} : deploys'[q] = deploys[q]
          /\ deploys'[r].service = deploys[r].service
          /\ deploys[r].pc \in InHandler
      BY <2>2 DEF EvaluateDeploy, TypeInv, TypeOK, Deploy, InHandler
    <3> QED BY <3>1 DEF InFlight
  <2>3. ASSUME NEW r \in Requests,
               OpaFails(r) \/ WriteDeploy(r) \/ CommitDeploy(r) \/ AbortDeploy(r)
        PROVE  Shrinks
    <3>1. deploys[r].pc \in InHandler
      BY <2>3 DEF OpaFails, WriteDeploy, CommitDeploy, AbortDeploy, InHandler
    <3>2. PICK pc : deploys' = [deploys EXCEPT ![r].pc = pc]
      BY <2>3 DEF OpaFails, WriteDeploy, CommitDeploy, AbortDeploy
    <3>3. /\ \A q \in Requests \ {r} : deploys'[q] = deploys[q]
          /\ deploys'[r].service = deploys[r].service
      BY <3>2 DEF TypeInv, TypeOK, Deploy
    <3> QED BY <3>1, <3>3 DEF InFlight
  <2>4. CASE UNCHANGED deploys
    BY <2>4 DEF InFlight
  <2> QED
    BY <2>1, <2>2, <2>3, <2>4
    DEF Next, DeployStep, FreezeStep, AlertFires, AlertRepeats, FreezeUpdate,
        FreezeUpdateWhere, FreezePublish, FreezeCommit, FreezeAbort, Unfreeze,
        DeleteService, vars
<1>2. TypeInv /\ [Next]_vars => [Shrinks]_vars
  BY <1>1
<1> QED
  BY <1>2, InitTypeInv, NextTypeInv, PTL DEF Spec, InFlightOnlyShrinksWhileFrozen

-----------------------------------------------------------------------------
(***************************************************************************)
(* The freeze event.  A transaction between UPDATE and commit holds its    *)
(* row, so at most one freeze of a service is there at a time; and the     *)
(* WHERE clause gave it the row unfrozen, which only itself can change, so *)
(* its commit is a freeze.  An event is therefore followed by its freeze   *)
(* or by a fault.                                                          *)
(***************************************************************************)
EventInv == TypeInv /\ HoldsRow /\ SurplusEventsNeedFaults

\* The row lock names the one freeze of the service that is in its transaction.
LEMMA LockedByOne ==
  ASSUME TypeInv, HoldsRow, NEW a \in FreezesInTransaction
  PROVE  /\ freezes[a].service \in Services
         /\ rowLock[freezes[a].service] = a
         /\ a # Null /\ a \notin Requests
         /\ \A b \in FreezesInTransaction : freezes[b].service = freezes[a].service => b = a
<1>1. a \in Alerts /\ freezes[a].pc # "quiet"
  BY DEF FreezesInTransaction
<1> QED BY <1>1, ConstantsAssumption DEF HoldsRow, TypeInv, Bound

\* Every step keeps the agreement of the locks with the handlers that hold them.
LEMMA NextHoldsRow ==
  ASSUME TypeInv, HoldsRow, [Next]_vars
  PROVE  HoldsRow'
<1> DEFINE FreezeHolds == \A a \in FreezesInTransaction :
                            /\ rowLock[freezes[a].service] = a
                            /\ ~services[freezes[a].service].frozen
           DeployHolds == \A r \in Requests :
                            deploys[r].pc = "committing" => rowLock[deploys[r].service] = r
<1>0. HoldsRow <=> FreezeHolds /\ DeployHolds
  BY DEF HoldsRow
<1>1. ASSUME NEW r \in Requests, SubmitDeploy(r) PROVE HoldsRow'
  <2>1. \A q \in Requests : deploys'[q].pc = "committing" => deploys'[q] = deploys[q]
    BY <1>1 DEF SubmitDeploy, TypeInv, TypeOK, Deploy
  <2>2. UNCHANGED <<rowLock, freezes, services>>
    BY <1>1 DEF SubmitDeploy
  <2> QED BY <2>1, <2>2 DEF HoldsRow, FreezesInTransaction
<1>2. ASSUME NEW r \in Requests, EvaluateDeploy(r) PROVE HoldsRow'
  <2>1. \A q \in Requests : deploys'[q].pc = "committing" => deploys'[q] = deploys[q]
    BY <1>2 DEF EvaluateDeploy, TypeInv, TypeOK, Deploy
  <2>2. UNCHANGED <<rowLock, freezes, services>>
    BY <1>2 DEF EvaluateDeploy
  <2> QED BY <2>1, <2>2 DEF HoldsRow, FreezesInTransaction
<1>3. ASSUME NEW r \in Requests, OpaFails(r) PROVE HoldsRow'
  <2>1. \A q \in Requests : deploys'[q].pc = "committing" => deploys'[q] = deploys[q]
    BY <1>3 DEF OpaFails, TypeInv, TypeOK, Deploy
  <2>2. UNCHANGED <<rowLock, freezes, services>>
    BY <1>3 DEF OpaFails
  <2> QED BY <2>1, <2>2 DEF HoldsRow, FreezesInTransaction
<1>4. ASSUME NEW r \in Requests, WriteDeploy(r) PROVE HoldsRow'
  <2> DEFINE s == deploys[r].service
  <2>1. s \in Services /\ rowLock[s] = Null /\ rowLock' = [rowLock EXCEPT ![s] = r]
    BY <1>4 DEF WriteDeploy, TypeInv, Bound
  <2>2. UNCHANGED <<freezes, services>>
    BY <1>4 DEF WriteDeploy
  <2>3. \A a \in FreezesInTransaction : freezes[a].service # s
    BY <2>1, LockedByOne
  <2>4. FreezeHolds'
    BY <2>1, <2>2, <2>3 DEF HoldsRow, FreezesInTransaction, TypeInv, TypeOK
  <2>5. /\ deploys'[r].service = s
        /\ \A q \in Requests \ {r} : deploys'[q] = deploys[q]
    BY <1>4 DEF WriteDeploy, TypeInv, TypeOK, Deploy
  <2>6. \A q \in Requests \ {r} : deploys[q].pc = "committing" => deploys[q].service # s
    BY <2>1, ConstantsAssumption DEF HoldsRow
  <2>7. rowLock'[s] = r /\ \A t \in Services \ {s} : rowLock'[t] = rowLock[t]
    BY <2>1 DEF TypeInv, TypeOK
  <2>8. DeployHolds'
    BY <2>5, <2>6, <2>7 DEF HoldsRow, TypeInv, Bound
  <2> QED BY <2>4, <2>8 DEF HoldsRow
<1>5. ASSUME NEW r \in Requests, CommitDeploy(r) \/ AbortDeploy(r) PROVE HoldsRow'
  <2>1. /\ \A t \in Services : rowLock[t] # r => rowLock'[t] = rowLock[t]
        /\ \A t \in Services : services'[t].frozen = services[t].frozen
        /\ UNCHANGED freezes
    <3>1. CASE CommitDeploy(r)
      BY <3>1 DEF CommitDeploy, HoldsRow, TypeInv, TypeOK, Bound, ServiceRow
    <3>2. CASE AbortDeploy(r)
      BY <3>2 DEF AbortDeploy
    <3> QED BY <1>5, <3>1, <3>2
  <2>2. /\ deploys'[r].pc # "committing"
        /\ \A q \in Requests \ {r} : deploys'[q] = deploys[q]
    BY <1>5 DEF CommitDeploy, AbortDeploy, DeployRow, TypeInv, TypeOK, Deploy
  <2>3. FreezeHolds'
    BY <2>1, LockedByOne DEF HoldsRow, FreezesInTransaction
  <2>4. DeployHolds'
    BY <2>1, <2>2 DEF HoldsRow, TypeInv, Bound
  <2> QED BY <2>3, <2>4 DEF HoldsRow
<1>6. ASSUME NEW a \in Alerts, AlertFires(a) \/ AlertRepeats(a) PROVE HoldsRow'
  <2>1. /\ freezes'[a].pc = "firing"
        /\ \A b \in Alerts \ {a} : freezes'[b] = freezes[b]
        /\ UNCHANGED <<services, rowLock, deploys>>
    BY <1>6 DEF AlertFires, AlertRepeats, TypeInv, TypeOK, Freeze
  <2> QED BY <2>1 DEF HoldsRow, FreezesInTransaction
<1>7. ASSUME NEW a \in Alerts, FreezeUpdate(a) PROVE HoldsRow'
  <2> DEFINE s == freezes[a].service
  <2>0. s \in Services /\ UNCHANGED <<services, deploys>>
    BY <1>7 DEF FreezeUpdate, FreezeUpdateWhere, TypeInv, Bound
  <2>1. CASE Active(s) /\ ~services[s].frozen
    <3>1. /\ rowLock[s] = Null
          /\ rowLock' = [rowLock EXCEPT ![s] = a]
          /\ freezes' = [freezes EXCEPT ![a].pc = "publishing"]
      BY <1>7, <2>1 DEF FreezeUpdate, FreezeUpdateWhere
    <3>2. /\ freezes'[a].service = s
          /\ \A b \in Alerts \ {a} : freezes'[b] = freezes[b]
      BY <3>1 DEF TypeInv, TypeOK, Freeze
    <3>3. \A b \in FreezesInTransaction : freezes[b].service # s
      BY <3>1, LockedByOne
    <3>4. \A q \in Requests : deploys[q].pc = "committing" => deploys[q].service # s
      BY <3>1, ConstantsAssumption DEF HoldsRow
    <3>5. rowLock'[s] = a /\ \A t \in Services \ {s} : rowLock'[t] = rowLock[t]
      BY <2>0, <3>1 DEF TypeInv, TypeOK
    <3>6. FreezeHolds'
      BY <2>0, <2>1, <3>2, <3>3, <3>5, LockedByOne DEF HoldsRow, FreezesInTransaction
    <3>7. DeployHolds'
      BY <2>0, <3>4, <3>5 DEF HoldsRow, TypeInv, Bound
    <3> QED BY <3>6, <3>7 DEF HoldsRow
  <2>2. CASE ~(Active(s) /\ ~services[s].frozen)
    <3>1. /\ freezes' = [freezes EXCEPT ![a].pc = "already_frozen"]
          /\ UNCHANGED rowLock
      BY <1>7, <2>2 DEF FreezeUpdate, FreezeUpdateWhere
    <3>2. /\ freezes'[a].pc = "already_frozen"
          /\ \A b \in Alerts \ {a} : freezes'[b] = freezes[b]
      BY <3>1 DEF TypeInv, TypeOK, Freeze
    <3> QED BY <2>0, <3>1, <3>2 DEF HoldsRow, FreezesInTransaction
  <2> QED BY <2>1, <2>2
<1>8. ASSUME NEW a \in Alerts, FreezePublish(a) PROVE HoldsRow'
  <2>1. /\ freezes[a].pc = "publishing" /\ freezes'[a].service = freezes[a].service
        /\ \A b \in Alerts \ {a} : freezes'[b] = freezes[b]
        /\ UNCHANGED <<services, rowLock, deploys>>
    BY <1>8 DEF FreezePublish, TypeInv, TypeOK, Freeze
  <2> QED BY <2>1 DEF HoldsRow, FreezesInTransaction
<1>9. ASSUME NEW a \in Alerts, FreezeCommit(a) \/ FreezeAbort(a) PROVE HoldsRow'
  <2> DEFINE s == freezes[a].service
  <2>1. a \in FreezesInTransaction
    BY <1>9 DEF FreezeCommit, FreezeAbort, FreezesInTransaction
  <2>2. /\ \A t \in Services \ {s} : rowLock'[t] = rowLock[t]
        /\ \A t \in Services \ {s} : services'[t] = services[t]
        /\ UNCHANGED deploys
    BY <1>9 DEF FreezeCommit, FreezeAbort, TypeInv, TypeOK
  <2>3. /\ freezes'[a].pc \in {"frozen", "firing"}
        /\ \A b \in Alerts \ {a} : freezes'[b] = freezes[b]
    BY <1>9 DEF FreezeCommit, FreezeAbort, TypeInv, TypeOK, Freeze
  <2>4. \A b \in FreezesInTransaction : b # a => freezes[b].service \in Services \ {s}
    BY <2>1, LockedByOne
  <2>5. \A q \in Requests : deploys[q].pc = "committing" => deploys[q].service \in Services \ {s}
    BY <2>1, LockedByOne DEF HoldsRow, TypeInv, Bound
  <2>6. FreezeHolds'
    BY <2>2, <2>3, <2>4 DEF HoldsRow, FreezesInTransaction
  <2>7. DeployHolds'
    BY <2>2, <2>5 DEF HoldsRow
  <2> QED BY <2>6, <2>7 DEF HoldsRow
<1>10. ASSUME NEW s \in Services, Unfreeze(s) \/ DeleteService(s) PROVE HoldsRow'
  <2>1. /\ \A t \in Services : services'[t].frozen => services[t].frozen
        /\ UNCHANGED <<rowLock, freezes, deploys>>
    BY <1>10 DEF Unfreeze, DeleteService, TypeInv, TypeOK, ServiceRow
  <2> QED BY <2>1, LockedByOne DEF HoldsRow, FreezesInTransaction
<1>11. CASE UNCHANGED vars
  BY <1>11 DEF vars, HoldsRow, FreezesInTransaction
<1> QED
  BY <1>1, <1>2, <1>3, <1>4, <1>5, <1>6, <1>7, <1>8, <1>9, <1>10, <1>11
  DEF Next, DeployStep, FreezeStep

\* A step that gives no event, takes no freeze back, repays no fault and moves
\* no freeze into or out of "committing" keeps the account.
LEMMA AccountKept ==
  ASSUME TypeInv, SurplusEventsNeedFaults, NEW s \in Services,
         events'[s] = events[s], freezeCount'[s] = freezeCount[s],
         faults' \in Nat, faults' >= faults,
         Publishing(s)' = Publishing(s)
  PROVE  events'[s] <= freezeCount'[s] + faults' + (IF Publishing(s)' = {} THEN 0 ELSE 1)
<1>1. /\ events[s] \in Nat /\ freezeCount[s] \in Nat /\ faults \in Nat
      /\ events[s] <= freezeCount[s] + faults + (IF Publishing(s) = {} THEN 0 ELSE 1)
  BY DEF TypeInv, TypeOK, SurplusEventsNeedFaults
<1>2. CASE Publishing(s) = {}
  BY <1>1, <1>2
<1>3. CASE Publishing(s) # {}
  BY <1>1, <1>3
<1> QED BY <1>2, <1>3

\* Every step keeps the account: a publication is covered by the commit it is
\* followed by, and that by the freeze it makes or by the fault that ends it.
LEMMA NextSurplus ==
  ASSUME TypeInv, HoldsRow, SurplusEventsNeedFaults, [Next]_vars
  PROVE  SurplusEventsNeedFaults'
<1> DEFINE Account(s) ==
      events[s] <= freezeCount[s] + faults + (IF Publishing(s) = {} THEN 0 ELSE 1)
<1>0. /\ events \in [Services -> Nat] /\ freezeCount \in [Services -> Nat] /\ faults \in Nat
      /\ freezes \in [Alerts -> Freeze]
  BY DEF TypeInv, TypeOK
<1>1. ASSUME UNCHANGED <<events, freezeCount, freezes>>, faults' \in Nat, faults' >= faults
      PROVE  SurplusEventsNeedFaults'
  <2> SUFFICES ASSUME NEW s \in Services PROVE Account(s)'
    BY DEF SurplusEventsNeedFaults
  <2>1. Publishing(s)' = Publishing(s)
    BY <1>1 DEF Publishing
  <2> QED BY <1>1, <2>1, AccountKept
<1>2. ASSUME NEW a \in Alerts, AlertFires(a) \/ AlertRepeats(a) \/ FreezeUpdate(a)
      PROVE  SurplusEventsNeedFaults'
  <2>1. /\ freezes[a].pc # "committing" /\ freezes'[a].pc # "committing"
        /\ \A b \in Alerts \ {a} : freezes'[b] = freezes[b]
    BY <1>0, <1>2 DEF AlertFires, AlertRepeats, FreezeUpdate, FreezeUpdateWhere, Freeze
  <2>2. UNCHANGED <<events, freezeCount, faults>>
    BY <1>2 DEF AlertFires, AlertRepeats, FreezeUpdate, FreezeUpdateWhere
  <2> SUFFICES ASSUME NEW s \in Services PROVE Account(s)'
    BY DEF SurplusEventsNeedFaults
  <2>3. Publishing(s)' = Publishing(s)
    BY <2>1 DEF Publishing
  <2> QED BY <1>0, <2>2, <2>3, AccountKept
<1>3. ASSUME NEW a \in Alerts, FreezePublish(a) PROVE SurplusEventsNeedFaults'
  <2>1. a \in FreezesInTransaction /\ freezes[a].pc = "publishing"
    BY <1>3 DEF FreezePublish, FreezesInTransaction
  <2>s. PICK s \in Services : s = freezes[a].service
    BY <2>1, LockedByOne
  <2>2. Publishing(s) = {}
    BY <2>1, <2>s, LockedByOne DEF Publishing, FreezesInTransaction
  <2>3. /\ freezes'[a].pc = "committing" /\ freezes'[a].service = s
        /\ \A b \in Alerts \ {a} : freezes'[b] = freezes[b]
        /\ UNCHANGED <<freezeCount, faults>>
    BY <1>0, <1>3, <2>s DEF FreezePublish, Freeze
  <2>4. /\ events'[s] \in {events[s], events[s] + 1}
        /\ \A t \in Services \ {s} : events'[t] = events[t]
    BY <1>0, <1>3, <2>s DEF FreezePublish
  <2>5. Account(s)'
    <3>1. a \in Publishing(s)'
      BY <2>3 DEF Publishing
    <3>2. events[s] <= freezeCount[s] + faults
      BY <1>0, <2>2 DEF SurplusEventsNeedFaults
    <3>3. events'[s] <= freezeCount'[s] + faults' + 1
      BY <1>0, <2>2, <2>3, <2>4, <3>2
    <3> QED BY <3>1, <3>3
  <2>6. ASSUME NEW t \in Services, t # s PROVE Account(t)'
    <3>1. Publishing(t)' = Publishing(t)
      BY <2>s, <2>3, <2>6 DEF Publishing
    <3> QED BY <1>0, <2>3, <2>4, <2>6, <3>1, AccountKept
  <2> QED BY <2>5, <2>6 DEF SurplusEventsNeedFaults
<1>4. ASSUME NEW a \in Alerts, FreezeCommit(a) \/ FreezeAbort(a)
      PROVE  SurplusEventsNeedFaults'
  <2>1. a \in FreezesInTransaction
    BY <1>4 DEF FreezeCommit, FreezeAbort, FreezesInTransaction
  <2>s. PICK s \in Services : s = freezes[a].service
    BY <2>1, LockedByOne
  <2>2. ~services[s].frozen
    BY <2>1, <2>s DEF HoldsRow
  <2>3. /\ freezes'[a].pc # "committing"
        /\ \A b \in Alerts \ {a} : freezes'[b] = freezes[b]
        /\ freezes'[a].service = s
        /\ UNCHANGED events
        /\ faults' \in {faults, faults + 1}
    BY <1>0, <1>4, <2>s DEF FreezeCommit, FreezeAbort, Freeze
  <2>4. /\ \A t \in Services \ {s} : freezeCount'[t] = freezeCount[t]
        /\ freezeCount'[s] + faults' >= freezeCount[s] + faults + 1
    <3>1. CASE FreezeCommit(a)
      BY <1>0, <2>s, <2>2, <2>3, <3>1 DEF FreezeCommit
    <3>2. CASE FreezeAbort(a)
      BY <1>0, <2>s, <3>2 DEF FreezeAbort
    <3> QED BY <1>4, <3>1, <3>2
  <2>5. freezeCount'[s] \in Nat
    BY <1>0, <1>4, <2>s DEF FreezeCommit, FreezeAbort
  <2>6. Account(s)'
    <3>1. events[s] <= freezeCount[s] + faults + 1
      BY <1>0, <2>2 DEF SurplusEventsNeedFaults
    <3>2. events'[s] <= freezeCount'[s] + faults'
      BY <1>0, <2>2, <2>3, <2>4, <2>5, <3>1
    <3>3. Publishing(s)' = {}
      BY <2>1, <2>s, <2>3, LockedByOne DEF Publishing, FreezesInTransaction
    <3> QED BY <3>2, <3>3, <1>0, <2>3, <2>5
  <2>7. ASSUME NEW t \in Services, t # s PROVE Account(t)'
    <3>1. Publishing(t)' = Publishing(t)
      BY <2>s, <2>3, <2>7 DEF Publishing
    <3> QED BY <1>0, <2>3, <2>4, <2>7, <3>1, AccountKept
  <2> QED BY <2>6, <2>7 DEF SurplusEventsNeedFaults
<1>5. ASSUME NEW r \in Requests, SubmitDeploy(r) \/ DeployStep(r) \/ AbortDeploy(r)
      PROVE  SurplusEventsNeedFaults'
  <2>1. /\ UNCHANGED <<events, freezeCount, freezes>>
        /\ faults' \in {faults, faults + 1}
    BY <1>5
    DEF SubmitDeploy, DeployStep, EvaluateDeploy, OpaFails, WriteDeploy, CommitDeploy,
        AbortDeploy
  <2> QED BY <1>0, <1>1, <2>1
<1>6. ASSUME NEW s \in Services, Unfreeze(s) \/ DeleteService(s)
      PROVE  SurplusEventsNeedFaults'
  BY <1>0, <1>1, <1>6 DEF Unfreeze, DeleteService
<1>7. CASE UNCHANGED vars
  BY <1>0, <1>1, <1>7 DEF vars
<1> QED BY <1>2, <1>3, <1>4, <1>5, <1>6, <1>7 DEF Next, FreezeStep

\* No event, no freeze and no lock at the start.
LEMMA InitEventInv == Init => EventInv
<1>1. Init => HoldsRow
  BY DEF Init, HoldsRow, FreezesInTransaction, DeployIdle, AlertQuiet
<1>2. Init => SurplusEventsNeedFaults
  BY DEF Init, SurplusEventsNeedFaults, Publishing, AlertQuiet
<1> QED BY <1>1, <1>2, InitTypeInv DEF EventInv

\* In every behaviour the stream holds at most one service.deploy_frozen per
\* freeze, plus the one being committed, plus one per dead transaction.
THEOREM SurplusEventsNeedFaultsHolds == Spec => []SurplusEventsNeedFaults
<1>1. EventInv /\ [Next]_vars => EventInv'
  BY NextTypeInv, NextHoldsRow, NextSurplus DEF EventInv
<1>2. EventInv => SurplusEventsNeedFaults
  BY DEF EventInv
<1> QED BY <1>1, <1>2, InitEventInv, PTL DEF Spec

\* freeze_service keeps its docstring's word as long as no transaction dies: the
\* publication ahead of the commit is the only thing that breaks it.
THEOREM OneEventPerFreezeWithoutFaults ==
  ASSUME MaxFaults = 0
  PROVE  Spec => []OneEventPerFreeze
<1> DEFINE NoFaults == faults = 0
<1>1. EventInv /\ NoFaults /\ [Next]_vars => EventInv' /\ NoFaults'
  <2> SUFFICES ASSUME EventInv, NoFaults, [Next]_vars PROVE EventInv' /\ NoFaults'
    OBVIOUS
  <2>1. EventInv'
    BY NextTypeInv, NextHoldsRow, NextSurplus DEF EventInv
  <2>2. ~(faults < MaxFaults)
    OBVIOUS
  <2>3. UNCHANGED faults
    BY <2>2
    DEF Next, vars, DeployStep, FreezeStep, SubmitDeploy, EvaluateDeploy, OpaFails,
        WriteDeploy, CommitDeploy, AbortDeploy, AlertFires, AlertRepeats, FreezeUpdate,
        FreezeUpdateWhere, FreezePublish, FreezeCommit, FreezeAbort, Unfreeze, DeleteService
  <2> QED BY <2>1, <2>3
<1>2. EventInv /\ NoFaults => OneEventPerFreeze
  <2> SUFFICES ASSUME EventInv, NoFaults, NEW s \in Services
               PROVE  events[s] <= freezeCount[s] + (IF Publishing(s) = {} THEN 0 ELSE 1)
    BY DEF OneEventPerFreeze
  <2>1. /\ freezeCount[s] \in Nat
        /\ events[s] <= freezeCount[s] + faults + (IF Publishing(s) = {} THEN 0 ELSE 1)
    BY DEF EventInv, TypeInv, TypeOK, SurplusEventsNeedFaults
  <2> QED BY <2>1
<1>3. Init => NoFaults
  BY DEF Init
<1> QED BY <1>1, <1>2, <1>3, InitEventInv, PTL DEF Spec

-----------------------------------------------------------------------------
(***************************************************************************)
(* The handlers implement DeployGate.  A submission enters or refuses, the *)
(* end of a handler drops or decides, and the commit of a freeze freezes a *)
(* service that is neither frozen nor gone, since its transaction has held *)
(* the row from the UPDATE on (HoldsRow and FreezesLive).                  *)
(***************************************************************************)
Inside   == [s \in Services |-> InFlight(s)]
Answered == {r \in Requests : deploys[r].pc \in DeployDone}
Frozen   == {s \in Services : services[s].frozen}
Gone     == {s \in Services : services[s].deleted}
Shown    == [s \in Services |-> services[s].score]

FreezesLive == \A a \in FreezesInTransaction : ~services[freezes[a].service].deleted

KeepInv == TypeInv /\ HoldsRow /\ VerdictSound /\ FreezesLive

\* A service is not deleted while the transaction of a freeze holds its row.
LEMMA NextFreezesLive ==
  ASSUME TypeInv, HoldsRow, FreezesLive, [Next]_vars
  PROVE  FreezesLive'
<1>1. services \in [Services -> ServiceRow] /\ freezes \in [Alerts -> Freeze]
  BY DEF TypeInv, TypeOK
<1>2. ASSUME UNCHANGED freezes, \A s \in Services : services'[s].deleted = services[s].deleted
      PROVE  FreezesLive'
  BY <1>2, LockedByOne DEF FreezesLive, FreezesInTransaction
<1>3. ASSUME NEW r \in Requests, CommitDeploy(r) PROVE FreezesLive'
  <2>1. UNCHANGED freezes /\ \A s \in Services : services'[s].deleted = services[s].deleted
    BY <1>1, <1>3 DEF CommitDeploy, ServiceRow
  <2> QED BY <2>1, <1>2
<1>4. ASSUME NEW a \in Alerts, AlertFires(a) \/ AlertRepeats(a) PROVE FreezesLive'
  <2>1. /\ freezes'[a].pc = "firing" /\ UNCHANGED services
        /\ \A b \in Alerts \ {a} : freezes'[b] = freezes[b]
    BY <1>1, <1>4 DEF AlertFires, AlertRepeats, Freeze
  <2> QED BY <2>1 DEF FreezesLive, FreezesInTransaction
<1>5. ASSUME NEW a \in Alerts, FreezeUpdate(a) PROVE FreezesLive'
  <2>1. /\ freezes'[a].service = freezes[a].service /\ UNCHANGED services
        /\ \A b \in Alerts \ {a} : freezes'[b] = freezes[b]
        /\ \/ freezes'[a].pc = "already_frozen"
           \/ ~services[freezes[a].service].deleted
    BY <1>1, <1>5 DEF FreezeUpdate, FreezeUpdateWhere, Freeze, Active
  <2> QED BY <2>1 DEF FreezesLive, FreezesInTransaction
<1>6. ASSUME NEW a \in Alerts, FreezePublish(a) PROVE FreezesLive'
  <2>1. /\ freezes[a].pc = "publishing" /\ freezes'[a].service = freezes[a].service
        /\ \A b \in Alerts \ {a} : freezes'[b] = freezes[b]
        /\ UNCHANGED services
    BY <1>1, <1>6 DEF FreezePublish, Freeze
  <2> QED BY <2>1 DEF FreezesLive, FreezesInTransaction
<1>7. ASSUME NEW a \in Alerts, FreezeCommit(a) \/ FreezeAbort(a) PROVE FreezesLive'
  <2>1. /\ freezes'[a].pc \in {"frozen", "firing"}
        /\ \A b \in Alerts \ {a} : freezes'[b] = freezes[b]
    BY <1>1, <1>7 DEF FreezeCommit, FreezeAbort, Freeze
  <2>2. \A s \in Services : services'[s].deleted = services[s].deleted
    BY <1>1, <1>7 DEF FreezeCommit, FreezeAbort, ServiceRow
  <2> QED BY <2>1, <2>2, LockedByOne DEF FreezesLive, FreezesInTransaction
<1>8. ASSUME NEW s \in Services, Unfreeze(s) PROVE FreezesLive'
  <2>1. UNCHANGED freezes /\ \A t \in Services : services'[t].deleted = services[t].deleted
    BY <1>1, <1>8 DEF Unfreeze, ServiceRow
  <2> QED BY <2>1, <1>2
<1>9. ASSUME NEW s \in Services, DeleteService(s) PROVE FreezesLive'
  <2>1. /\ UNCHANGED freezes /\ rowLock[s] = Null
        /\ \A t \in Services \ {s} : services'[t] = services[t]
    BY <1>1, <1>9 DEF DeleteService
  <2> QED BY <2>1, LockedByOne DEF FreezesLive, FreezesInTransaction
<1>10. CASE UNCHANGED <<services, freezes>>
  BY <1>2, <1>10
<1> QED
  BY <1>3, <1>4, <1>5, <1>6, <1>7, <1>8, <1>9, <1>10
  DEF Next, DeployStep, FreezeStep, SubmitDeploy, EvaluateDeploy, OpaFails, WriteDeploy,
      AbortDeploy, vars

LEMMA InitKeepInv == Init => KeepInv
<1>1. Init => VerdictSound
  BY DEF Init, VerdictSound, DeployIdle, NoPolicyLoaded
<1>2. Init => FreezesLive
  BY DEF Init, FreezesLive, FreezesInTransaction, AlertQuiet
<1> QED BY <1>1, <1>2, InitEventInv DEF EventInv, KeepInv

LEMMA NextKeepInv == KeepInv /\ [Next]_vars => KeepInv'
BY NextTypeInv, NextHoldsRow, NextVerdictSound, NextFreezesLive DEF KeepInv

\* What a step of one call means to DeployGate.
LEMMA RequestMoves ==
  ASSUME TypeInv, NEW r \in Requests, \A q \in Requests \ {r} : deploys'[q] = deploys[q]
  PROVE  /\ (/\ deploys[r].pc \in InHandler /\ deploys'[r].pc \in InHandler
             /\ deploys'[r].service = deploys[r].service) => UNCHANGED <<Inside, Answered>>
         /\ (deploys[r].pc \in InHandler /\ deploys'[r].pc \in DeployDone) =>
              /\ deploys[r].service \in Services /\ r \in Inside[deploys[r].service]
              /\ Inside' = [Inside EXCEPT ![deploys[r].service] = @ \ {r}]
              /\ Answered' = Answered \cup {r}
         /\ deploys[r].pc = "idle" => r \notin Answered /\ \A s \in Services : r \notin Inside[s]
         /\ (/\ deploys[r].pc = "idle" /\ deploys'[r].pc \in InHandler
             /\ deploys'[r].service \in Services) =>
              /\ Inside' = [Inside EXCEPT ![deploys'[r].service] = @ \cup {r}]
              /\ UNCHANGED Answered
         /\ (deploys[r].pc = "idle" /\ deploys'[r].pc \in DeployDone) =>
              UNCHANGED Inside /\ Answered' = Answered \cup {r}
<1>1. /\ deploys[r].pc # "idle" => deploys[r].service \in Services
      /\ "idle" \notin InHandler \cup DeployDone /\ InHandler \cap DeployDone = {}
  BY DEF TypeInv, Bound, InHandler, DeployDone
<1>2. (/\ deploys[r].pc \in InHandler /\ deploys'[r].pc \in InHandler
       /\ deploys'[r].service = deploys[r].service) => UNCHANGED <<Inside, Answered>>
  BY <1>1 DEF Inside, Answered, InFlight
<1>3. (deploys[r].pc \in InHandler /\ deploys'[r].pc \in DeployDone) =>
        /\ deploys[r].service \in Services /\ r \in Inside[deploys[r].service]
        /\ Inside' = [Inside EXCEPT ![deploys[r].service] = @ \ {r}]
        /\ Answered' = Answered \cup {r}
  BY <1>1 DEF Inside, Answered, InFlight
<1>4. deploys[r].pc = "idle" => r \notin Answered /\ \A s \in Services : r \notin Inside[s]
  BY <1>1 DEF Inside, Answered, InFlight
<1>5. (/\ deploys[r].pc = "idle" /\ deploys'[r].pc \in InHandler
       /\ deploys'[r].service \in Services) =>
        /\ Inside' = [Inside EXCEPT ![deploys'[r].service] = @ \cup {r}]
        /\ UNCHANGED Answered
  <2> PICK t, pc : t = deploys'[r].service /\ pc = deploys'[r].pc
    OBVIOUS
  <2> SUFFICES ASSUME deploys[r].pc = "idle", pc \in InHandler, t \in Services
               PROVE  /\ Inside' = [Inside EXCEPT ![t] = @ \cup {r}] /\ UNCHANGED Answered
    OBVIOUS
  <2>1. \A s \in Services : InFlight(s)' = IF s = t THEN InFlight(s) \cup {r} ELSE InFlight(s)
    BY <1>1 DEF InFlight
  <2>2. UNCHANGED Answered
    BY <1>1 DEF Answered
  <2> QED BY <2>1, <2>2 DEF Inside
<1>6. (deploys[r].pc = "idle" /\ deploys'[r].pc \in DeployDone) =>
        UNCHANGED Inside /\ Answered' = Answered \cup {r}
  BY <1>1 DEF Inside, Answered, InFlight
<1> QED BY <1>2, <1>3, <1>4, <1>5, <1>6

\* The steps of a deploy.
LEMMA DeployGates ==
  ASSUME KeepInv, NEW r \in Requests,
         SubmitDeploy(r) \/ DeployStep(r) \/ AbortDeploy(r)
  PROVE  Gate!Next \/ UNCHANGED Gate!vars
<1> USE DEF Inside, Answered, Frozen, Gone, Shown
<1>1. /\ services \in [Services -> ServiceRow] /\ deploys \in [Requests -> Deploy]
      /\ TypeInv /\ VerdictSound
  BY DEF KeepInv, TypeInv, TypeOK
<1>2. CASE SubmitDeploy(r)
  <2>1. PICK s \in Services : deploys' = [deploys EXCEPT ![r] =
                     [@ EXCEPT !.service = s,
                               !.pc = IF ~Active(s) THEN "not_found"
                                      ELSE IF services[s].frozen THEN "frozen"
                                      ELSE "evaluating"]]
    BY <1>2 DEF SubmitDeploy
  <2>2. /\ deploys[r].pc = "idle" /\ UNCHANGED <<services, history>>
        /\ \A q \in Requests \ {r} : deploys'[q] = deploys[q]
        /\ deploys'[r].service = s
        /\ deploys'[r].pc = IF ~Active(s) THEN "not_found"
                            ELSE IF services[s].frozen THEN "frozen" ELSE "evaluating"
    BY <1>1, <1>2, <2>1 DEF SubmitDeploy, Deploy
  <2>3. CASE s \in Frozen \cup Gone
    <3>1. deploys'[r].pc \in DeployDone
      BY <2>2, <2>3 DEF Active, DeployDone
    <3>2. UNCHANGED Inside /\ Answered' = Answered \cup {r}
          /\ r \notin Answered /\ \A t \in Services : r \notin Inside[t]
      BY <1>1, <2>2, <3>1, RequestMoves
    <3>3. Gate!Refuse(r)
      BY <2>2, <3>2 DEF Gate!Refuse, Gate!New
    <3> QED BY <3>3 DEF Gate!Next
  <2>4. CASE s \notin Frozen \cup Gone
    <3>1. deploys'[r].pc \in InHandler
      BY <2>2, <2>4 DEF Active, InHandler
    <3>2. /\ Inside' = [Inside EXCEPT ![s] = @ \cup {r}] /\ UNCHANGED Answered
          /\ r \notin Answered /\ \A t \in Services : r \notin Inside[t]
      BY <1>1, <2>2, <3>1, RequestMoves
    <3>3. Gate!Enter(r, s)
      BY <2>2, <2>4, <3>2 DEF Gate!Enter, Gate!New
    <3> QED BY <3>3 DEF Gate!Next
  <2> QED BY <2>3, <2>4
<1>3. CASE EvaluateDeploy(r) \/ WriteDeploy(r)
  <2>1. /\ \A q \in Requests \ {r} : deploys'[q] = deploys[q]
        /\ deploys'[r].service = deploys[r].service
        /\ deploys[r].pc \in InHandler /\ deploys'[r].pc \in InHandler
        /\ UNCHANGED <<services, history>>
    BY <1>1, <1>3 DEF EvaluateDeploy, WriteDeploy, Deploy, InHandler
  <2>2. UNCHANGED <<Inside, Answered>>
    BY <1>1, <2>1, RequestMoves
  <2> QED BY <2>1, <2>2 DEF Gate!vars, Gate!requests
<1>4. CASE OpaFails(r) \/ AbortDeploy(r)
  <2>1. /\ \A q \in Requests \ {r} : deploys'[q] = deploys[q]
        /\ deploys[r].pc \in InHandler /\ deploys'[r].pc \in DeployDone
        /\ UNCHANGED <<services, history>>
    BY <1>1, <1>4 DEF OpaFails, AbortDeploy, Deploy, InHandler, DeployDone
  <2> PICK s : s = deploys[r].service
    OBVIOUS
  <2>2. /\ s \in Services /\ r \in Inside[s]
        /\ Inside' = [Inside EXCEPT ![s] = @ \ {r}] /\ Answered' = Answered \cup {r}
    BY <1>1, <2>1, RequestMoves
  <2>3. Gate!Drop(r, s)
    BY <2>1, <2>2 DEF Gate!Drop, Gate!Leave
  <2> QED BY <2>2, <2>3 DEF Gate!Next
<1>5. CASE CommitDeploy(r)
  <2> PICK s, points, status :
        /\ s = deploys[r].service /\ points = deploys[r].verdict.score
        /\ status = IF deploys[r].verdict.passed THEN "queued" ELSE "blocked"
    OBVIOUS
  <2>1. /\ history' = Append(history, [request |-> r, service |-> s, status |-> status,
                                       score |-> points])
        /\ services' = [services EXCEPT ![s].score = points]
        /\ deploys' = [deploys EXCEPT ![r].pc = status]
        /\ deploys[r].pc = "committing"
    BY <1>5 DEF CommitDeploy, DeployRow
  <2>2. status \in {"queued", "blocked"} /\ (status = "queued" => points >= MinScore)
    BY <1>1 DEF VerdictSound
  <2>3. /\ \A q \in Requests \ {r} : deploys'[q] = deploys[q]
        /\ deploys[r].pc \in InHandler /\ deploys'[r].pc \in DeployDone
    BY <1>1, <2>1, <2>2 DEF Deploy, InHandler, DeployDone
  <2>4. /\ s \in Services /\ r \in Inside[s]
        /\ Inside' = [Inside EXCEPT ![s] = @ \ {r}] /\ Answered' = Answered \cup {r}
    BY <1>1, <2>3, RequestMoves
  <2>5. /\ \A t \in Services : /\ services'[t].frozen = services[t].frozen
                               /\ services'[t].deleted = services[t].deleted
                               /\ services'[t].score = IF t = s THEN points
                                                       ELSE services[t].score
    BY <1>1, <2>1, <2>4 DEF ServiceRow
  <2>6. UNCHANGED <<Frozen, Gone>> /\ Shown' = [Shown EXCEPT ![s] = points] /\ Shown'[s] = points
    <3>1. UNCHANGED <<Frozen, Gone>>
      BY <2>5
    <3>2. Shown' = [Shown EXCEPT ![s] = points] /\ Shown'[s] = points
      BY <2>4, <2>5
    <3> QED BY <3>1, <3>2
  <2>7. Gate!Decide(r, s)
    BY <2>1, <2>2, <2>4, <2>6 DEF Gate!Decide, Gate!Leave
  <2> QED BY <2>4, <2>7 DEF Gate!Next
<1> QED BY <1>2, <1>3, <1>4, <1>5 DEF DeployStep

\* The steps that write the flags of a service.
LEMMA FlagGates ==
  ASSUME KeepInv, UNCHANGED <<deploys, history>>,
         \/ \E a \in Alerts : FreezeCommit(a)
         \/ \E s \in Services : Unfreeze(s) \/ DeleteService(s)
  PROVE  Gate!Next
<1> USE DEF Inside, Answered, Frozen, Gone, Shown
<1>1. /\ services \in [Services -> ServiceRow] /\ UNCHANGED <<Inside, Answered>>
  BY DEF KeepInv, TypeInv, TypeOK, InFlight
<1>2. ASSUME NEW a \in Alerts, FreezeCommit(a) PROVE Gate!Next
  <2> PICK s : s = freezes[a].service
    OBVIOUS
  <2>1. /\ s \in Services /\ ~services[s].frozen /\ ~services[s].deleted
        /\ services' = [services EXCEPT ![s].frozen = TRUE]
    BY <1>2, LockedByOne DEF FreezeCommit, KeepInv, HoldsRow, FreezesLive, FreezesInTransaction
  <2>2. \A t \in Services : /\ services'[t].deleted = services[t].deleted
                           /\ services'[t].score = services[t].score
                           /\ services'[t].frozen <=> (t = s \/ services[t].frozen)
    BY <1>1, <2>1 DEF ServiceRow
  <2>3. Gate!Freeze(s)
    BY <1>1, <2>1, <2>2 DEF Gate!Freeze, Gate!requests
  <2> QED BY <2>1, <2>3 DEF Gate!Next
<1>3. ASSUME NEW s \in Services, Unfreeze(s) PROVE Gate!Next
  <2>1. /\ services[s].frozen /\ ~services[s].deleted
        /\ services' = [services EXCEPT ![s].frozen = FALSE]
    BY <1>3 DEF Unfreeze, Active
  <2>2. \A t \in Services : /\ services'[t].deleted = services[t].deleted
                           /\ services'[t].score = services[t].score
                           /\ services'[t].frozen <=> (t # s /\ services[t].frozen)
    BY <1>1, <2>1 DEF ServiceRow
  <2>3. Gate!Unfreeze(s)
    BY <1>1, <2>1, <2>2 DEF Gate!Unfreeze, Gate!requests
  <2> QED BY <2>3 DEF Gate!Next
<1>4. ASSUME NEW s \in Services, DeleteService(s) PROVE Gate!Next
  <2>1. ~services[s].deleted /\ services' = [services EXCEPT ![s].deleted = TRUE]
    BY <1>4 DEF DeleteService, Active
  <2>2. \A t \in Services : /\ services'[t].frozen = services[t].frozen
                           /\ services'[t].score = services[t].score
                           /\ services'[t].deleted <=> (t = s \/ services[t].deleted)
    BY <1>1, <2>1 DEF ServiceRow
  <2>3. Gate!Delete(s)
    BY <1>1, <2>1, <2>2 DEF Gate!Delete, Gate!requests
  <2> QED BY <2>3 DEF Gate!Next
<1> QED BY <1>2, <1>3, <1>4

\* The deploy gate and the freeze keep to the promises of DeployGate, however
\* deploys, freezes, overrides, deletions and dead transactions overlap
\* (main.py:131-226, 280-325).
THEOREM GateKeptHolds == Spec => GateKept
<1> USE DEF Inside, Answered, Frozen, Gone, Shown
<1>1. Init => Gate!Init
  <2> SUFFICES ASSUME Init PROVE Gate!Init
    OBVIOUS
  <2>1. \A r \in Requests : deploys[r].pc = "idle"
    BY DEF Init, DeployIdle
  <2>2. Inside = [s \in Services |-> {}] /\ Answered = {}
    BY <2>1 DEF InFlight, InHandler, DeployDone
  <2>3. Frozen = {} /\ Gone = {} /\ Shown = [s \in Services |-> 0] /\ history = <<>>
    BY DEF Init
  <2> QED BY <2>2, <2>3 DEF Gate!Init
<1>2. KeepInv /\ [Next]_vars => [Gate!Next]_(Gate!vars)
  <2> SUFFICES ASSUME KeepInv, [Next]_vars PROVE Gate!Next \/ UNCHANGED Gate!vars
    OBVIOUS
  <2>1. ASSUME UNCHANGED <<services, history, deploys>> PROVE UNCHANGED Gate!vars
    BY <2>1 DEF Gate!vars, Gate!requests, InFlight
  <2>2. ASSUME NEW a \in Alerts, FreezeCommit(a) PROVE Gate!Next
    BY <2>2, FlagGates DEF FreezeCommit
  <2>3. ASSUME NEW s \in Services, Unfreeze(s) \/ DeleteService(s) PROVE Gate!Next
    BY <2>3, FlagGates DEF Unfreeze, DeleteService
  <2> QED
    BY <2>1, <2>2, <2>3, DeployGates
    DEF Next, FreezeStep, AlertFires, AlertRepeats, FreezeUpdate, FreezeUpdateWhere,
        FreezePublish, FreezeAbort, vars
<1> QED BY <1>1, <1>2, InitKeepInv, NextKeepInv, PTL DEF Spec, GateKept, Gate!Spec
=============================================================================
