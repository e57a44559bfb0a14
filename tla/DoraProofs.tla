------------------------------ MODULE DoraProofs ------------------------------
(***************************************************************************)
(* Theorems about Dora, for any deploys, any number of tasks, workers,     *)
(* retries and faults.                                                     *)
(***************************************************************************)
EXTENDS Dora, FiniteSetTheorems, TLAPS

\* The deploys that succeeded once, and those that went wrong: both only grow.
OnceGood(s) == Of(s, {"succeeded", "rolled_back"})
WentBad(s) == Of(s, Bad)

TaskType == [at : Steps \cup {"free", "queued"}, svc : Services \cup {Null},
             tries : 0..MaxRetries, window : SUBSET Deploys,
             ok : 0..Cardinality(Deploys), bad : 0..Cardinality(Deploys)]

Late == {"find", "insert", "update"}

\* What a task carries is within what the history has by now.
Fits(k) ==
  /\ k \in TaskType
  /\ k.at # "free" => k.svc \in Services
  /\ k.at \in Steps => k.ok <= Cardinality(OnceGood(k.svc))
  /\ k.at \in Late => k.bad <= Cardinality(WentBad(k.svc))

RecordFits(s) ==
  record[s] # Null => /\ record[s].ok <= Cardinality(OnceGood(s))
                      /\ record[s].bad <= Cardinality(WentBad(s))

\* Without a fault, a task that was tried again lost an insert: the record exists.
Raced(k) == (faults = 0 /\ k.at # "free" /\ k.tries > 0)
              => record[k.svc] # Null /\ k.at # "insert"

IInv == /\ TypeOK
        /\ \A t \in Slots : Fits(task[t]) /\ Raced(task[t])
        /\ \A s \in Services : RecordFits(s)

-----------------------------------------------------------------------------
\* A set of deploys is finite and no larger than all of them.
LEMMA DeploysFinite ==
  ASSUME NEW S \in SUBSET Deploys
  PROVE  IsFiniteSet(S) /\ Cardinality(S) \in 0..Cardinality(Deploys)
<1> IsFiniteSet(Deploys)
  BY DoraAssumption
<1> IsFiniteSet(S) /\ Cardinality(S) <= Cardinality(Deploys)
  BY FS_Subset
<1> QED BY FS_CardinalityType

\* A larger set of deploys has no smaller cardinality.
LEMMA Larger ==
  ASSUME NEW S \in SUBSET Deploys, NEW T \in SUBSET S
  PROVE  Cardinality(T) <= Cardinality(S)
BY DeploysFinite, FS_Subset

\* What a query counts is within the deploys that ever had such a status.
LEMMA CountsBounded ==
  ASSUME NEW s \in Services, NEW W \in SUBSET Deploys
  PROVE  /\ Count(s, {"succeeded"}, W) \in 0..Cardinality(Deploys)
         /\ Count(s, {"succeeded"}, W) <= Cardinality(OnceGood(s))
         /\ Count(s, WentWrong, W) \in 0..Cardinality(Deploys)
         /\ Count(s, WentWrong, W) <= Cardinality(WentBad(s))
<1> DEFINE A == {d \in Deploys : Owner[d] = s /\ deploy[d] \in {"succeeded"} /\ d \in W}
           B == {d \in Deploys : Owner[d] = s /\ deploy[d] \in Bad /\ d \in W}
<1>1. A \in SUBSET OnceGood(s) /\ OnceGood(s) \in SUBSET Deploys
  BY DEF OnceGood, Of
<1>2. B \in SUBSET WentBad(s) /\ WentBad(s) \in SUBSET Deploys
  BY DEF WentBad, Of
<1>3. A \in SUBSET Deploys /\ B \in SUBSET Deploys
  OBVIOUS
<1>4. Cardinality(A) <= Cardinality(OnceGood(s)) /\ Cardinality(B) <= Cardinality(WentBad(s))
  BY <1>1, <1>2, Larger
<1>5. Cardinality(A) \in 0..Cardinality(Deploys) /\ Cardinality(B) \in 0..Cardinality(Deploys)
  BY <1>3, DeploysFinite
<1>6. Count(s, {"succeeded"}, W) = Cardinality(A) /\ Count(s, WentWrong, W) = Cardinality(B)
  BY DEF Count, WentWrong
<1> QED BY <1>4, <1>5, <1>6

\* The invariant holds at the start: every task slot is free and no record is there.
LEMMA InitInv == Init => IInv
<1> SUFFICES ASSUME Init PROVE IInv
  OBVIOUS
<1>1. Cardinality(Deploys) \in Nat
  BY DoraAssumption, FS_CardinalityType
<1>2. Free \in TaskType
  BY <1>1, DoraAssumption DEF Free, TaskType
<1>3. TypeOK
  BY <1>2, DoraAssumption DEF Init, TypeOK, Status, TaskType
<1>4. ASSUME NEW t \in Slots PROVE Fits(task[t]) /\ Raced(task[t])
  BY <1>2 DEF Init, Fits, Raced, Free, Steps, Late
<1>5. ASSUME NEW s \in Services PROVE RecordFits(s)
  BY DEF Init, RecordFits
<1> QED BY <1>3, <1>4, <1>5 DEF IInv

-----------------------------------------------------------------------------
\* When the deploys move on, both sets grow and nothing else changes.
LEMMA HistoryStep ==
  ASSUME IInv, NEW d \in Deploys, DeployEnds(d) \/ RollsBack(d) \/ LeavesWindow(d)
  PROVE  IInv'
<1> USE DEF IInv
<1>1. /\ deploy' \in [Deploys -> Status] /\ old' \subseteq Deploys
      /\ UNCHANGED <<record, task, faults>>
  BY DEF DeployEnds, RollsBack, LeavesWindow, TypeOK, Status, Bad
<1>2. TypeOK'
  BY <1>1 DEF TypeOK
<1>3. ASSUME NEW s \in Services
      PROVE  /\ OnceGood(s) \subseteq OnceGood(s)' /\ WentBad(s) \subseteq WentBad(s)'
             /\ OnceGood(s)' \in SUBSET Deploys /\ WentBad(s)' \in SUBSET Deploys
  BY DEF DeployEnds, RollsBack, LeavesWindow, OnceGood, WentBad, Of, Bad, TypeOK, Status
<1>4. ASSUME NEW s \in Services
      PROVE  /\ Cardinality(OnceGood(s)) <= Cardinality(OnceGood(s)')
             /\ Cardinality(WentBad(s)) <= Cardinality(WentBad(s)')
             /\ Cardinality(OnceGood(s)) \in Nat /\ Cardinality(OnceGood(s)') \in Nat
             /\ Cardinality(WentBad(s)) \in Nat /\ Cardinality(WentBad(s)') \in Nat
  <2>1. OnceGood(s) \in SUBSET Deploys /\ WentBad(s) \in SUBSET Deploys
    BY DEF OnceGood, WentBad, Of
  <2> QED BY <2>1, <1>3, Larger, DeploysFinite, DoraAssumption, FS_CardinalityType
<1>5. ASSUME NEW t \in Slots PROVE Fits(task[t])' /\ Raced(task[t])'
  <2>1. task[t]' = task[t] /\ task[t] \in TaskType /\ Fits(task[t]) /\ Raced(task[t])
    BY <1>1 DEF Fits
  <2>2. CASE task[t].at = "free"
    BY <2>1, <2>2 DEF Fits, Raced, Steps, Late
  <2>3. CASE task[t].at # "free"
    <3>1. task[t].svc \in Services
      BY <2>1, <2>3 DEF Fits
    <3>2. Raced(task[t])'
      BY <1>1, <2>1 DEF Raced
    <3>3. task[t].ok \in Nat /\ task[t].bad \in Nat
      BY <2>1, DoraAssumption, FS_CardinalityType DEF TaskType
    <3>4. Fits(task[t])'
      BY <2>1, <3>1, <3>3, <1>4 DEF Fits, TaskType
    <3> QED BY <3>2, <3>4
  <2> QED BY <2>2, <2>3
<1>6. ASSUME NEW s \in Services PROVE RecordFits(s)'
  <2>1. record[s] # Null => record[s].ok \in Nat /\ record[s].bad \in Nat
    BY DoraAssumption, FS_CardinalityType DEF TypeOK, Counts
  <2> QED BY <1>1, <1>4, <2>1 DEF RecordFits
<1> QED BY <1>2, <1>5, <1>6

-----------------------------------------------------------------------------
\* The two sets depend on the deploys alone.
LEMMA SameHistory ==
  ASSUME UNCHANGED deploy
  PROVE  \A s \in Services : OnceGood(s)' = OnceGood(s) /\ WentBad(s)' = WentBad(s)
BY DEF OnceGood, WentBad, Of

\* A step of one task keeps the invariant if what it leaves of the task fits, and
\* the records fit and are not taken away.
LEMMA TaskStep ==
  ASSUME IInv, NEW t \in Slots, UNCHANGED history,
         task' \in [Slots -> TaskType], \A u \in Slots : u # t => task'[u] = task[u],
         Fits(task[t])', Raced(task[t])',
         record' \in [Services -> Counts \cup {Null}],
         \A s \in Services : RecordFits(s)',
         \A s \in Services : record[s] # Null => record'[s] # Null,
         faults' \in 0..MaxFaults, faults' = 0 => faults = 0
  PROVE  IInv'
<1>1. TypeOK'
  BY DEF IInv, TypeOK, history, TaskType
<1>2. ASSUME NEW u \in Slots PROVE Fits(task[u])' /\ Raced(task[u])'
  <2>1. CASE u = t
    BY <2>1
  <2>2. CASE u # t
    <3>1. task'[u] = task[u] /\ Fits(task[u]) /\ Raced(task[u])
      BY <2>2 DEF IInv
    <3>2. task[u].at # "free" => task[u].svc \in Services
      BY <3>1 DEF Fits
    <3>3. Fits(task[u])'
      <4>1. CASE task[u].at = "free"
        BY <3>1, <4>1 DEF Fits, Steps, Late
      <4>2. CASE task[u].at # "free"
        BY <3>1, <3>2, <4>2, SameHistory DEF Fits, TaskType, history
      <4> QED BY <4>1, <4>2
    <3>4. Raced(task[u])'
      BY <3>1, <3>2 DEF Raced
    <3> QED BY <3>3, <3>4
  <2> QED BY <2>1, <2>2
<1> QED BY <1>1, <1>2 DEF IInv

\* A step that leaves the records alone.
LEMMA OwnStep ==
  ASSUME IInv, NEW t \in Slots, UNCHANGED <<history, record>>,
         task' \in [Slots -> TaskType], \A u \in Slots : u # t => task'[u] = task[u],
         Fits(task[t])', Raced(task[t])',
         faults' \in 0..MaxFaults, faults' = 0 => faults = 0
  PROVE  IInv'
<1>1. \A s \in Services : RecordFits(s)'
  BY SameHistory DEF IInv, RecordFits, history
<1>2. record' \in [Services -> Counts \cup {Null}]
  BY DEF IInv, TypeOK
<1> QED BY <1>1, <1>2, TaskStep DEF history

\* A task that ends, or waits to start again, fits.
LEMMA FreeFits == Free \in TaskType /\ Fits(Free)' /\ Raced(Free)'
<1>1. Cardinality(Deploys) \in Nat
  BY DoraAssumption, FS_CardinalityType
<1>2. Free \in TaskType
  BY <1>1, DoraAssumption DEF Free, TaskType
<1> QED BY <1>2 DEF Free, Fits, Raced, Steps, Late, TaskType

LEMMA WaitingFits ==
  ASSUME NEW s \in Services, NEW n \in 0..MaxRetries,
         n = 0 \/ faults' # 0 \/ record'[s] # Null
  PROVE  Waiting(s, n) \in TaskType /\ Fits(Waiting(s, n))' /\ Raced(Waiting(s, n))'
<1>1. Cardinality(Deploys) \in Nat
  BY DoraAssumption, FS_CardinalityType
<1>2. Waiting(s, n) \in TaskType
  BY <1>1 DEF Waiting, TaskType
<1>3. Fits(Waiting(s, n))'
  BY <1>2 DEF Waiting, Fits, Steps, Late, TaskType
<1>4. Raced(Waiting(s, n))'
  BY DoraAssumption DEF Waiting, Raced
<1> QED BY <1>2, <1>3, <1>4

-----------------------------------------------------------------------------
\* One lemma for each step of the queue and the workers.
LEMMA AskInv == ASSUME IInv, NEW s \in Services, Ask(s) PROVE IInv'
<1>1. PICK t \in Slots : task' = [task EXCEPT ![t] = Waiting(s, 0)]
  BY DEF Ask
<1>2. UNCHANGED <<history, record, faults>>
  BY DEF Ask
<1>3. Waiting(s, 0) \in TaskType /\ Fits(Waiting(s, 0))' /\ Raced(Waiting(s, 0))'
  BY DoraAssumption, WaitingFits
<1>4. task \in [Slots -> TaskType] /\ faults \in 0..MaxFaults
  BY DEF IInv, TypeOK, TaskType
<1>5. task'[t] = Waiting(s, 0) /\ task' \in [Slots -> TaskType]
  BY <1>1, <1>3, <1>4
<1>6. Fits(task[t])' /\ Raced(task[t])'
  BY <1>3, <1>5 DEF Fits, Raced
<1> QED BY <1>1, <1>2, <1>4, <1>5, <1>6, OwnStep

\* What the invariant says of a task at work.
LEMMA AtWork ==
  ASSUME IInv, NEW t \in Slots, task[t].at # "free"
  PROVE  /\ task[t] \in TaskType /\ task[t].svc \in Services
         /\ Fits(task[t]) /\ Raced(task[t])
         /\ task \in [Slots -> TaskType] /\ faults \in 0..MaxFaults
BY DEF IInv, TypeOK, Fits, TaskType

LEMMA CountSucceededInv == ASSUME IInv, NEW t \in Slots, CountSucceeded(t) PROVE IInv'
<1> DEFINE n == Count(task[t].svc, {"succeeded"}, Deploys \ old)
           k == [task[t] EXCEPT !.at = "failures", !.window = Deploys \ old, !.ok = n]
<1>1. /\ task[t].at = "queued" /\ UNCHANGED <<history, record, faults>>
      /\ task' = [task EXCEPT ![t] = k]
  BY DEF CountSucceeded
<1>2. /\ task[t] \in TaskType /\ task[t].svc \in Services
      /\ Raced(task[t]) /\ task \in [Slots -> TaskType] /\ faults \in 0..MaxFaults
  BY <1>1, AtWork
<1>3. n \in 0..Cardinality(Deploys) /\ n <= Cardinality(OnceGood(task[t].svc))
  BY <1>2, CountsBounded
<1> HIDE DEF n
<1>4. /\ k \in TaskType /\ k.at = "failures" /\ k.svc = task[t].svc
      /\ k.tries = task[t].tries /\ k.ok = n
  BY <1>2, <1>3 DEF TaskType, Steps
<1> HIDE DEF k
<1>5. task' \in [Slots -> TaskType] /\ task'[t] = k
  BY <1>1, <1>2, <1>4
<1>6. Fits(task[t])'
  BY <1>1, <1>2, <1>3, <1>4, <1>5, SameHistory DEF Fits, Late, history
<1>7. Raced(task[t])'
  BY <1>1, <1>2, <1>4, <1>5 DEF Raced
<1> QED BY <1>1, <1>2, <1>5, <1>6, <1>7, OwnStep

LEMMA CountFailedInv == ASSUME IInv, NEW t \in Slots, CountFailed(t) PROVE IInv'
<1> DEFINE n == Count(task[t].svc, WentWrong, task[t].window)
           k == [task[t] EXCEPT !.at = "find", !.window = {}, !.bad = n]
<1>1. /\ task[t].at = "failures" /\ UNCHANGED <<history, record, faults>>
      /\ task' = [task EXCEPT ![t] = k]
  BY DEF CountFailed
<1>2. /\ task[t] \in TaskType /\ task[t].svc \in Services /\ Fits(task[t])
      /\ Raced(task[t]) /\ task \in [Slots -> TaskType] /\ faults \in 0..MaxFaults
  BY <1>1, AtWork
<1>3. n \in 0..Cardinality(Deploys) /\ n <= Cardinality(WentBad(task[t].svc))
  BY <1>2, CountsBounded DEF TaskType
<1> HIDE DEF n
<1>4. /\ k \in TaskType /\ k.at = "find" /\ k.svc = task[t].svc
      /\ k.tries = task[t].tries /\ k.ok = task[t].ok /\ k.bad = n
  BY <1>2, <1>3 DEF TaskType, Steps
<1> HIDE DEF k
<1>5. task' \in [Slots -> TaskType] /\ task'[t] = k
  BY <1>1, <1>2, <1>4
<1>6. Fits(task[t])'
  BY <1>1, <1>2, <1>3, <1>4, <1>5, SameHistory DEF Fits, Steps, history
<1>7. Raced(task[t])'
  BY <1>1, <1>2, <1>4, <1>5 DEF Raced
<1> QED BY <1>1, <1>2, <1>5, <1>6, <1>7, OwnStep

LEMMA FindRecordInv == ASSUME IInv, NEW t \in Slots, FindRecord(t) PROVE IInv'
<1> DEFINE at == IF record[task[t].svc] = Null THEN "insert" ELSE "update"
           k == [task[t] EXCEPT !.at = at]
<1>1. /\ task[t].at = "find" /\ UNCHANGED <<history, record, faults>>
      /\ task' = [task EXCEPT ![t] = k]
  BY DEF FindRecord
<1>2. /\ task[t] \in TaskType /\ task[t].svc \in Services /\ Fits(task[t])
      /\ Raced(task[t]) /\ task \in [Slots -> TaskType] /\ faults \in 0..MaxFaults
  BY <1>1, AtWork
<1>3. /\ k \in TaskType /\ k.at = at /\ k.svc = task[t].svc
      /\ k.tries = task[t].tries /\ k.ok = task[t].ok /\ k.bad = task[t].bad
  BY <1>2 DEF TaskType, Steps
<1>4. at \in {"insert", "update"} /\ (at = "insert" => record[task[t].svc] = Null)
  OBVIOUS
<1> HIDE DEF k, at
<1>5. task' \in [Slots -> TaskType] /\ task'[t] = k
  BY <1>1, <1>2, <1>3
<1>6. Fits(task[t])'
  BY <1>1, <1>2, <1>3, <1>4, <1>5, SameHistory DEF Fits, Steps, Late, history
<1>7. Raced(task[t])'
  BY <1>1, <1>2, <1>3, <1>4, <1>5 DEF Raced
<1> QED BY <1>1, <1>2, <1>5, <1>6, <1>7, OwnStep

\* A task that starts again, after a fault or a lost insert, or gives up.
LEMMA RestartInv ==
  ASSUME IInv, NEW t \in Slots, task[t].at \in Steps, UNCHANGED <<history, record>>,
         \/ Retry(t) \/ Done(t)
         \/ task' = [task EXCEPT ![t] = Waiting(task[t].svc, task[t].tries)],
         faults' \in 0..MaxFaults, faults' = 0 => faults = 0,
         faults' # 0 \/ record[task[t].svc] # Null
  PROVE  IInv'
<1>1. /\ task[t] \in TaskType /\ task[t].svc \in Services
      /\ task \in [Slots -> TaskType]
  BY AtWork DEF Steps
<1>2. PICK k : /\ k \in TaskType /\ Fits(k)' /\ Raced(k)'
               /\ task' = [task EXCEPT ![t] = k]
  <2>1. CASE task' = [task EXCEPT ![t] = Free]
    BY <2>1, FreeFits
  <2>2. ASSUME NEW n \in 0..MaxRetries,
               task' = [task EXCEPT ![t] = Waiting(task[t].svc, n)]
        PROVE  \E k : /\ k \in TaskType /\ Fits(k)' /\ Raced(k)'
                      /\ task' = [task EXCEPT ![t] = k]
    <3>1. faults' # 0 \/ record'[task[t].svc] # Null
      OBVIOUS
    <3> QED BY <2>2, <3>1, <1>1, WaitingFits
  <2>3. task[t].tries \in 0..MaxRetries
    BY <1>1 DEF TaskType
  <2>4. task[t].tries < MaxRetries => task[t].tries + 1 \in 0..MaxRetries
    BY <2>3, DoraAssumption
  <2> QED BY <2>1, <2>2, <2>3, <2>4 DEF Retry, Done
<1>3. task'[t] = k /\ task' \in [Slots -> TaskType]
  BY <1>1, <1>2
<1>4. Fits(task[t])' /\ Raced(task[t])'
  BY <1>2, <1>3 DEF Fits, Raced
<1> QED BY <1>2, <1>3, <1>4, OwnStep

LEMMA WriteInv == ASSUME IInv, NEW t \in Slots, Write(t) PROVE IInv'
<1> DEFINE s == task[t].svc
           row == [ok |-> task[t].ok, bad |-> task[t].bad]
<1>1. task[t].at \in {"insert", "update"} /\ UNCHANGED <<history, faults>>
  BY DEF Write
<1>2. /\ task[t] \in TaskType /\ s \in Services /\ Fits(task[t])
      /\ task \in [Slots -> TaskType] /\ faults \in 0..MaxFaults
  BY <1>1, AtWork
<1>3. CASE task[t].at = "insert" /\ record[s] # Null
  <2>1. Retry(t) /\ UNCHANGED record
    BY <1>3 DEF Write
  <2> QED BY <1>1, <1>2, <1>3, <2>1, RestartInv DEF Steps
<1>4. CASE ~(task[t].at = "insert" /\ record[s] # Null)
  <2>1. record' = [record EXCEPT ![s] = row] /\ task' = [task EXCEPT ![t] = Free]
    BY <1>4 DEF Write, Done
  <2>2. row \in Counts /\ row # Null
    BY <1>2, DoraAssumption DEF TaskType, Counts
  <2>3. record \in [Services -> Counts \cup {Null}]
    BY DEF IInv, TypeOK
  <2>4. /\ record' \in [Services -> Counts \cup {Null}]
        /\ \A u \in Services : record'[u] = IF u = s THEN row ELSE record[u]
    BY <2>1, <2>2, <2>3
  <2>5. ASSUME NEW u \in Services PROVE RecordFits(u)'
    <3>1. CASE u = s
      <4>1. /\ row.ok <= Cardinality(OnceGood(s)) /\ row.bad <= Cardinality(WentBad(s))
            /\ record'[s] = row
        BY <1>1, <1>2, <2>4 DEF Fits, Steps, Late
      <4> QED BY <3>1, <4>1, <1>1, <1>2, SameHistory DEF RecordFits, history
    <3>2. CASE u # s
      BY <3>2, <2>4, <1>1, SameHistory DEF RecordFits, IInv, history
    <3> QED BY <3>1, <3>2
  <2>6. task' \in [Slots -> TaskType] /\ task'[t] = Free
    BY <1>2, <2>1, FreeFits
  <2>7. Fits(task[t])' /\ Raced(task[t])'
    BY <2>6, FreeFits DEF Fits, Raced
  <2> QED BY <1>1, <1>2, <2>1, <2>2, <2>4, <2>5, <2>6, <2>7, TaskStep DEF history
<1> QED BY <1>3, <1>4

LEMMA FaultInv ==
  ASSUME IInv, NEW t \in Slots, TaskFails(t) \/ WorkerLost(t) PROVE IInv'
<1>1. /\ task[t].at \in Steps /\ UNCHANGED <<history, record>>
      /\ faults < MaxFaults /\ faults' = faults + 1
      /\ \/ Retry(t) \/ Done(t)
         \/ task' = [task EXCEPT ![t] = Waiting(task[t].svc, task[t].tries)]
  BY DEF TaskFails, WorkerLost, Fault, Running
<1>2. faults' \in 0..MaxFaults /\ faults' # 0
  BY <1>1, DoraAssumption DEF IInv, TypeOK
<1> QED BY <1>1, <1>2, RestartInv

-----------------------------------------------------------------------------
\* Every step keeps the invariant.
LEMMA NextInv == IInv /\ [Next]_vars => IInv'
<1> SUFFICES ASSUME IInv, [Next]_vars PROVE IInv'
  OBVIOUS
<1>1. CASE UNCHANGED vars
  BY <1>1 DEF vars, history, IInv, TypeOK, Fits, Raced, RecordFits, OnceGood, WentBad, Of,
     TaskType
<1>2. ASSUME NEW d \in Deploys, DeployEnds(d) \/ RollsBack(d) \/ LeavesWindow(d)
      PROVE IInv'
  BY <1>2, HistoryStep
<1>3. ASSUME NEW s \in Services, Ask(s) PROVE IInv'
  BY <1>3, AskInv
<1>4. ASSUME NEW t \in Slots, Work(t) PROVE IInv'
  BY <1>4, CountSucceededInv, CountFailedInv, FindRecordInv, WriteInv DEF Work
<1>5. ASSUME NEW t \in Slots, TaskFails(t) \/ WorkerLost(t) PROVE IInv'
  BY <1>5, FaultInv
<1> QED BY <1>1, <1>2, <1>3, <1>4, <1>5 DEF Next

\* Type correctness of the DORA worker (dora.py:112-248).
THEOREM TypeCorrect == Spec => []TypeOK
<1>1. IInv => TypeOK
  BY DEF IInv
<1> QED BY <1>1, InitInv, NextInv, PTL DEF Spec

\* What fits cannot exceed the deploys by more than those rolled back.
LEMMA FitsNoDoubleCount == IInv => DoubleCountNeedsRollBack
<1> SUFFICES ASSUME IInv, NEW s \in Services, record[s] # Null
             PROVE  record[s].ok + record[s].bad
                      <= Cardinality(Of(s, {"succeeded"} \cup Bad))
                           + Cardinality(Of(s, {"rolled_back"}))
  BY DEF DoubleCountNeedsRollBack
<1>1. /\ OnceGood(s) \cup WentBad(s) = Of(s, {"succeeded"} \cup Bad)
      /\ OnceGood(s) \cap WentBad(s) = Of(s, {"rolled_back"})
  BY DEF OnceGood, WentBad, Of, Bad
<1>2. OnceGood(s) \in SUBSET Deploys /\ WentBad(s) \in SUBSET Deploys
      /\ Of(s, {"rolled_back"}) \in SUBSET Deploys /\ Of(s, {"succeeded"} \cup Bad) \in SUBSET Deploys
  BY DEF OnceGood, WentBad, Of
<1>3. Cardinality(OnceGood(s) \cup WentBad(s))
        = Cardinality(OnceGood(s)) + Cardinality(WentBad(s))
            - Cardinality(OnceGood(s) \cap WentBad(s))
  BY <1>2, DeploysFinite, FS_Union
<1>4. /\ Cardinality(OnceGood(s)) \in Nat /\ Cardinality(WentBad(s)) \in Nat
      /\ Cardinality(Of(s, {"rolled_back"})) \in Nat
  BY <1>2, DeploysFinite, DoraAssumption, FS_CardinalityType
<1>5. /\ record[s].ok <= Cardinality(OnceGood(s)) /\ record[s].bad <= Cardinality(WentBad(s))
      /\ record[s].ok \in Nat /\ record[s].bad \in Nat
  BY DoraAssumption, FS_CardinalityType DEF IInv, RecordFits, TypeOK, Counts
<1>6. Cardinality(Of(s, {"succeeded"} \cup Bad))
        = Cardinality(OnceGood(s)) + Cardinality(WentBad(s))
            - Cardinality(Of(s, {"rolled_back"}))
  BY <1>1, <1>3, Zenon
<1> DEFINE a == Cardinality(OnceGood(s))
           b == Cardinality(WentBad(s))
           c == Cardinality(Of(s, {"rolled_back"}))
           e == Cardinality(Of(s, {"succeeded"} \cup Bad))
<1>7. a \in Nat /\ b \in Nat /\ c \in Nat /\ e = a + b - c
  BY <1>4, <1>6
<1>8. record[s].ok <= a /\ record[s].bad <= b /\ record[s].ok \in Nat /\ record[s].bad \in Nat
  BY <1>5
<1> HIDE DEF a, b, c, e
<1>9. record[s].ok + record[s].bad <= e + c
  BY <1>7, <1>8
<1> QED BY <1>9 DEF c, e

\* A record counts more deploys than there are only by those rolled back
\* (dora.py:140-149, 202-211, 223-235).
THEOREM DoubleCountHolds == Spec => []DoubleCountNeedsRollBack
BY InitInv, NextInv, FitsNoDoubleCount, PTL DEF Spec

\* Without a fault, a step that ends a task writes its counts.
LEMMA StepLosesNoTask ==
  ASSUME IInv, IInv', [Next]_vars, NEW t \in Slots,
         t \in Running, task'[t].at = "free", faults' = 0
  PROVE  record'[task[t].svc] = [ok |-> task[t].ok, bad |-> task[t].bad]
<1>1. /\ task[t].at \in Steps /\ task[t] \in TaskType /\ task[t].svc \in Services
      /\ Raced(task[t]) /\ task \in [Slots -> TaskType]
  BY AtWork DEF Running, Steps
<1>2. faults \in Nat /\ record \in [Services -> Counts \cup {Null}]
  BY DoraAssumption DEF IInv, TypeOK
<1>3. task'[t] # task[t]
  BY <1>1 DEF Steps
<1>4. CASE UNCHANGED vars \/ \E d \in Deploys : DeployEnds(d) \/ RollsBack(d) \/ LeavesWindow(d)
  BY <1>3, <1>4 DEF vars, DeployEnds, RollsBack, LeavesWindow
<1>5. ASSUME NEW s \in Services, Ask(s) PROVE FALSE
  BY <1>1, <1>3, <1>5 DEF Ask, Waiting, Steps
<1>6. ASSUME NEW u \in Slots, TaskFails(u) \/ WorkerLost(u) PROVE FALSE
  BY <1>2, <1>6 DEF TaskFails, WorkerLost, Fault
<1>7. ASSUME NEW u \in Slots, CountSucceeded(u) \/ CountFailed(u) \/ FindRecord(u) PROVE FALSE
  BY <1>1, <1>3, <1>7 DEF CountSucceeded, CountFailed, FindRecord, Steps, TaskType
<1>8. ASSUME NEW u \in Slots, Write(u)
      PROVE record'[task[t].svc] = [ok |-> task[t].ok, bad |-> task[t].bad]
  <2>1. u = t
    BY <1>1, <1>3, <1>8 DEF Write, Retry, Done
  <2>2. CASE task[t].at = "insert" /\ record[task[t].svc] # Null
    <3>1. faults = 0 /\ Retry(t)
      BY <1>8, <2>1, <2>2 DEF Write
    <3>2. task[t].tries \in Nat /\ ~(task[t].tries > 0)
      BY <1>1, <2>2, <3>1, DoraAssumption DEF Raced, TaskType, Steps
    <3>3. task' = [task EXCEPT ![t] = Waiting(task[t].svc, task[t].tries + 1)]
      BY <3>1, <3>2, DoraAssumption DEF Retry
    <3> QED BY <1>1, <3>3 DEF Waiting
  <2>3. CASE ~(task[t].at = "insert" /\ record[task[t].svc] # Null)
    BY <1>1, <1>2, <1>8, <2>1, <2>3 DEF Write
  <2> QED BY <2>2, <2>3
<1> QED BY <1>4, <1>5, <1>6, <1>7, <1>8 DEF Next, Work

\* Two first tasks of a service may race to insert its record: neither is lost
\* (dora.py:112-130, 216-235).
THEOREM RaceLosesNoTaskHolds == Spec => RaceLosesNoTask
<1>1. IInv /\ IInv' /\ [Next]_vars =>
        [\A t \in Slots :
           (t \in Running /\ task'[t].at = "free" /\ faults' = 0) =>
             record'[task[t].svc] = [ok |-> task[t].ok, bad |-> task[t].bad]]_vars
  BY StepLosesNoTask
<1> QED BY <1>1, InitInv, NextInv, PTL DEF Spec, RaceLosesNoTask
=============================================================================
