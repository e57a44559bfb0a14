---------------------------- MODULE PipelineProofs ----------------------------
(***************************************************************************)
(* Theorems about Pipeline, for any services, quota, buffer and number of  *)
(* faults.                                                                 *)
(***************************************************************************)
EXTENDS Pipeline, TLAPS

PollerType == [at : {"service", "fetch", "store"}, todo : SUBSET Services,
               service : Services \cup {Null}, seen : Status]

\* A row that is written is that of a service in hand.
IInv == /\ TypeOK
        /\ poller.at # "service" => poller.service \in Services

\* What the rate limit, and the surroundings, do to the quota.
RateTyped == budget \in 0 .. Quota /\ mustWait \in BOOLEAN /\ dug \in Nat

LEMMA RestingTyped == Resting \in PollerType /\ Resting.at = "service"
BY DEF Resting, PollerType, Status

LEMMA InitInv == Init => IInv
<1> SUFFICES ASSUME Init PROVE IInv
  OBVIOUS
<1>1. poller \in PollerType /\ poller.at = "service"
  BY RestingTyped DEF Init
<1>2. budget \in 0 .. Quota /\ faults \in 0 .. MaxFaults /\ dug \in Nat /\ mustWait \in BOOLEAN
  <2>1. mustWait \in BOOLEAN
    BY Zenon DEF Init
  <2>2. budget = Quota /\ faults = 0 /\ dug = 0
    BY DEF Init
  <2> QED BY <2>1, <2>2, PipelineAssumption
<1>3. run \in [Services -> Status] /\ stored \in [Services -> Status]
  BY DEF Init, Status
<1> QED BY <1>1, <1>2, <1>3 DEF IInv, TypeOK, PollerType

\* Requests, answered or not, leave the quota in its type.
LEMMA RateKept ==
  ASSUME IInv, Request \/ Unanswered \/ UNCHANGED rate
  PROVE  RateTyped'
<1>1. /\ Spent \in 0 .. Quota /\ Deeper \in Nat /\ Spent \in Nat /\ Buffer \in Nat
      /\ RateTyped
  BY PipelineAssumption DEF IInv, TypeOK, Spent, Deeper, RateTyped
<1>2. CASE Request
  <2>1. (Spent < Buffer) \in BOOLEAN
    OBVIOUS
  <2> HIDE DEF Spent, Deeper
  <2>2. mustWait' \in BOOLEAN
    BY <1>2, <2>1, Zenon DEF Request
  <2> QED BY <1>1, <1>2, <2>2 DEF Request, RateTyped
<1>3. CASE Unanswered
  BY <1>1, <1>3 DEF Unanswered, RateTyped
<1>4. CASE UNCHANGED rate
  BY <1>1, <1>4 DEF rate, RateTyped
<1> QED BY <1>2, <1>3, <1>4

LEMMA FaultKept ==
  ASSUME IInv, UNCHANGED faults \/ Fault
  PROVE  faults' \in 0 .. MaxFaults
BY PipelineAssumption DEF IInv, TypeOK, Fault

\* Every step of the poller, and every one of GitHub and of the other clients.
LEMMA PollerInv == ASSUME IInv, PollerSteps PROVE IInv'
<1>1. /\ poller \in PollerType /\ run \in [Services -> Status] /\ stored \in [Services -> Status]
  BY DEF IInv, TypeOK, PollerType
<1>2. /\ UNCHANGED run /\ (UNCHANGED faults \/ Fault)
      /\ Request \/ Unanswered \/ UNCHANGED rate
  BY DEF PollerSteps, RoundStarts, PollService, RequestFails, FetchStages, StoreRun
<1>3. stored' \in [Services -> Status]
  <2>1. CASE StoreRun
    <3>1. poller.service \in Services /\ poller.seen \in Status
      BY <1>1, <2>1 DEF StoreRun, IInv, PollerType
    <3> QED BY <1>1, <2>1, <3>1 DEF StoreRun, Committed, Row
  <2>2. CASE ~StoreRun
    BY <1>1, <2>2 DEF PollerSteps, RoundStarts, PollService, FetchStages
  <2> QED BY <2>1, <2>2
<1>4. poller' \in PollerType /\ (poller'.at # "service" => poller'.service \in Services)
  <2>1. CASE RoundEnds
    BY <2>1, RestingTyped DEF RoundEnds
  <2>2. CASE RoundStarts
    BY <1>1, <2>2 DEF RoundStarts, PollerType
  <2>3. ASSUME NEW s \in Services, PollService(s), ~RoundEnds
        PROVE  poller' \in PollerType /\ (poller'.at # "service" => poller'.service \in Services)
    <3>1. run[s] \in Status /\ poller.at = "service"
      BY <1>1, <2>3 DEF PollService
    <3> QED BY <1>1, <2>3, <3>1 DEF PollService, RequestFails, PollerType
  <2>4. CASE FetchStages /\ ~RoundEnds
    <3>1. poller.at = "fetch" /\ poller' = [poller EXCEPT !.at = "store"]
      BY <2>4 DEF FetchStages, RequestFails
    <3> QED BY <1>1, <3>1 DEF PollerType, IInv
  <2> QED BY <2>1, <2>2, <2>3, <2>4 DEF PollerSteps, StoreRun
<1>5. RateTyped' /\ faults' \in 0 .. MaxFaults
  BY <1>2, RateKept, FaultKept
<1> QED BY <1>1, <1>2, <1>3, <1>4, <1>5 DEF IInv, TypeOK, PollerType, RateTyped

LEMMA WorldInv == ASSUME IInv, World \/ UNCHANGED vars PROVE IInv'
<1>1. /\ poller \in PollerType /\ run \in [Services -> Status]
      /\ (poller.at # "service" => poller.service \in Services) /\ RateTyped
  BY DEF IInv, TypeOK, PollerType, RateTyped
<1>2. /\ UNCHANGED stored /\ (UNCHANGED faults \/ Fault)
      /\ UNCHANGED poller \/ RoundEnds
  BY DEF World, RunMoves, QuotaResets, OthersSpend, PollerRestarts, vars
<1>3. run' \in [Services -> Status]
  BY <1>1 DEF World, RunMoves, QuotaResets, OthersSpend, PollerRestarts, vars, Status
<1>4. RateTyped'
  <2>1. mustWait' = FALSE \/ UNCHANGED mustWait
    BY DEF World, RunMoves, QuotaResets, OthersSpend, PollerRestarts, vars, rate
  <2>2. mustWait' \in BOOLEAN
    BY <1>1, <2>1, Zenon DEF RateTyped
  <2>3. /\ UNCHANGED budget \/ budget' = Quota \/ (budget > 0 /\ budget' = budget - 1)
        /\ dug' = 0 \/ UNCHANGED dug
    BY DEF World, RunMoves, QuotaResets, OthersSpend, PollerRestarts, vars, rate
  <2>4. budget' \in 0 .. Quota /\ dug' \in Nat
    BY <1>1, <2>3, PipelineAssumption DEF RateTyped
  <2> QED BY <2>2, <2>4 DEF RateTyped
<1>5. poller' \in PollerType /\ (poller'.at # "service" => poller'.service \in Services)
  BY <1>1, <1>2, RestingTyped DEF RoundEnds
<1>6. faults' \in 0 .. MaxFaults
  BY <1>2, FaultKept
<1> QED BY <1>2, <1>3, <1>4, <1>5, <1>6 DEF IInv, TypeOK, PollerType, RateTyped

LEMMA Invariant == Spec => []IInv
<1>1. IInv /\ [Next]_vars => IInv'
  BY PollerInv, WorldInv DEF Next
<1> QED BY <1>1, InitInv, PTL DEF Spec

\* Every reachable state of the poller is well typed (main.py of the pipeline service).
THEOREM TypeCorrect == Spec => []TypeOK
<1>1. IInv => TypeOK
  BY DEF IInv
<1> QED BY <1>1, Invariant, PTL

-----------------------------------------------------------------------------
(* The rate limit.  Once an answer has been read below the buffer the poller *)
(* goes no further than the run in hand; only a fault can hide that answer,  *)
(* or take what the last one had left.  So what it has dug and what it has   *)
(* still to fetch share one request and two for each fault, and while it may *)
(* poll below the buffer two of these are left.                              *)

\* The requests the run in hand still takes.
ToFetch == IF poller.at = "fetch" THEN 1 ELSE 0

DigOK ==
  /\ budget >= Buffer => dug = 0
  /\ dug + ToFetch <= 1 + 2 * faults
  /\ budget < Buffer /\ ~mustWait => dug + ToFetch + 1 <= 2 * faults

LEMMA Twice == \A k \in Nat : 2 * k \in Nat /\ 2 * (k + 1) = 2 * k + 2
OBVIOUS

\* Arithmetic of one fault, for the primed variables.
LEMMA OneStep ==
  \A d, e \in Nat : /\ d <= e + 1 => d <= 1 + (e + 2) /\ d + 1 <= e + 2
                    /\ d + 0 = d
OBVIOUS

\* What a step does to the allowance, whatever it is about: it asks for the runs of
\* another service or for the stages of a run, gets an answer or none, or is a
\* fault of the surroundings.
LEMMA AllowanceKept ==
  ASSUME TypeOK, TypeOK', DigOK,
         \/ /\ Request /\ (UNCHANGED faults \/ Fault)
            /\ ~mustWait \/ ToFetch' < ToFetch
         \/ /\ Unanswered /\ Fault /\ ToFetch' = 0
            /\ ~mustWait \/ ToFetch > 0
         \/ /\ UNCHANGED rate /\ (UNCHANGED faults \/ Fault) /\ ToFetch' <= ToFetch
         \/ /\ UNCHANGED dug /\ budget' <= budget /\ Fault /\ ToFetch' <= ToFetch
         \/ QuotaResets
  PROVE  DigOK'
<1>0. PICK a, b, m, n : /\ a = 2 * faults /\ b = 2 * faults'
                         /\ m = ToFetch /\ n = ToFetch'
  OBVIOUS
<1>1. /\ budget \in Nat /\ dug \in Nat /\ faults \in Nat /\ mustWait \in BOOLEAN
      /\ budget' \in Nat /\ dug' \in Nat /\ faults' \in Nat /\ mustWait' \in BOOLEAN
      /\ Buffer \in Nat /\ m \in 0 .. 1 /\ n \in 0 .. 1
  BY <1>0, PipelineAssumption DEF TypeOK, ToFetch
<1>2. /\ budget >= Buffer => dug = 0
      /\ dug + m <= 1 + a
      /\ budget < Buffer /\ ~mustWait => dug + m + 1 <= a
  BY <1>0 DEF DigOK
<1> SUFFICES /\ budget' >= Buffer => dug' = 0
             /\ dug' + n <= 1 + b
             /\ budget' < Buffer /\ ~mustWait' => dug' + n + 1 <= b
  BY <1>0 DEF DigOK
<1>3. /\ a \in Nat /\ b \in Nat
      /\ (UNCHANGED faults => b = a) /\ (Fault => b = a + 2)
      /\ UNCHANGED faults \/ Fault
  <2>1. UNCHANGED faults \/ Fault
    BY DEF QuotaResets
  <2>2. Fault => faults' = faults + 1
    BY DEF Fault
  <2> QED BY <1>0, <1>1, <2>1, <2>2, Twice
<1>4. CASE Request /\ (~mustWait \/ n < m)
  <2>1. /\ budget' <= budget
        /\ budget < Buffer => budget' < Buffer /\ dug' = dug + 1
        /\ budget >= Buffer => dug' = dug
    BY <1>1, <1>4 DEF Request, Spent, Deeper
  <2>2. ~(budget' < Buffer /\ ~mustWait')
    BY <1>4, Zenon DEF Request
  <2>3. CASE budget >= Buffer
    BY <1>1, <1>2, <1>3, <2>1, <2>2, <2>3
  <2>4. CASE budget < Buffer
    BY <1>1, <1>2, <1>3, <1>4, <2>1, <2>2, <2>4
  <2> QED BY <1>1, <2>3, <2>4
<1>5. CASE Unanswered /\ Fault /\ n = 0 /\ (~mustWait \/ m > 0)
  <2>1. /\ budget' <= budget /\ UNCHANGED mustWait
        /\ budget < Buffer => dug' = dug \/ dug' = dug + 1
        /\ budget >= Buffer => dug' = dug
    BY <1>1, <1>5 DEF Unanswered, Spent, Deeper
  <2>2. b = a + 2
    BY <1>3, <1>5
  <2>3. CASE budget >= Buffer
    BY <1>1, <1>2, <1>3, <1>5, <2>1, <2>2, <2>3
  <2>4. CASE budget < Buffer
    <3>1. dug <= a
      BY <1>1, <1>2, <1>3, <1>5, <2>4
    <3>2. dug' <= a + 1
      BY <1>1, <1>3, <2>1, <2>4, <3>1
    <3>3. n = 0 /\ ~(budget' >= Buffer)
      BY <1>1, <1>5, <2>1, <2>4
    <3>4. dug' <= 1 + b /\ dug' + 1 <= b
      <4>1. a \in Nat /\ dug' \in Nat
        BY <1>1, <1>3
      <4>2. dug' <= 1 + (a + 2) /\ dug' + 1 <= a + 2
        BY <3>2, <4>1, OneStep
      <4> QED BY <2>2, <4>2
    <3>5. dug' + n = dug'
      <4>1. dug' \in Nat /\ n = 0
        BY <1>1, <3>3
      <4> QED BY <4>1, OneStep
    <3> QED BY <3>3, <3>4, <3>5
  <2> QED BY <1>1, <2>3, <2>4
<1>6. CASE UNCHANGED rate /\ n <= m
  BY <1>1, <1>2, <1>3, <1>6 DEF rate
<1>7. CASE UNCHANGED dug /\ budget' <= budget /\ Fault /\ n <= m
  BY <1>1, <1>2, <1>3, <1>7
<1>8. CASE QuotaResets
  <2>1. budget' >= Buffer /\ dug' = 0
    BY <1>8, PipelineAssumption DEF QuotaResets
  <2> QED BY <1>1, <1>3, <2>1
<1> QED BY <1>0, <1>4, <1>5, <1>6, <1>7, <1>8

LEMMA InitDigs == Init => DigOK
<1> SUFFICES ASSUME Init PROVE DigOK
  OBVIOUS
<1>1. ToFetch = 0 /\ dug = 0 /\ faults = 0 /\ budget = Quota
  BY RestingTyped DEF Init, ToFetch
<1> QED BY <1>1, PipelineAssumption DEF DigOK

LEMMA PollerDigs == ASSUME TypeOK, TypeOK', DigOK, PollerSteps PROVE DigOK'
<1>1. poller \in PollerType
  BY DEF TypeOK, PollerType
<1>2. RoundEnds => ToFetch' = 0
  BY RestingTyped DEF RoundEnds, ToFetch
<1>3. ToFetch \in 0 .. 1 /\ ToFetch' \in 0 .. 1
  BY DEF ToFetch
<1>4. CASE RoundStarts
  <2>1. ToFetch' = ToFetch /\ UNCHANGED rate /\ UNCHANGED faults
    BY <1>1, <1>4 DEF RoundStarts, PollerType, ToFetch
  <2> QED BY <1>3, <2>1, AllowanceKept
<1>5. ASSUME NEW s \in Services, PollService(s) PROVE DigOK'
  <2>1. ~mustWait
    BY <1>5 DEF PollService, MayPoll
  <2>2. (Request /\ (UNCHANGED faults \/ Fault)) \/ (Fault /\ RoundEnds /\ Unanswered)
    BY <1>5 DEF PollService, RequestFails
  <2> QED BY <1>2, <2>1, <2>2, AllowanceKept
<1>6. CASE FetchStages
  <2>1. ToFetch = 1
    BY <1>6 DEF FetchStages, ToFetch
  <2>2. CASE poller' = [poller EXCEPT !.at = "store"] /\ Request /\ UNCHANGED faults
    <3>1. ToFetch' = 0
      BY <1>1, <2>2 DEF PollerType, ToFetch
    <3> QED BY <2>1, <2>2, <3>1, AllowanceKept
  <2>3. CASE RequestFails
    BY <1>2, <2>1, <2>3, AllowanceKept DEF RequestFails
  <2> QED BY <1>6, <2>2, <2>3 DEF FetchStages
<1>7. CASE StoreRun
  <2>1. UNCHANGED rate /\ UNCHANGED faults /\ ToFetch' <= ToFetch
    BY <1>2, <1>3, <1>7 DEF StoreRun
  <2> QED BY <2>1, AllowanceKept
<1> QED BY <1>4, <1>5, <1>6, <1>7 DEF PollerSteps

LEMMA WorldDigs == ASSUME TypeOK, TypeOK', DigOK, World \/ UNCHANGED vars PROVE DigOK'
<1>1. budget \in Nat /\ ToFetch \in 0 .. 1
  BY PipelineAssumption DEF TypeOK, ToFetch
<1>2. UNCHANGED poller => ToFetch' = ToFetch
  BY DEF ToFetch
<1>3. CASE (\E s \in Services : RunMoves(s)) \/ UNCHANGED vars
  <2>1. UNCHANGED rate /\ UNCHANGED faults /\ UNCHANGED poller
    BY <1>3 DEF RunMoves, vars
  <2> QED BY <1>1, <1>2, <2>1, AllowanceKept
<1>4. CASE OthersSpend
  <2>1. UNCHANGED dug /\ budget' <= budget /\ Fault /\ UNCHANGED poller
    BY <1>1, <1>4 DEF OthersSpend
  <2> QED BY <1>1, <1>2, <2>1, AllowanceKept
<1>5. CASE PollerRestarts
  <2>1. UNCHANGED dug /\ budget' <= budget /\ Fault
    BY <1>1, <1>5 DEF PollerRestarts
  <2>2. ToFetch' = 0
    BY <1>5, RestingTyped DEF PollerRestarts, RoundEnds, ToFetch
  <2> QED BY <1>1, <2>1, <2>2, AllowanceKept
<1> QED BY <1>3, <1>4, <1>5, AllowanceKept DEF World

\* "Pauses until reset": however many services and faults, the poller makes one request
\* below the buffer, and two more for each fault that hid an answer from it or spent
\* what it had counted on (main.py:67-82).
THEOREM DigsLittleHolds == Spec => []DigsLittle
<1>1. TypeOK /\ DigOK => DigsLittle
  <2> SUFFICES ASSUME TypeOK, DigOK PROVE DigsLittle
    OBVIOUS
  <2>1. ToFetch \in 0 .. 1 /\ dug \in Nat /\ faults \in Nat
    BY PipelineAssumption DEF TypeOK, ToFetch
  <2> QED BY <2>1 DEF DigOK, DigsLittle
<1>2. TypeOK /\ TypeOK' /\ DigOK /\ [Next]_vars => DigOK'
  BY PollerDigs, WorldDigs DEF Next
<1> QED BY <1>1, <1>2, TypeCorrect, InitDigs, PTL DEF Spec
=============================================================================
