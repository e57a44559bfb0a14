--------------------------- MODULE ReconcilerProofs ---------------------------
(***************************************************************************)
(* Theorems about the catalog beside its reconciliation, for any names,    *)
(* calls, health values, seeds and number of faults.                       *)
(***************************************************************************)
EXTENDS Reconciler, TLAPS

\* What a call knows of the row it is about: registered by itself alone while
\* its INSERT is not committed, there for good once it has been loaded or committed.
Knows(c, k) ==
  /\ k.pc \in {"insert", "commit", "publish", "graph"} =>
       k.name \in Names
  /\ k.pc = "insert" => k.op = "register"
  /\ k.pc \in {"commit", "publish"} => k.op \in {"register", "update", "delete"}
  /\ k.pc = "commit" /\ k.op = "register" => pending[k.name] = c
  /\ k.pc = "commit" /\ k.op # "register" => Exists(k.name)
  /\ k.pc \in {"publish", "graph"} =>
       Exists(k.name) /\ (k.op = "delete" => rows[k.name].deleted)
  /\ k.pc = "graph" /\ k.op \in {"register", "update"} => k.seen \in Health

CallsKnow == \A c \in Calls : Knows(c, calls[c])

\* A name with an INSERT under way has no row, and the call is about to commit.
PendingIsNew ==
  \A n \in Names : pending[n] # Null =>
    /\ ~Exists(n)
    /\ calls[pending[n]].pc = "commit" /\ calls[pending[n]].op = "register"
    /\ calls[pending[n]].name = n

DepsHaveRows == \A d \in deps : Exists(d[1]) /\ Exists(d[2])

\* The pass works from snapshots of rows that were there, and stay.
JobKnows ==
  /\ \A n \in Names : job.active[n] # Null => Exists(n)
  /\ job.pc = "nodes" => \A n \in job.missing : job.active[n] # Null

WorkLists == (SUBSET Names) \cup SUBSET (Names \X Names)

JobType == [pc : JobPc, active : [Names -> Health \cup {Null}], missing : WorkLists,
            phantom : WorkLists, drift : BOOLEAN]

\* The pass holds names first and pairs of names later.
JobTyped == /\ job \in JobType
            /\ job.missing \cup job.phantom \subseteq
                 IF job.pc \in {"read_edges", "edges"} THEN Names \X Names ELSE Names
            /\ report \in {"none", "clean", "drift"}

IInv == /\ TypeOK /\ JobTyped /\ CallsKnow /\ PendingIsNew /\ DepsHaveRows /\ JobKnows
        /\ EventsFollowCommits /\ NodesAreRegistered

\* A row stays, and stays deleted.
Grow == \A n \in Names : Exists(n) => /\ rows'[n] # Null
                                      /\ rows[n].deleted => rows'[n].deleted

LEMMA InitInv == ReconcilerInit => IInv
<1> SUFFICES ASSUME ReconcilerInit PROVE IInv
  OBVIOUS
<1>1. PICK registered \in Seeds :
        /\ rows = [n \in Names |-> IF n \in registered
                                   THEN [health |-> "unknown", deleted |-> FALSE] ELSE Null]
        /\ node = [n \in Names |-> IF n \in registered THEN "unknown" ELSE Null]
  BY DEF ReconcilerInit, Init
<1>2. /\ deps = {} /\ edge = {} /\ events = {} /\ faults = 0
      /\ pending = [n \in Names |-> Null] /\ calls = [c \in Calls |-> Idle]
      /\ job = NoJob /\ report = "none"
  BY DEF ReconcilerInit, Init
<1>3. Idle \in Call /\ Idle.pc = "idle"
  BY DEF Idle, Call, Pc
<1>4. rows \in [Names -> Row \cup {Null}] /\ node \in [Names -> Health \cup {Null}]
  BY <1>1, CatalogAssumption DEF Row
<1>5. CatalogTypeOK
  BY <1>2, <1>3, <1>4 DEF CatalogTypeOK
<1>6. TypeOK /\ JobTyped
  BY <1>2, <1>5 DEF TypeOK, NoJob, JobPc, JobTyped, JobType, WorkLists
<1>7. CallsKnow /\ PendingIsNew /\ DepsHaveRows /\ JobKnows
  BY <1>2, <1>3 DEF CallsKnow, Knows, PendingIsNew, DepsHaveRows, JobKnows, NoJob
<1>8. EventsFollowCommits
  BY <1>2 DEF EventsFollowCommits
<1>9. NodesAreRegistered
  <2>1. [health |-> "unknown", deleted |-> FALSE] \in Row
    BY CatalogAssumption DEF Row
  <2>2. [health |-> "unknown", deleted |-> FALSE] # Null
    BY <2>1, CatalogAssumption
  <2> QED BY <1>1, <2>2 DEF NodesAreRegistered, Nodes, Exists
<1> QED BY <1>6, <1>7, <1>8, <1>9 DEF IInv

-----------------------------------------------------------------------------
(* What a step leaves alone. *)

\* A step of one call that disturbs nobody else's INSERT: the other calls know
\* what they knew.
LEMMA CallPart ==
  ASSUME IInv, NEW c \in Calls, NEW k \in Call, calls' = [calls EXCEPT ![c] = k],
         Grow, Knows(c, k)',
         \A n \in Names : pending[n] \notin {Null, c} => pending'[n] = pending[n]
  PROVE  calls' \in [Calls -> Call] /\ CallsKnow'
<1>1. calls \in [Calls -> Call]
  BY DEF IInv, TypeOK, CatalogTypeOK
<1>2. ASSUME NEW d \in Calls, d # c PROVE Knows(d, calls[d])'
  <2>1. calls'[d] = calls[d] /\ Knows(d, calls[d]) /\ d # Null
    BY <1>1, <1>2, CatalogAssumption DEF IInv, CallsKnow
  <2> QED BY <2>1, <1>2 DEF Knows, Grow, Exists
<1>3. calls'[c] = k
  BY <1>1
<1> QED BY <1>1, <1>2, <1>3 DEF CallsKnow

\* A step that touches no INSERT under way.
LEMMA PendingPart ==
  ASSUME IInv, NEW c \in Calls, NEW k \in Call, calls' = [calls EXCEPT ![c] = k],
         calls[c].op # "register" \/ calls[c].pc # "commit",
         UNCHANGED pending, \A n \in Names : ~Exists(n) => rows'[n] = Null
  PROVE  PendingIsNew'
<1>1. calls \in [Calls -> Call] /\ pending \in [Names -> Calls \cup {Null}]
  BY DEF IInv, TypeOK, CatalogTypeOK
<1>2. ASSUME NEW n \in Names, pending'[n] # Null
      PROVE  /\ ~Exists(n)'
             /\ calls'[pending'[n]].pc = "commit" /\ calls'[pending'[n]].op = "register"
             /\ calls'[pending'[n]].name = n
  <2>1. pending'[n] = pending[n] /\ pending[n] \in Calls
    BY <1>1, <1>2
  <2>2. /\ ~Exists(n) /\ calls[pending[n]].pc = "commit"
        /\ calls[pending[n]].op = "register" /\ calls[pending[n]].name = n
    BY <2>1, <1>2 DEF IInv, PendingIsNew
  <2>3. calls'[pending[n]] = calls[pending[n]]
    BY <1>1, <2>1, <2>2
  <2> QED BY <2>1, <2>2, <2>3 DEF Exists
<1> QED BY <1>2 DEF PendingIsNew

\* A step that changes rows only as rows may.
LEMMA StoresPart ==
  ASSUME IInv, Grow
  PROVE  /\ UNCHANGED events => EventsFollowCommits'
         /\ UNCHANGED node => NodesAreRegistered'
         /\ UNCHANGED job => JobKnows'
         /\ deps' \subseteq deps => DepsHaveRows'
<1> USE DEF IInv
<1>1. UNCHANGED events => EventsFollowCommits'
  BY DEF EventsFollowCommits, Grow, Exists
<1>2. UNCHANGED node => NodesAreRegistered'
  BY DEF NodesAreRegistered, Nodes, Grow, Exists
<1>3. UNCHANGED job => JobKnows'
  BY DEF JobKnows, Grow, Exists
<1>4. deps' \subseteq deps => DepsHaveRows'
  <2>1. deps \subseteq Names \X Names
    BY DEF TypeOK, CatalogTypeOK
  <2> QED BY <2>1 DEF DepsHaveRows, Grow, Exists
<1> QED BY <1>1, <1>2, <1>3, <1>4
-----------------------------------------------------------------------------
(* The steps of the calls. *)

\* A step of a call before or after its commit: rows are as they were.
LEMMA NoRowChanges ==
  ASSUME UNCHANGED rows
  PROVE  Grow /\ \A n \in Names : ~Exists(n) => rows'[n] = Null
BY DEF Grow, Exists

LEMMA EndKnows ==
  ASSUME NEW c \in Calls
  PROVE  /\ [Idle EXCEPT !.pc = "ended"] \in Call
         /\ Knows(c, [Idle EXCEPT !.pc = "ended"])'
BY DEF Idle, Knows, Call, Pc

\* What the invariant says of a call and of the types.
LEMMA InvOfCall ==
  ASSUME IInv, NEW c \in Calls
  PROVE  /\ calls[c] \in Call /\ Knows(c, calls[c]) /\ calls \in [Calls -> Call]
         /\ rows \in [Names -> Row \cup {Null}] /\ faults \in Nat
         /\ pending \in [Names -> Calls \cup {Null}]
BY DEF IInv, CallsKnow, TypeOK, CatalogTypeOK

\* A step of one call that changes nothing of PostgreSQL and leaves the graph and
\* the stream right.
LEMMA QuietCall ==
  ASSUME IInv, NEW c \in Calls, NEW k \in Call, calls' = [calls EXCEPT ![c] = k],
         Knows(c, k)', calls[c].op # "register" \/ calls[c].pc # "commit",
         UNCHANGED <<pgVars, job, report>>, faults' \in Nat,
         events' \subseteq {"service.created", "service.updated", "service.deleted"} \X Names,
         EventsFollowCommits',
         node' \in [Names -> Health \cup {Null}], edge' \subseteq Names \X Names,
         NodesAreRegistered'
  PROVE  IInv'
<1>1. UNCHANGED <<rows, deps, pending, job, report>>
  BY DEF pgVars
<1>2. Grow /\ \A n \in Names : ~Exists(n) => rows'[n] = Null
  BY <1>1, NoRowChanges
<1>3. calls' \in [Calls -> Call] /\ CallsKnow'
  BY <1>1, <1>2, CallPart
<1>4. PendingIsNew'
  BY <1>1, <1>2, PendingPart
<1>5. DepsHaveRows' /\ JobKnows'
  BY <1>1, <1>2, StoresPart
<1>6. TypeOK' /\ JobTyped'
  BY <1>1, <1>3 DEF IInv, TypeOK, CatalogTypeOK, JobTyped
<1> QED BY <1>3, <1>4, <1>5, <1>6 DEF IInv

\* Such a step that touches neither the stream nor the graph.
LEMMA SilentCall ==
  ASSUME IInv, NEW c \in Calls, NEW k \in Call, calls' = [calls EXCEPT ![c] = k],
         Knows(c, k)', calls[c].op # "register" \/ calls[c].pc # "commit",
         UNCHANGED <<pgVars, events, graphVars, faults, job, report>>
  PROVE  IInv'
<1>1. UNCHANGED <<rows, events, node, edge>>
  BY DEF pgVars, graphVars
<1>2. EventsFollowCommits' /\ NodesAreRegistered'
  BY <1>1, NoRowChanges, StoresPart DEF graphVars
<1>3. /\ events' \subseteq {"service.created", "service.updated", "service.deleted"} \X Names
      /\ node' \in [Names -> Health \cup {Null}] /\ edge' \subseteq Names \X Names
      /\ faults' \in Nat
  BY <1>1 DEF IInv, TypeOK, CatalogTypeOK
<1> QED BY <1>2, <1>3, QuietCall

LEMMA RegisterCheckInv ==
  ASSUME IInv, NEW c \in Calls, RegisterCheck(c), UNCHANGED <<job, report>> PROVE IInv'
<1>1. calls[c].pc = "idle" /\ UNCHANGED <<pgVars, events, graphVars, faults>>
  BY DEF RegisterCheck
<1>2. PICK k \in Call : Knows(c, k)' /\ calls' = [calls EXCEPT ![c] = k]
  <2>1. CASE End(c)
    BY <2>1, EndKnows DEF End
  <2>2. CASE ~End(c)
    <3>1. PICK n \in Names : \E up \in SUBSET (Names \ {n}) :
            calls' = [calls EXCEPT ![c] = [calls[c] EXCEPT !.op = "register", !.pc = "insert",
                                                           !.name = n, !.upstream = up]]
      BY <2>2 DEF RegisterCheck
    <3>2. PICK up \in SUBSET (Names \ {n}) :
            calls' = [calls EXCEPT ![c] = [calls[c] EXCEPT !.op = "register", !.pc = "insert",
                                                           !.name = n, !.upstream = up]]
      BY <3>1
    <3> PICK k : k = [calls[c] EXCEPT !.op = "register", !.pc = "insert",
                                      !.name = n, !.upstream = up]
      OBVIOUS
    <3>3. k \in Call /\ k.op = "register" /\ k.pc = "insert" /\ k.name = n /\ k.upstream = up
      BY InvOfCall DEF Call, Pc
    <3>4. Knows(c, k)'
      BY <3>3 DEF Knows
    <3> QED BY <3>2, <3>3, <3>4
  <2> QED BY <2>1, <2>2
<1> QED BY <1>1, <1>2, SilentCall

LEMMA LoadRowInv ==
  ASSUME IInv, NEW c \in Calls, LoadRow(c), UNCHANGED <<job, report>> PROVE IInv'
<1>1. calls[c].pc = "idle" /\ UNCHANGED <<pgVars, events, graphVars, faults>>
  BY DEF LoadRow
<1>2. PICK k \in Call : Knows(c, k)' /\ calls' = [calls EXCEPT ![c] = k]
  <2>1. CASE End(c)
    BY <2>1, EndKnows DEF End
  <2>2. CASE ~End(c)
    <3>1. PICK op \in {"update", "delete"}, n \in Names, h \in Health \cup {Null} :
            /\ Active(n)
            /\ calls' = [calls EXCEPT ![c] = [calls[c] EXCEPT !.op = op, !.pc = "commit",
                                                             !.name = n, !.health = h]]
      BY <2>2 DEF LoadRow
    <3> PICK k : k = [calls[c] EXCEPT !.op = op, !.pc = "commit", !.name = n, !.health = h]
      OBVIOUS
    <3>2. k \in Call /\ k.op = op /\ k.pc = "commit" /\ k.name = n
      BY InvOfCall DEF Call, Pc
    <3>3. Knows(c, k)'
      BY <1>1, <3>1, <3>2 DEF Knows, Active, Exists, pgVars
    <3> QED BY <3>1, <3>2, <3>3
  <2> QED BY <2>1, <2>2
<1> QED BY <1>1, <1>2, SilentCall

\* A step of one call that changes PostgreSQL.
LEMMA StoringCall ==
  ASSUME IInv, NEW c \in Calls, NEW k \in Call, calls' = [calls EXCEPT ![c] = k],
         Knows(c, k)', Grow, rows' \in [Names -> Row \cup {Null}],
         \A n \in Names : pending[n] \notin {Null, c} => pending'[n] = pending[n],
         pending' \in [Names -> Calls \cup {Null}], PendingIsNew',
         deps' \subseteq Names \X Names, DepsHaveRows',
         UNCHANGED <<events, graphVars, job, report>>, faults' \in Nat
  PROVE  IInv'
<1>1. calls' \in [Calls -> Call] /\ CallsKnow'
  BY CallPart
<1>2. EventsFollowCommits' /\ NodesAreRegistered' /\ JobKnows'
  BY StoresPart DEF graphVars
<1>3. TypeOK' /\ JobTyped'
  BY <1>1 DEF IInv, TypeOK, CatalogTypeOK, JobTyped, graphVars
<1> QED BY <1>1, <1>2, <1>3 DEF IInv

\* The one call whose INSERT is under way for a name.
LEMMA OwnPending ==
  ASSUME IInv, NEW c \in Calls, NEW n \in Names, pending[n] = c
  PROVE  calls[c].name = n /\ calls[c].op = "register" /\ calls[c].pc = "commit"
BY CatalogAssumption DEF IInv, PendingIsNew

\* When a call gives up its INSERT, the others stand.
LEMMA PendingReleased ==
  ASSUME IInv, NEW c \in Calls, NEW k \in Call, calls' = [calls EXCEPT ![c] = k],
         pending' = [n \in Names |-> IF pending[n] = c THEN Null ELSE pending[n]],
         \A n \in Names : ~Exists(n) /\ pending[n] # c => rows'[n] = Null
  PROVE  PendingIsNew' /\ pending' \in [Names -> Calls \cup {Null}]
<1>1. calls \in [Calls -> Call] /\ pending \in [Names -> Calls \cup {Null}]
  BY DEF IInv, TypeOK, CatalogTypeOK
<1>2. ASSUME NEW n \in Names, pending'[n] # Null
      PROVE  /\ ~Exists(n)'
             /\ calls'[pending'[n]].pc = "commit" /\ calls'[pending'[n]].op = "register"
             /\ calls'[pending'[n]].name = n
  <2>1. pending'[n] = pending[n] /\ pending[n] # c /\ pending[n] \in Calls
    BY <1>1, <1>2
  <2>2. calls'[pending[n]] = calls[pending[n]]
    BY <1>1, <2>1
  <2>3. /\ ~Exists(n) /\ calls[pending[n]].pc = "commit"
        /\ calls[pending[n]].op = "register" /\ calls[pending[n]].name = n
    BY <2>1, <1>2 DEF IInv, PendingIsNew
  <2> QED BY <2>1, <2>2, <2>3 DEF Exists
<1> QED BY <1>1, <1>2 DEF PendingIsNew

LEMMA RegisterInsertInv ==
  ASSUME IInv, NEW c \in Calls, RegisterInsert(c), UNCHANGED <<job, report>> PROVE IInv'
<1> PICK n : n = calls[c].name
  OBVIOUS
<1>1. /\ calls[c].op = "register" /\ calls[c].pc = "insert" /\ pending[n] = Null
      /\ UNCHANGED <<rows, deps, events, graphVars, faults>>
  BY DEF RegisterInsert
<1>2. n \in Names
  BY <1>1, InvOfCall DEF Knows
<1>3. CASE ~Exists(n)
  <2> PICK k : k = [calls[c] EXCEPT !.pc = "commit"]
    OBVIOUS
  <2>1. /\ pending' = [pending EXCEPT ![n] = c]
        /\ calls' = [calls EXCEPT ![c] = k]
    BY <1>3 DEF RegisterInsert, Goto
  <2>2. /\ k \in Call /\ k.pc = "commit" /\ k.op = "register" /\ k.name = n
        /\ k.upstream = calls[c].upstream
    BY <1>1, InvOfCall DEF Call, Pc
  <2>3. pending \in [Names -> Calls \cup {Null}] /\ calls \in [Calls -> Call]
    BY InvOfCall
  <2>4. pending' \in [Names -> Calls \cup {Null}] /\ pending'[n] = c
    BY <2>1, <2>3, <1>2
  <2>5. Knows(c, k)'
    BY <2>2, <2>4, <1>2 DEF Knows
  <2>6. PendingIsNew'
    <3>1. ASSUME NEW m \in Names, pending'[m] # Null
          PROVE  /\ ~Exists(m)'
                 /\ calls'[pending'[m]].pc = "commit" /\ calls'[pending'[m]].op = "register"
                 /\ calls'[pending'[m]].name = m
      <4>1. CASE m = n
        <5>1. calls'[c] = k
          BY <2>1, <2>3
        <5> QED BY <4>1, <5>1, <2>2, <2>4, <1>1, <1>3 DEF Exists
      <4>2. CASE m # n
        <5>1. pending'[m] = pending[m] /\ pending[m] \in Calls
          BY <4>2, <2>1, <2>3, <3>1
        <5>2. pending[m] # c
          BY <5>1, <1>1, OwnPending
        <5>3. calls'[pending[m]] = calls[pending[m]]
          BY <5>1, <5>2, <2>1, <2>3
        <5> QED BY <5>1, <5>3, <3>1, <1>1 DEF IInv, PendingIsNew, Exists
      <4> QED BY <4>1, <4>2
    <3> QED BY <3>1 DEF PendingIsNew
  <2>7. Grow
    BY <1>1, NoRowChanges
  <2>8. DepsHaveRows'
    BY <1>1, <2>7, StoresPart
  <2>9. /\ rows' \in [Names -> Row \cup {Null}] /\ deps' \subseteq Names \X Names
        /\ faults' \in Nat
    BY <1>1 DEF IInv, TypeOK, CatalogTypeOK
  <2>10. \A m \in Names : pending[m] \notin {Null, c} => pending'[m] = pending[m]
    BY <1>1, <2>1, <2>3
  <2> QED BY <1>1, <2>1, <2>2, <2>4, <2>5, <2>6, <2>7, <2>8, <2>9, <2>10, StoringCall
<1>4. CASE Exists(n)
  <2>1. UNCHANGED pending /\ End(c)
    BY <1>4 DEF RegisterInsert
  <2> QED BY <1>1, <2>1, EndKnows, SilentCall DEF End, pgVars
<1> QED BY <1>3, <1>4

LEMMA RegisterCommitInv ==
  ASSUME IInv, NEW c \in Calls, RegisterCommit(c), UNCHANGED <<job, report>> PROVE IInv'
<1> PICK n, up : n = calls[c].name /\ up = calls[c].upstream
  OBVIOUS
<1>1. /\ calls[c].op = "register" /\ calls[c].pc = "commit"
      /\ pending' = [pending EXCEPT ![n] = Null]
      /\ UNCHANGED <<events, graphVars, faults>>
  BY DEF RegisterCommit
<1>2. n \in Names /\ pending[n] = c /\ up \in SUBSET Names
  BY <1>1, InvOfCall DEF Knows, Call
<1>3. ~Exists(n)
  BY <1>2, CatalogAssumption DEF IInv, PendingIsNew
<1>4. pending' = [m \in Names |-> IF pending[m] = c THEN Null ELSE pending[m]]
  <2>1. \A m \in Names : pending[m] = c => m = n
    BY OwnPending
  <2> QED BY <1>1, <1>2, <2>1, InvOfCall
<1>5. /\ rows \in [Names -> Row \cup {Null}] /\ deps \subseteq Names \X Names /\ faults \in Nat
      /\ DepsHaveRows
  BY DEF IInv, TypeOK, CatalogTypeOK
<1>6. \A m \in Names : pending[m] \notin {Null, c} => pending'[m] = pending[m]
  BY <1>4
<1>7. CASE \A t \in up : Exists(t)
  <2> PICK k : k = [calls[c] EXCEPT !.pc = "publish"]
    OBVIOUS
  <2>1. /\ rows' = [rows EXCEPT ![n] = NewRow] /\ deps' = deps \cup ({n} \X up)
        /\ calls' = [calls EXCEPT ![c] = k]
    BY <1>7 DEF RegisterCommit, Goto
  <2>2. k \in Call /\ k.pc = "publish" /\ k.op = "register" /\ k.name = n
    BY <1>1, InvOfCall DEF Call, Pc
  <2>3. NewRow \in Row /\ NewRow # Null
    <3>1. NewRow \in Row
      BY CatalogAssumption DEF NewRow, Row
    <3> QED BY <3>1, CatalogAssumption
  <2>4. Grow /\ rows' \in [Names -> Row \cup {Null}] /\ Exists(n)'
    BY <2>1, <2>3, <1>2, <1>3, <1>5 DEF Grow, Exists
  <2>5. Knows(c, k)'
    BY <2>2, <2>4, <1>2 DEF Knows
  <2>6. PendingIsNew' /\ pending' \in [Names -> Calls \cup {Null}]
    <3>1. \A m \in Names : ~Exists(m) /\ pending[m] # c => rows'[m] = Null
      BY <1>2, <1>5, <2>1 DEF Exists
    <3> QED BY <1>4, <2>1, <2>2, <3>1, PendingReleased
  <2>7. DepsHaveRows' /\ deps' \subseteq Names \X Names
    BY <1>2, <1>5, <1>7, <2>1, <2>4 DEF DepsHaveRows, Grow, Exists
  <2> QED BY <1>1, <1>5, <1>6, <2>1, <2>2, <2>4, <2>5, <2>6, <2>7, StoringCall
<1>8. CASE \E t \in up : ~Exists(t)
  <2>1. UNCHANGED <<rows, deps>> /\ End(c)
    BY <1>8 DEF RegisterCommit
  <2>2. Grow /\ \A m \in Names : ~Exists(m) => rows'[m] = Null
    BY <2>1, NoRowChanges
  <2>3. DepsHaveRows'
    BY <2>1, <2>2, StoresPart
  <2>4. PendingIsNew' /\ pending' \in [Names -> Calls \cup {Null}]
    BY <1>4, <2>1, <2>2, EndKnows, PendingReleased DEF End
  <2> QED BY <1>1, <1>5, <1>6, <2>1, <2>2, <2>3, <2>4, EndKnows, StoringCall DEF End
<1> QED BY <1>7, <1>8

\* An update or a deletion replaces one row that is there, and never revives it.
LEMMA RowCommitStep ==
  ASSUME IInv, NEW c \in Calls, UpdateCommit(c) \/ DeleteCommit(c)
  PROVE  /\ calls[c].name \in Names /\ Exists(calls[c].name)
         /\ \E row \in Row : /\ rows' = [rows EXCEPT ![calls[c].name] = row] /\ row # Null
                             /\ rows[calls[c].name].deleted => row.deleted
                             /\ calls[c].op = "delete" => row.deleted
<1> PICK n, h : n = calls[c].name /\ h = calls[c].health
  OBVIOUS
<1>1. calls[c].op \in {"update", "delete"} /\ calls[c].pc = "commit"
  BY DEF UpdateCommit, DeleteCommit
<1>2. n \in Names /\ Exists(n) /\ rows[n] \in Row /\ h \in Health \cup {Null}
      /\ rows \in [Names -> Row \cup {Null}]
  BY <1>1, InvOfCall DEF Knows, Exists, Call
<1>3. \A row \in Row : row # Null
  BY CatalogAssumption
<1>4. CASE UpdateCommit(c) /\ h = Null
  <2>1. rows' = [rows EXCEPT ![n] = rows[n]] /\ calls[c].op # "delete"
    BY <1>4, <1>2 DEF UpdateCommit
  <2> QED BY <2>1, <1>2, <1>3
<1>5. CASE UpdateCommit(c) /\ h # Null
  <2> PICK row : row = [rows[n] EXCEPT !.health = h]
    OBVIOUS
  <2>1. rows' = [rows EXCEPT ![n] = row] /\ calls[c].op # "delete"
    BY <1>5 DEF UpdateCommit
  <2>2. row \in Row /\ row.deleted = rows[n].deleted
    BY <1>2, <1>5 DEF Row
  <2> QED BY <2>1, <2>2, <1>2, <1>3
<1>6. CASE DeleteCommit(c)
  <2> PICK row : row = [rows[n] EXCEPT !.deleted = TRUE]
    OBVIOUS
  <2>1. rows' = [rows EXCEPT ![n] = row]
    BY <1>6 DEF DeleteCommit
  <2>2. row \in Row /\ row.deleted
    BY <1>2 DEF Row
  <2> QED BY <2>1, <2>2, <1>2, <1>3
<1> QED BY <1>4, <1>5, <1>6

LEMMA RowCommitInv ==
  ASSUME IInv, NEW c \in Calls, UpdateCommit(c) \/ DeleteCommit(c), UNCHANGED <<job, report>>
  PROVE  IInv'
<1> PICK n : n = calls[c].name
  OBVIOUS
<1> PICK k : k = [calls[c] EXCEPT !.pc = "publish"]
  OBVIOUS
<1>1. /\ calls[c].op \in {"update", "delete"} /\ calls[c].pc = "commit"
      /\ calls' = [calls EXCEPT ![c] = k]
      /\ UNCHANGED <<deps, pending, events, graphVars, faults>>
  BY DEF UpdateCommit, DeleteCommit, Goto
<1>2. k \in Call /\ k.pc = "publish" /\ k.op = calls[c].op /\ k.name = n
  BY InvOfCall DEF Call, Pc
<1>3. n \in Names /\ Exists(n) /\ rows \in [Names -> Row \cup {Null}]
  BY RowCommitStep, InvOfCall
<1>4. PICK row \in Row : /\ rows' = [rows EXCEPT ![n] = row] /\ row # Null
                         /\ rows[n].deleted => row.deleted
                         /\ calls[c].op = "delete" => row.deleted
  BY RowCommitStep
<1>5. Grow /\ rows' \in [Names -> Row \cup {Null}] /\ rows'[n] = row
  BY <1>3, <1>4 DEF Grow, Exists
<1>6. Knows(c, k)'
  BY <1>1, <1>2, <1>3, <1>4, <1>5 DEF Knows, Exists
<1>7. \A m \in Names : ~Exists(m) => rows'[m] = Null
  BY <1>3, <1>4 DEF Exists
<1>8. PendingIsNew'
  BY <1>1, <1>2, <1>7, PendingPart
<1>9. DepsHaveRows'
  BY <1>1, <1>5, StoresPart
<1>10. /\ pending' \in [Names -> Calls \cup {Null}] /\ deps' \subseteq Names \X Names
       /\ faults' \in Nat
  BY <1>1 DEF IInv, TypeOK, CatalogTypeOK
<1> QED BY <1>1, <1>2, <1>5, <1>6, <1>8, <1>9, <1>10, StoringCall

LEMMA PublishInv ==
  ASSUME IInv, NEW c \in Calls, Publish(c), UNCHANGED <<job, report>> PROVE IInv'
<1> PICK n, ev : n = calls[c].name /\ ev = <<EventType[calls[c].op], n>>
  OBVIOUS
<1>1. /\ calls[c].pc = "publish" /\ events' \in {events \cup {ev}, events}
      /\ UNCHANGED <<pgVars, graphVars, faults>>
  BY DEF Publish
<1>2. /\ n \in Names /\ Exists(n) /\ calls[c].op \in {"register", "update", "delete"}
      /\ calls[c].op = "delete" => rows[n].deleted
  BY <1>1, InvOfCall DEF Knows
<1>3. UNCHANGED <<rows, node, edge>>
  BY <1>1 DEF pgVars, graphVars
<1>4. PICK k \in Call : Knows(c, k)' /\ calls' = [calls EXCEPT ![c] = k]
  <2>1. CASE End(c)
    BY <2>1, EndKnows DEF End
  <2>2. CASE ~End(c)
    <3> PICK k : k = [calls[c] EXCEPT !.pc = "graph", !.seen = rows[n].health]
      OBVIOUS
    <3>1. calls' = [calls EXCEPT ![c] = k]
      BY <2>2 DEF Publish
    <3>2. rows[n].health \in Health
      BY <1>2, InvOfCall DEF Exists, Row
    <3>3. /\ k \in Call /\ k.pc = "graph" /\ k.op = calls[c].op /\ k.name = n
          /\ k.seen = rows[n].health
      BY <3>2, InvOfCall DEF Call, Pc
    <3>4. Knows(c, k)'
      BY <1>2, <1>3, <3>2, <3>3 DEF Knows, Exists
    <3> QED BY <3>1, <3>3, <3>4
  <2> QED BY <2>1, <2>2
<1>5. /\ EventType[calls[c].op] \in {"service.created", "service.updated", "service.deleted"}
      /\ EventType[calls[c].op] = "service.deleted" => calls[c].op = "delete"
  BY <1>2 DEF EventType
<1>6. EventsFollowCommits'
  <2> SUFFICES ASSUME NEW m \in Names
               PROVE  /\ <<"service.created", m>> \in events' => Exists(m)'
                      /\ <<"service.deleted", m>> \in events' => Exists(m)' /\ rows'[m].deleted
    BY DEF EventsFollowCommits
  <2>1. /\ <<"service.created", m>> \in events => Exists(m)
        /\ <<"service.deleted", m>> \in events => Exists(m) /\ rows[m].deleted
    BY DEF IInv, EventsFollowCommits
  <2>2. ASSUME NEW type, <<type, m>> \in events', <<type, m>> \notin events
        PROVE  m = n /\ type = EventType[calls[c].op]
    BY <1>1, <2>2
  <2>3. /\ <<"service.created", m>> \in events' => Exists(m)
        /\ <<"service.deleted", m>> \in events' => Exists(m) /\ rows[m].deleted
    BY <2>1, <2>2, <1>2, <1>5
  <2> QED BY <2>3, <1>3 DEF Exists
<1>7. events' \subseteq {"service.created", "service.updated", "service.deleted"} \X Names
  BY <1>1, <1>2, <1>5 DEF IInv, TypeOK, CatalogTypeOK
<1>8. NodesAreRegistered'
  BY <1>3, NoRowChanges, StoresPart DEF graphVars
<1>9. /\ node' \in [Names -> Health \cup {Null}] /\ edge' \subseteq Names \X Names
      /\ faults' \in Nat
  BY <1>1, <1>3 DEF IInv, TypeOK, CatalogTypeOK
<1> QED BY <1>1, <1>4, <1>6, <1>7, <1>8, <1>9, QuietCall

\* A graph is one of PostgreSQL's when its nodes stand for rows.
GraphOK == /\ node \in [Names -> Health \cup {Null}] /\ edge \subseteq Names \X Names
           /\ NodesAreRegistered

\* The five graph writes, and a lost one.
LEMMA GraphWrites ==
  ASSUME IInv, UNCHANGED rows
  PROVE  /\ \A n \in Names, h \in Health : Exists(n) /\ MergeNode(n, h) => GraphOK'
         /\ \A n \in Names : DetachDelete(n) => GraphOK'
         /\ \A e \in Names \X Names : Link(e) => GraphOK'
         /\ edge' \subseteq edge /\ UNCHANGED node => GraphOK'
         /\ UNCHANGED graphVars => GraphOK'
<1> USE DEF GraphOK, NodesAreRegistered, Nodes, Exists
<1>1. /\ node \in [Names -> Health \cup {Null}] /\ edge \subseteq Names \X Names
      /\ NodesAreRegistered
  BY DEF IInv, TypeOK, CatalogTypeOK
<1>2. ASSUME NEW n \in Names, NEW h \in Health, Exists(n), MergeNode(n, h) PROVE GraphOK'
  <2>1. h # Null
    BY CatalogAssumption
  <2> QED BY <1>1, <1>2, <2>1 DEF MergeNode
<1>3. ASSUME NEW n \in Names, DetachDelete(n) PROVE GraphOK'
  BY <1>1, <1>3 DEF DetachDelete
<1>4. ASSUME NEW e \in Names \X Names, Link(e) PROVE GraphOK'
  BY <1>1, <1>4 DEF Link
<1>5. edge' \subseteq edge /\ UNCHANGED node => GraphOK'
  BY <1>1
<1>6. UNCHANGED graphVars => GraphOK'
  BY <1>1 DEF graphVars
<1> QED BY <1>2, <1>3, <1>4, <1>5, <1>6

LEMMA FaultsCount ==
  ASSUME IInv, UNCHANGED faults \/ faults' = faults + 1
  PROVE  faults' \in Nat
BY DEF IInv, TypeOK, CatalogTypeOK

LEMMA GraphCallInv ==
  ASSUME IInv, NEW c \in Calls, SyncNode(c) \/ DeleteNode(c), UNCHANGED <<job, report>>
  PROVE  IInv'
<1>1. calls[c].pc = "graph" /\ End(c) /\ UNCHANGED <<pgVars, events>>
  BY DEF SyncNode, DeleteNode
<1>2. UNCHANGED <<rows, events>>
  BY <1>1 DEF pgVars
<1>3. /\ calls[c].name \in Names /\ Exists(calls[c].name)
      /\ calls[c].op \in {"register", "update"} => calls[c].seen \in Health
  BY <1>1, InvOfCall DEF Knows
<1>4. GraphOK'
  BY <1>2, <1>3, GraphWrites DEF SyncNode, DeleteNode, GraphWriteFails
<1>5. faults' \in Nat
  BY FaultsCount DEF SyncNode, DeleteNode, GraphWriteFails
<1>6. EventsFollowCommits'
  BY <1>2, NoRowChanges, StoresPart
<1>7. events' \subseteq {"service.created", "service.updated", "service.deleted"} \X Names
  BY <1>2 DEF IInv, TypeOK, CatalogTypeOK
<1> QED BY <1>1, <1>4, <1>5, <1>6, <1>7, EndKnows, QuietCall DEF End, GraphOK

LEMMA CallDiesInv ==
  ASSUME IInv, NEW c \in Calls, CallDies(c), UNCHANGED <<job, report>> PROVE IInv'
<1>1. /\ pending' = [n \in Names |-> IF pending[n] = c THEN Null ELSE pending[n]]
      /\ End(c) /\ faults' = faults + 1
      /\ UNCHANGED <<rows, deps, events, graphVars>>
  BY DEF CallDies
<1>2. Grow /\ \A n \in Names : ~Exists(n) => rows'[n] = Null
  BY <1>1, NoRowChanges
<1>3. PendingIsNew' /\ pending' \in [Names -> Calls \cup {Null}]
  BY <1>1, <1>2, EndKnows, PendingReleased DEF End
<1>4. DepsHaveRows'
  BY <1>1, <1>2, StoresPart
<1>5. /\ rows' \in [Names -> Row \cup {Null}] /\ deps' \subseteq Names \X Names
      /\ faults' \in Nat
  BY <1>1, FaultsCount DEF IInv, TypeOK, CatalogTypeOK
<1>6. \A n \in Names : pending[n] \notin {Null, c} => pending'[n] = pending[n]
  BY <1>1
<1> QED BY <1>1, <1>2, <1>3, <1>4, <1>5, <1>6, EndKnows, StoringCall DEF End

\* A dependency that joins rows, or one less.
LEMMA DependencyInv ==
  ASSUME IInv, NEW c \in Calls, DeclareDependency(c) \/ WithdrawDependency(c),
         UNCHANGED <<job, report>>
  PROVE  IInv'
<1>1. /\ calls[c].pc = "idle" /\ UNCHANGED <<rows, pending, events, graphVars, faults>>
      /\ calls[c] \in Call
  BY InvOfCall DEF DeclareDependency, WithdrawDependency
<1>2. /\ deps \subseteq Names \X Names /\ DepsHaveRows /\ faults \in Nat
      /\ rows \in [Names -> Row \cup {Null}] /\ pending \in [Names -> Calls \cup {Null}]
  BY DEF IInv, TypeOK, CatalogTypeOK
<1>3. Grow /\ \A n \in Names : ~Exists(n) => rows'[n] = Null
  BY <1>1, NoRowChanges
<1>4. PICK op \in {"declare", "withdraw"}, d \in Names \X Names :
        /\ Exists(d[1]) /\ Exists(d[2]) /\ Changes(c, op, d)
        /\ deps' \in {deps \cup {d}, deps \ {d}}
  <2>1. CASE DeclareDependency(c)
    BY <2>1 DEF DeclareDependency
  <2>2. CASE WithdrawDependency(c)
    BY <2>2, <1>2 DEF WithdrawDependency, DepsHaveRows
  <2> QED BY <2>1, <2>2
<1> PICK k : k = [calls[c] EXCEPT !.op = op, !.pc = "graph", !.name = d[1], !.upstream = {d[2]}]
  OBVIOUS
<1>5. calls' = [calls EXCEPT ![c] = k]
  BY <1>4 DEF Changes
<1>6. k \in Call /\ k.op \in {"declare", "withdraw"} /\ k.pc = "graph" /\ k.name = d[1]
  BY <1>1, <1>4 DEF Call, Pc
<1>7. Knows(c, k)'
  BY <1>1, <1>4, <1>6 DEF Knows, Exists
<1>8. DepsHaveRows' /\ deps' \subseteq Names \X Names
  BY <1>1, <1>2, <1>4 DEF DepsHaveRows, Exists
<1>9. PendingIsNew'
  BY <1>1, <1>3, <1>5, <1>6, PendingPart
<1> QED BY <1>1, <1>2, <1>3, <1>5, <1>6, <1>7, <1>8, <1>9, StoringCall

LEMMA SyncDependencyInv ==
  ASSUME IInv, NEW c \in Calls, SyncDependency(c), UNCHANGED <<job, report>>
  PROVE  IInv'
<1>1. calls[c].pc = "graph" /\ End(c) /\ UNCHANGED <<pgVars, events>>
  BY DEF SyncDependency
<1>2. UNCHANGED <<rows, events>>
  BY <1>1 DEF pgVars
<1>3. calls[c].name \in Names /\ calls[c].upstream \in SUBSET Names
  BY <1>1, InvOfCall DEF Knows, Call
<1>4. GraphOK'
  <2>1. ASSUME NEW t \in calls[c].upstream, Link(<<calls[c].name, t>>) PROVE GraphOK'
    BY <1>2, <1>3, <2>1, GraphWrites
  <2>2. ASSUME NEW t \in calls[c].upstream, Unlink(<<calls[c].name, t>>) PROVE GraphOK'
    BY <1>2, <2>2, GraphWrites DEF Unlink
  <2> QED BY <1>2, <2>1, <2>2, GraphWrites DEF SyncDependency, GraphWriteFails
<1>5. faults' \in Nat
  BY FaultsCount DEF SyncDependency, GraphWriteFails
<1>6. EventsFollowCommits'
  BY <1>2, NoRowChanges, StoresPart
<1>7. events' \subseteq {"service.created", "service.updated", "service.deleted"} \X Names
  BY <1>2 DEF IInv, TypeOK, CatalogTypeOK
<1> QED BY <1>1, <1>4, <1>5, <1>6, <1>7, EndKnows, QuietCall DEF End, GraphOK

-----------------------------------------------------------------------------
(* The steps of the pass. *)

\* A step of the pass leaves PostgreSQL, the stream and the calls alone.
LEMMA JobPart ==
  ASSUME IInv, UNCHANGED <<pgVars, events, calls>>, GraphOK', faults' \in Nat,
         JobTyped', JobKnows'
  PROVE  IInv'
<1>1. UNCHANGED <<rows, deps, pending, events, calls>>
  BY DEF pgVars
<1>2. EventsFollowCommits' /\ DepsHaveRows'
  BY <1>1, NoRowChanges, StoresPart
<1>3. CallsKnow' /\ PendingIsNew'
  BY <1>1 DEF IInv, CallsKnow, Knows, PendingIsNew, Exists
<1>4. TypeOK'
  BY <1>1 DEF IInv, TypeOK, CatalogTypeOK, GraphOK, JobTyped, JobType
<1> QED BY <1>2, <1>3, <1>4 DEF IInv, GraphOK

\* An idle pass fits, and so does any job of the right parts.
LEMMA NoJobFits == job' = NoJob /\ report' \in {"none", "clean", "drift"}
                     => JobTyped' /\ JobKnows'
BY DEF NoJob, JobTyped, JobKnows, JobType, WorkLists, JobPc

LEMMA InvOfJob == IInv => JobTyped /\ JobKnows /\ GraphOK
BY DEF IInv, TypeOK, CatalogTypeOK, GraphOK

\* The reads, and the end.
LEMMA ReadInv ==
  ASSUME IInv, ReadActive \/ ReadNodes \/ ReadDependencies \/ ReadEdges \/ Report
  PROVE  IInv'
<1>1. UNCHANGED <<pgVars, events, graphVars, calls, faults>>
  BY DEF ReadActive, ReadNodes, ReadDependencies, ReadEdges, Report, catalogVars
<1>2. UNCHANGED <<rows, node, edge>> /\ GraphOK'
  BY <1>1, GraphWrites DEF pgVars, graphVars
<1>3. faults' \in Nat
  BY <1>1, FaultsCount
<1>4. JobTyped /\ JobKnows /\ GraphOK
  BY InvOfJob
<1>5. deps \subseteq Names \X Names /\ rows \in [Names -> Row \cup {Null}]
  BY DEF IInv, TypeOK, CatalogTypeOK
<1>6. CASE ReadActive
  <2> DEFINE read == [n \in Names |-> IF Active(n) THEN rows[n].health ELSE Null]
  <2>1. read \in [Names -> Health \cup {Null}]
    BY <1>5 DEF Active, Exists, Row
  <2>2. /\ job' = [NoJob EXCEPT !.pc = "read_nodes", !.active = read]
        /\ UNCHANGED report
    BY <1>6 DEF ReadActive
  <2>3. \A n \in Names : read[n] # Null => Exists(n)
    BY DEF Active
  <2> HIDE DEF read
  <2>4. /\ job'.pc = "read_nodes" /\ job'.active = read /\ job'.missing = {}
        /\ job'.phantom = {} /\ job'.drift = FALSE
    BY <2>2 DEF NoJob
  <2>5. JobTyped' /\ JobKnows'
    <3>1. job' = [pc |-> "read_nodes", active |-> read, missing |-> {}, phantom |-> {},
                  drift |-> FALSE]
      BY <2>2 DEF NoJob
    <3>2. job' \in JobType
      BY <3>1, <2>1 DEF JobType, WorkLists, JobPc
    <3>3. JobTyped'
      BY <3>2, <2>2, <2>4, <1>4 DEF JobTyped
    <3> QED BY <3>3, <2>3, <2>4, <1>2 DEF JobKnows, Exists
  <2> QED BY <2>5, <1>1, <1>2, <1>3, JobPart
<1>7. CASE ReadNodes
  <2> DEFINE active == {n \in Names : job.active[n] # Null}
  <2>1. /\ job.pc = "read_nodes" /\ UNCHANGED report
        /\ job' = [job EXCEPT !.pc = "nodes", !.missing = active \ Nodes,
                              !.phantom = Nodes \ active,
                              !.drift = (active \ Nodes) \cup (Nodes \ active) # {}]
    BY <1>7 DEF ReadNodes
  <2>2. /\ job'.pc = "nodes" /\ job'.active = job.active /\ job'.missing = active \ Nodes
        /\ job'.phantom = Nodes \ active /\ job'.drift \in BOOLEAN
    BY <2>1, <1>4 DEF JobTyped, JobType
  <2>3. JobTyped'
    BY <2>1, <2>2, <1>4 DEF JobTyped, JobType, WorkLists, JobPc, Nodes
  <2>4. JobKnows'
    BY <2>2, <1>2, <1>4 DEF JobKnows, Exists
  <2> QED BY <2>3, <2>4, <1>1, <1>2, <1>3, JobPart
<1>8. CASE ReadDependencies
  <2>1. /\ job.phantom = {} /\ UNCHANGED report
        /\ job' = [job EXCEPT !.pc = "read_edges", !.missing = deps, !.active = NoJob.active]
    BY <1>8 DEF ReadDependencies
  <2>2. /\ job'.pc = "read_edges" /\ job'.active = [n \in Names |-> Null]
        /\ job'.missing = deps /\ job'.phantom = {} /\ job'.drift = job.drift
    BY <2>1, <1>4 DEF NoJob, JobTyped, JobType
  <2>3. JobTyped' /\ JobKnows'
    BY <2>1, <2>2, <1>4, <1>5 DEF JobTyped, JobType, WorkLists, JobKnows, JobPc
  <2> QED BY <2>3, <1>1, <1>2, <1>3, JobPart
<1>9. CASE ReadEdges
  <2>1. /\ job.pc = "read_edges" /\ UNCHANGED report
        /\ job' = [job EXCEPT !.pc = "edges", !.missing = job.missing \ edge,
                              !.phantom = edge \ job.missing,
                              !.drift = job.drift \/
                                        (job.missing \ edge) \cup (edge \ job.missing) # {}]
    BY <1>9 DEF ReadEdges
  <2>2. /\ job'.pc = "edges" /\ job'.active = job.active
        /\ job'.missing = job.missing \ edge /\ job'.phantom = edge \ job.missing
        /\ job'.drift \in BOOLEAN
    BY <2>1, <1>4 DEF JobTyped, JobType
  <2>3. JobTyped' /\ JobKnows'
    BY <2>1, <2>2, <1>2, <1>4 DEF JobTyped, JobType, WorkLists, JobKnows, JobPc, GraphOK, Exists
  <2> QED BY <2>3, <1>1, <1>2, <1>3, JobPart
<1>10. CASE Report
  <2>1. job' = NoJob /\ report' \in {"clean", "drift"}
    BY <1>10 DEF Report
  <2>2. JobTyped' /\ JobKnows'
    BY <2>1, NoJobFits
  <2> QED BY <2>2, <1>1, <1>2, <1>3, JobPart
<1> QED BY <1>6, <1>7, <1>8, <1>9, <1>10

\* A repair: one item leaves a work list, and the graph stays PostgreSQL's.
LEMMA RepairInv ==
  ASSUME IInv,
         \/ \E n \in Names : CreateMissingNode(n) \/ DeletePhantomNode(n)
         \/ \E e \in Names \X Names : CreateMissingEdge(e) \/ DeletePhantomEdge(e)
  PROVE  IInv'
<1>1. /\ UNCHANGED <<pgVars, events, calls, report>> /\ UNCHANGED rows
      /\ UNCHANGED faults \/ faults' = faults + 1
  BY DEF CreateMissingNode, DeletePhantomNode, CreateMissingEdge, DeletePhantomEdge,
         GraphWriteFails, pgVars
<1>2. JobTyped /\ JobKnows /\ GraphOK
  BY InvOfJob
<1>3. PICK x : \/ job' = [job EXCEPT !.missing = job.missing \ {x}]
               \/ job' = [job EXCEPT !.phantom = job.phantom \ {x}]
  BY DEF CreateMissingNode, DeletePhantomNode, CreateMissingEdge, DeletePhantomEdge
<1>4. /\ job'.pc = job.pc /\ job'.active = job.active /\ job'.drift = job.drift
      /\ job'.missing \subseteq job.missing /\ job'.phantom \subseteq job.phantom
      /\ job' = [pc |-> job'.pc, active |-> job'.active, missing |-> job'.missing,
                 phantom |-> job'.phantom, drift |-> job'.drift]
  BY <1>2, <1>3 DEF JobTyped, JobType
<1>5. JobTyped'
  BY <1>1, <1>2, <1>4 DEF JobTyped, JobType, WorkLists
<1>6. JobKnows'
  BY <1>1, <1>2, <1>4 DEF JobKnows, Exists
<1>7. GraphOK'
  <2>1. ASSUME NEW n \in Names, CreateMissingNode(n) PROVE GraphOK'
    <3>1. Exists(n) /\ job.active[n] \in Health
      BY <2>1, <1>2 DEF CreateMissingNode, JobKnows, JobTyped, JobType
    <3> QED BY <2>1, <3>1, <1>1, GraphWrites DEF CreateMissingNode, GraphWriteFails
  <2>2. ASSUME NEW n \in Names, DeletePhantomNode(n) PROVE GraphOK'
    BY <2>2, <1>1, GraphWrites DEF DeletePhantomNode, GraphWriteFails
  <2>3. ASSUME NEW e \in Names \X Names, CreateMissingEdge(e) PROVE GraphOK'
    BY <2>3, <1>1, GraphWrites DEF CreateMissingEdge, GraphWriteFails
  <2>4. ASSUME NEW e \in Names \X Names, DeletePhantomEdge(e) PROVE GraphOK'
    BY <2>4, <1>1, GraphWrites DEF DeletePhantomEdge, GraphWriteFails, Unlink
  <2> QED BY <2>1, <2>2, <2>3, <2>4
<1>8. faults' \in Nat
  BY <1>1, FaultsCount
<1> QED BY <1>1, <1>5, <1>6, <1>7, <1>8, JobPart

LEMMA JobDiesInv == ASSUME IInv, JobDies PROVE IInv'
<1>1. /\ job' = NoJob /\ faults' = faults + 1
      /\ UNCHANGED <<pgVars, events, graphVars, calls, report>> /\ UNCHANGED rows
  BY DEF JobDies, pgVars
<1>2. JobTyped' /\ JobKnows'
  BY <1>1, InvOfJob, NoJobFits DEF JobTyped
<1> QED BY <1>1, <1>2, GraphWrites, FaultsCount, JobPart

LEMMA StutterInv == ASSUME IInv, UNCHANGED vars PROVE IInv'
<1>1. UNCHANGED <<pgVars, events, graphVars, calls, faults, job, report>> /\ UNCHANGED rows
  BY DEF vars, catalogVars, pgVars
<1>2. JobTyped' /\ JobKnows'
  BY <1>1, InvOfJob DEF JobTyped, JobKnows, Exists
<1> QED BY <1>1, <1>2, GraphWrites, FaultsCount, JobPart

LEMMA NextInv == IInv /\ [Next]_vars => IInv'
<1> SUFFICES ASSUME IInv, [Next]_vars PROVE IInv'
  OBVIOUS
<1>1. ASSUME NEW c \in Calls, UNCHANGED <<job, report>>,
             \/ RegisterCheck(c) \/ LoadRow(c) \/ DeclareDependency(c)
             \/ WithdrawDependency(c) \/ CallStep(c) \/ CallDies(c)
      PROVE  IInv'
  BY <1>1, RegisterCheckInv, LoadRowInv, RegisterInsertInv, RegisterCommitInv, RowCommitInv,
     PublishInv, GraphCallInv, CallDiesInv, DependencyInv, SyncDependencyInv DEF CallStep
<1>2. CASE JobStep
  BY <1>2, ReadInv, RepairInv DEF JobStep
<1> QED BY <1>1, <1>2, JobDiesInv, StutterInv DEF Next, CatalogNext

-----------------------------------------------------------------------------
LEMMA Invariant == Spec => []IInv
BY InitInv, NextInv, PTL DEF Spec

\* The catalog and the pass stay well typed.
THEOREM TypeCorrect == Spec => []TypeOK
<1>1. IInv => TypeOK
  BY DEF IInv
<1> QED BY <1>1, Invariant, PTL

\* The stream never announces what PostgreSQL does not hold for good.
THEOREM EventsFollowCommitsHolds == Spec => []EventsFollowCommits
<1>1. IInv => EventsFollowCommits
  BY DEF IInv
<1> QED BY <1>1, Invariant, PTL

\* Every node of the graph, repaired ones included, stands for a committed row.
THEOREM NodesAreRegisteredHolds == Spec => []NodesAreRegistered
<1>1. IInv => NodesAreRegistered
  BY DEF IInv
<1> QED BY <1>1, Invariant, PTL

\* Of two registrations of a name one succeeds at most, and never over a row.
THEOREM RegisterNeverOverwritesHolds == Spec => RegisterNeverOverwrites
<1> DEFINE A == \A c \in Calls :
                  calls[c].op = "register" /\ calls[c].pc = "commit" /\ calls'[c].pc = "publish"
                    => ~Exists(calls[c].name)
<1>1. IInv /\ [Next]_vars => [A]_catalogVars
  <2> SUFFICES ASSUME IInv, NEW c \in Calls, calls[c].op = "register", calls[c].pc = "commit"
               PROVE  ~Exists(calls[c].name)
    OBVIOUS
  <2>1. calls[c].name \in Names /\ pending[calls[c].name] = c
    BY InvOfCall DEF Knows
  <2> QED BY <2>1, CatalogAssumption DEF IInv, PendingIsNew
<1> QED BY <1>1, Invariant, PTL DEF Spec, RegisterNeverOverwrites

\* No step takes a row away or brings a deleted service back, an update that
\* loaded its row before the delete included.
THEOREM DeletedIsFinalHolds == Spec => DeletedIsFinal
<1> DEFINE A == \A n \in Names : Exists(n) => /\ rows'[n] # Null
                                              /\ rows[n].deleted => rows'[n].deleted
<1>1. IInv /\ [Next]_vars => [A]_catalogVars
  <2> SUFFICES ASSUME IInv, [Next]_vars PROVE A
    OBVIOUS
  <2>1. CASE UNCHANGED rows
    BY <2>1 DEF Exists
  <2>2. ASSUME NEW c \in Calls, RegisterCommit(c) PROVE A
    <3>1. calls[c].op = "register" /\ calls[c].pc = "commit"
      BY <2>2 DEF RegisterCommit
    <3>2. calls[c].name \in Names /\ pending[calls[c].name] = c
      BY <3>1, InvOfCall DEF Knows
    <3>3. ~Exists(calls[c].name)
      BY <3>2, CatalogAssumption DEF IInv, PendingIsNew
    <3> QED BY <2>2, <3>3, InvOfCall DEF RegisterCommit, Exists
  <2>3. ASSUME NEW c \in Calls, UpdateCommit(c) \/ DeleteCommit(c) PROVE A
    BY <2>3, RowCommitStep, InvOfCall DEF Exists
  <2> QED
    BY <2>1, <2>2, <2>3
    DEF Next, CatalogNext, CallStep, RegisterCheck, LoadRow, RegisterInsert, Publish, SyncNode,
        DeleteNode, CallDies, DeclareDependency, WithdrawDependency, SyncDependency, JobStep, ReadActive, ReadNodes,
        ReadDependencies, ReadEdges, Report, CreateMissingNode, DeletePhantomNode,
        CreateMissingEdge, DeletePhantomEdge, JobDies, vars, catalogVars, pgVars
<1> QED BY <1>1, Invariant, PTL DEF Spec, DeletedIsFinal
-----------------------------------------------------------------------------
(* The three stores implement Registry: a commit of a registration or of a  *)
(* deletion, a dependency declared or withdrawn, a publication and a graph  *)
(* write are steps of it, and everything else is a stutter.                 *)

\* What Registry sees of a row.
StateOf(row) == CASE row = Null -> "free" [] row # Null /\ ~row.deleted -> "active"
                  [] OTHER -> "deleted"

\* Registry's state, before and after a step.
LEMMA States ==
  /\ [n \in Names |-> CASE ~Exists(n) -> "free" [] Active(n) -> "active"
                       [] OTHER -> "deleted"] = [n \in Names |-> StateOf(rows[n])]
  /\ [n \in Names |-> CASE ~Exists(n) -> "free" [] Active(n) -> "active"
                       [] OTHER -> "deleted"]' = [n \in Names |-> StateOf(rows'[n])]
BY DEF StateOf, Exists, Active

LEMMA StateWords ==
  ASSUME NEW row
  PROVE  /\ StateOf(row) = "free" <=> row = Null
         /\ row # Null /\ row.deleted => StateOf(row) = "deleted"
         /\ row # Null /\ ~row.deleted => StateOf(row) = "active"
<1>1. row = Null => StateOf(row) = "free"
  BY DEF StateOf
<1>2. row # Null /\ row.deleted => StateOf(row) = "deleted"
  BY DEF StateOf
<1>3. row # Null /\ ~row.deleted => StateOf(row) = "active"
  <2> SUFFICES ASSUME row # Null, ~row.deleted PROVE StateOf(row) = "active"
    OBVIOUS
  <2> QED BY Zenon DEF StateOf
<1> QED BY <1>1, <1>2, <1>3

\* A name that Registry has as free has no row.
LEMMA TakenNames == Registered!Taken = {n \in Names : Exists(n)}
BY States, StateWords DEF Registered!Taken, Exists

LEMMA RegisterCommitKept ==
  ASSUME IInv, NEW c \in Calls, RegisterCommit(c)
  PROVE  Registered!Next \/ UNCHANGED Registered!vars
<1> PICK n, up : n = calls[c].name /\ up = calls[c].upstream
  OBVIOUS
<1>1. /\ calls[c].op = "register" /\ calls[c].pc = "commit"
      /\ UNCHANGED <<events, node, edge>>
  BY DEF RegisterCommit, graphVars
<1>2. n \in Names /\ pending[n] = c /\ up \in SUBSET Names
  BY <1>1, InvOfCall DEF Knows, Call
<1>3. ~Exists(n) /\ rows \in [Names -> Row \cup {Null}]
  BY <1>2, CatalogAssumption, InvOfCall DEF IInv, PendingIsNew
<1>4. CASE \A t \in up : Exists(t)
  <2>1. /\ rows' = [rows EXCEPT ![n] = NewRow] /\ deps' = deps \cup ({n} \X up)
    BY <1>4 DEF RegisterCommit
  <2>2. up \in SUBSET Registered!Taken
    BY <1>2, <1>4, TakenNames
  <2>3. NewRow # Null
    <3>1. NewRow \in Row
      BY CatalogAssumption DEF NewRow, Row
    <3> QED BY <3>1, CatalogAssumption
  <2>4. StateOf(NewRow) = "active" /\ StateOf(rows[n]) = "free"
    BY <2>3, <1>3, StateWords DEF NewRow, Exists
  <2>5. [m \in Names |-> StateOf(rows'[m])] =
          [[m \in Names |-> StateOf(rows[m])] EXCEPT ![n] = "active"]
    BY <1>2, <1>3, <2>1, <2>4
  <2>6. Registered!Register(n)
    <3> PICK st : st = [m \in Names |-> StateOf(rows[m])]
      OBVIOUS
    <3>1. st[n] = "free"
      BY <1>2, <2>4
    <3>2. \E upstream \in SUBSET Registered!Taken : deps' = deps \cup ({n} \X upstream)
      BY <2>1, <2>2
    <3>3. UNCHANGED <<events, Nodes, edge>>
      BY <1>1 DEF Nodes
    <3> QED BY <2>5, <3>1, <3>2, <3>3, States DEF Registered!Register, Registered!graph
  <2> QED BY <1>2, <2>6 DEF Registered!Next
<1>5. CASE \E t \in up : ~Exists(t)
  <2>1. UNCHANGED <<rows, deps>>
    BY <1>5 DEF RegisterCommit
  <2> QED BY <1>1, <2>1, States DEF Registered!vars, Registered!records, Registered!graph, Nodes
<1> QED BY <1>4, <1>5

LEMMA RowCommitKept ==
  ASSUME IInv, NEW c \in Calls, UpdateCommit(c) \/ DeleteCommit(c)
  PROVE  Registered!Next \/ UNCHANGED Registered!vars
<1> PICK n : n = calls[c].name
  OBVIOUS
<1>1. UNCHANGED <<deps, events, node, edge>>
  BY DEF UpdateCommit, DeleteCommit, graphVars
<1>2. n \in Names /\ rows[n] # Null /\ rows \in [Names -> Row \cup {Null}]
  BY RowCommitStep, InvOfCall DEF Exists
<1>3. PICK row \in Row : /\ rows' = [rows EXCEPT ![n] = row] /\ row # Null
                         /\ rows[n].deleted => row.deleted
  BY RowCommitStep
<1>4. [m \in Names |-> StateOf(rows'[m])] =
        [[m \in Names |-> StateOf(rows[m])] EXCEPT ![n] = StateOf(row)]
  BY <1>2, <1>3
<1>5. CASE StateOf(row) = StateOf(rows[n])
  <2>1. [m \in Names |-> StateOf(rows'[m])] = [m \in Names |-> StateOf(rows[m])]
    BY <1>2, <1>4, <1>5
  <2> QED BY <1>1, <2>1, States DEF Registered!vars, Registered!records, Registered!graph, Nodes
<1>6. CASE StateOf(row) # StateOf(rows[n])
  <2>1. StateOf(rows[n]) = "active" /\ StateOf(row) = "deleted"
    BY <1>2, <1>3, <1>6 DEF StateOf
  <2>2. Registered!Delete(n)
    BY <1>1, <1>2, <1>4, <2>1, States DEF Registered!Delete, Registered!graph, Nodes
  <2> QED BY <1>2, <2>2 DEF Registered!Next
<1> QED BY <1>5, <1>6

LEMMA PublishKept ==
  ASSUME IInv, NEW c \in Calls, Publish(c)
  PROVE  Registered!Next \/ UNCHANGED Registered!vars
<1> PICK n, ev : n = calls[c].name /\ ev = EventType[calls[c].op]
  OBVIOUS
<1>1. /\ calls[c].pc = "publish" /\ UNCHANGED <<rows, deps, node, edge>>
      /\ events' = events \cup {<<ev, n>>} \/ events' = events
  BY DEF Publish, pgVars, graphVars
<1>2. /\ n \in Names /\ rows[n] # Null /\ calls[c].op \in {"register", "update", "delete"}
      /\ calls[c].op = "delete" => rows[n].deleted
  BY <1>1, InvOfCall DEF Knows, Exists
<1>3. /\ ev \in {"service.created", "service.updated", "service.deleted"}
      /\ ev = "service.deleted" => calls[c].op = "delete"
  BY <1>2 DEF EventType
<1>4. StateOf(rows[n]) # "free" /\ (ev = "service.deleted" => StateOf(rows[n]) = "deleted")
  BY <1>2, <1>3 DEF StateOf
<1>5. CASE events' = events \cup {<<ev, n>>}
  <2>1. Registered!Announce(n)
    BY <1>1, <1>2, <1>3, <1>4, <1>5, States
       DEF Registered!Announce, Registered!records, Registered!graph, Nodes
  <2> QED BY <1>2, <2>1 DEF Registered!Next
<1>6. CASE events' = events
  BY <1>1, <1>6, States DEF Registered!vars, Registered!records, Registered!graph, Nodes
<1> QED BY <1>1, <1>5, <1>6

\* The graph writes of the handlers and of the pass.
LEMMA GraphWriteKept ==
  ASSUME IInv, UNCHANGED <<rows, deps, events>>
  PROVE  /\ \A n \in Names, h \in Health : Exists(n) /\ MergeNode(n, h) => Registered!Next
         /\ \A n \in Names : DetachDelete(n) => Registered!Next
         /\ \A e \in Names \X Names :
              Link(e) => Registered!Next \/ UNCHANGED Registered!vars
         /\ edge' \subseteq edge /\ UNCHANGED node => Registered!Next
         /\ UNCHANGED graphVars => UNCHANGED Registered!vars
<1> USE DEF Registered!records, Registered!graph, Nodes
<1>1. node \in [Names -> Health \cup {Null}]
  BY DEF IInv, TypeOK, CatalogTypeOK
<1>2. ASSUME NEW n \in Names, NEW h \in Health, Exists(n), MergeNode(n, h)
      PROVE  Registered!Next
  <2>1. h # Null
    BY CatalogAssumption
  <2>2. Nodes' = Nodes \cup {n} /\ UNCHANGED edge
    BY <1>1, <1>2, <2>1 DEF MergeNode
  <2>3. StateOf(rows[n]) # "free"
    BY <1>2 DEF StateOf, Exists
  <2>4. Registered!Show(n)
    BY <2>2, <2>3, States DEF Registered!Show
  <2> QED BY <2>4 DEF Registered!Next
<1>3. ASSUME NEW n \in Names, DetachDelete(n) PROVE Registered!Next
  <2>1. Nodes' = Nodes \ {n} /\ edge' = {e \in edge : e[1] # n /\ e[2] # n}
    BY <1>1, <1>3 DEF DetachDelete
  <2>2. Registered!Hide(n)
    BY <2>1, States DEF Registered!Hide
  <2> QED BY <2>2 DEF Registered!Next
<1>4. ASSUME NEW e \in Names \X Names, Link(e)
      PROVE  Registered!Next \/ UNCHANGED Registered!vars
  <2>1. CASE e[1] \in Nodes /\ e[2] \in Nodes
    <3>1. e = <<e[1], e[2]>> /\ e[1] \in Names /\ e[2] \in Names
      OBVIOUS
    <3>2. edge' = edge \cup {<<e[1], e[2]>>} /\ UNCHANGED node
      BY <1>4, <2>1, <3>1 DEF Link
    <3>3. Registered!LinkUp(e[1], e[2])
      BY <2>1, <3>2, States DEF Registered!LinkUp
    <3> QED BY <3>1, <3>3 DEF Registered!Next
  <2>2. CASE ~(e[1] \in Nodes /\ e[2] \in Nodes)
    BY <1>4, <2>2, States DEF Link, Registered!vars
  <2> QED BY <2>1, <2>2
<1>5. ASSUME edge' \subseteq edge, UNCHANGED node PROVE Registered!Next
  <2>1. Registered!Undo
    BY <1>5, States DEF Registered!Undo
  <2> QED BY <2>1 DEF Registered!Next
<1>6. UNCHANGED graphVars => UNCHANGED Registered!vars
  BY States DEF graphVars, Registered!vars
<1> QED BY <1>2, <1>3, <1>4, <1>5, <1>6

LEMMA RegistryStep == IInv /\ [Next]_vars => [Registered!Next]_(Registered!vars)
<1> SUFFICES ASSUME IInv, [Next]_vars PROVE Registered!Next \/ UNCHANGED Registered!vars
  OBVIOUS
<1>1. ASSUME NEW c \in Calls, RegisterCommit(c) \/ UpdateCommit(c) \/ DeleteCommit(c) \/ Publish(c)
      PROVE  Registered!Next \/ UNCHANGED Registered!vars
  BY <1>1, RegisterCommitKept, RowCommitKept, PublishKept
<1>2. ASSUME NEW c \in Calls, SyncNode(c) \/ DeleteNode(c)
      PROVE  Registered!Next \/ UNCHANGED Registered!vars
  <2>1. calls[c].pc = "graph" /\ UNCHANGED <<rows, deps, events>>
    BY <1>2 DEF SyncNode, DeleteNode, pgVars
  <2>2. /\ calls[c].name \in Names /\ Exists(calls[c].name)
        /\ calls[c].op \in {"register", "update"} => calls[c].seen \in Health
    BY <2>1, InvOfCall DEF Knows
  <2> QED BY <1>2, <2>1, <2>2, GraphWriteKept DEF SyncNode, DeleteNode, GraphWriteFails
<1>3. ASSUME NEW c \in Calls, DeclareDependency(c) \/ WithdrawDependency(c) \/ SyncDependency(c)
      PROVE  Registered!Next \/ UNCHANGED Registered!vars
  <2>1. CASE DeclareDependency(c)
    <3>1. PICK d \in Names \X Names : Exists(d[1]) /\ Exists(d[2]) /\ deps' = deps \cup {d}
      BY <2>1 DEF DeclareDependency
    <3>2. UNCHANGED <<rows, events, node, edge>>
      BY <2>1 DEF DeclareDependency, graphVars
    <3>3. d[1] \in Names /\ d[2] \in Names /\ deps' = deps \cup {<<d[1], d[2]>>}
      BY <3>1
    <3>4. {d[1], d[2]} \subseteq Registered!Taken
      BY <3>1, <3>3, TakenNames
    <3>5. Registered!Declare(d[1], d[2])
      BY <3>2, <3>3, <3>4, States DEF Registered!Declare, Registered!graph, Nodes
    <3> QED BY <3>3, <3>5 DEF Registered!Next
  <2>2. CASE WithdrawDependency(c)
    <3>1. deps' \subseteq deps /\ UNCHANGED <<rows, events, node, edge>>
      BY <2>2 DEF WithdrawDependency, graphVars
    <3>2. Registered!Undo
      BY <3>1, States DEF Registered!Undo, Nodes
    <3> QED BY <3>2 DEF Registered!Next
  <2>3. CASE SyncDependency(c)
    <3>1. calls[c].pc = "graph" /\ UNCHANGED <<rows, deps, events>>
      BY <2>3 DEF SyncDependency, pgVars
    <3>2. calls[c].name \in Names /\ calls[c].upstream \in SUBSET Names
      BY <3>1, InvOfCall DEF Knows, Call
    <3>3. ASSUME NEW t \in calls[c].upstream, Link(<<calls[c].name, t>>)
          PROVE  Registered!Next \/ UNCHANGED Registered!vars
      BY <3>1, <3>2, <3>3, GraphWriteKept
    <3>4. ASSUME NEW t \in calls[c].upstream, Unlink(<<calls[c].name, t>>)
          PROVE  Registered!Next
      BY <3>1, <3>4, GraphWriteKept DEF Unlink
    <3> QED BY <2>3, <3>1, <3>3, <3>4, GraphWriteKept DEF SyncDependency, GraphWriteFails
  <2> QED BY <1>3, <2>1, <2>2, <2>3
<1>4. CASE \/ \E n \in Names : CreateMissingNode(n) \/ DeletePhantomNode(n)
           \/ \E e \in Names \X Names : CreateMissingEdge(e) \/ DeletePhantomEdge(e)
  <2>1. UNCHANGED <<rows, deps, events>>
    BY <1>4 DEF CreateMissingNode, DeletePhantomNode, CreateMissingEdge, DeletePhantomEdge, pgVars
  <2>2. ASSUME NEW n \in Names, CreateMissingNode(n)
        PROVE  Registered!Next \/ UNCHANGED Registered!vars
    <3>1. Exists(n) /\ job.active[n] \in Health
      BY <2>2, InvOfJob DEF CreateMissingNode, JobKnows, JobTyped, JobType
    <3> QED BY <2>1, <2>2, <3>1, GraphWriteKept DEF CreateMissingNode, GraphWriteFails
  <2>3. ASSUME NEW n \in Names, DeletePhantomNode(n)
        PROVE  Registered!Next \/ UNCHANGED Registered!vars
    BY <2>1, <2>3, GraphWriteKept DEF DeletePhantomNode, GraphWriteFails
  <2>4. ASSUME NEW e \in Names \X Names, CreateMissingEdge(e) \/ DeletePhantomEdge(e)
        PROVE  Registered!Next \/ UNCHANGED Registered!vars
    BY <2>1, <2>4, GraphWriteKept DEF CreateMissingEdge, DeletePhantomEdge, GraphWriteFails, Unlink
  <2> QED BY <1>4, <2>2, <2>3, <2>4
<1>5. CASE UNCHANGED <<rows, deps, events, graphVars>>
  BY <1>5, GraphWriteKept
<1>6. \/ \E c \in Calls : \/ RegisterCommit(c) \/ UpdateCommit(c) \/ DeleteCommit(c)
                        \/ Publish(c) \/ SyncNode(c) \/ DeleteNode(c)
                        \/ DeclareDependency(c) \/ WithdrawDependency(c) \/ SyncDependency(c)
      \/ \E n \in Names : CreateMissingNode(n) \/ DeletePhantomNode(n)
      \/ \E e \in Names \X Names : CreateMissingEdge(e) \/ DeletePhantomEdge(e)
      \/ UNCHANGED <<rows, deps, events, graphVars>>
  BY DEF Next, CatalogNext, CallStep, RegisterCheck, LoadRow, RegisterInsert, CallDies,
         JobStep, ReadActive, ReadNodes, ReadDependencies, ReadEdges, Report, JobDies, vars,
         catalogVars, pgVars
<1> QED BY <1>1, <1>2, <1>3, <1>4, <1>5, <1>6

\* The three stores keep to the promises of Registry, whatever calls and passes
\* overlap and whatever writes are lost (services.py:133-272, neo4j.py:56-242).
THEOREM RegistryKeptHolds == Spec => RegistryKept
<1>1. ReconcilerInit => Registered!Init
  <2> SUFFICES ASSUME ReconcilerInit PROVE Registered!Init
    OBVIOUS
  <2>1. PICK there \in Seeds :
          /\ rows = [n \in Names |-> IF n \in there
                                     THEN [health |-> "unknown", deleted |-> FALSE] ELSE Null]
          /\ node = [n \in Names |-> IF n \in there THEN "unknown" ELSE Null]
    BY DEF ReconcilerInit, Init
  <2>2. there \in SUBSET Names /\ "unknown" # Null
    BY CatalogAssumption
  <2>3. [health |-> "unknown", deleted |-> FALSE] # Null
    <3>1. [health |-> "unknown", deleted |-> FALSE] \in Row
      BY CatalogAssumption DEF Row
    <3> QED BY <3>1, CatalogAssumption
  <2>4. [n \in Names |-> StateOf(rows[n])] = [n \in Names |-> IF n \in there THEN "active" ELSE "free"]
    BY <2>1, <2>3, StateWords
  <2>5. Nodes = there
    BY <2>1, <2>2 DEF Nodes
  <2>6. deps = {} /\ edge = {} /\ events = {}
    BY DEF ReconcilerInit, Init
  <2> QED BY <2>2, <2>4, <2>5, <2>6, States DEF Registered!Init
<1> QED BY <1>1, Invariant, RegistryStep, PTL DEF Spec, RegistryKept, Registered!Spec

=============================================================================
