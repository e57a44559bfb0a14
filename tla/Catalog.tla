------------------------------- MODULE Catalog -------------------------------
(***************************************************************************)
(* The catalog's three writing endpoints, register_service, update_service *)
(* and delete_service, over three stores: PostgreSQL (the truth), the      *)
(* Redis stream catalog.events and the Neo4j graph.  Each handler commits  *)
(* to PostgreSQL first, then publishes, then writes the graph; the last    *)
(* two are best effort, and nothing undoes a commit.  The dependencies     *)
(* router, which is not in the repository, is taken to do the same for the *)
(* dependencies it declares and withdraws.                                 *)
(*                                                                         *)
(* A service is identified with its name: names are UNIQUE over deleted    *)
(* rows as well, so a name gets at most one id in the life of the platform *)
(* (RegisterNeverOverwrites).  Of a service's fields only health_status,   *)
(* the one that changes and that the graph copies, is kept.                *)
(*                                                                         *)
(* A step is the code between two awaits that others can tell apart: the   *)
(* refresh after a commit is one step with the publication that follows.   *)
(***************************************************************************)
EXTENDS Naturals, FiniteSets

CONSTANTS Names,      \* names (and ids) of services
          Calls,      \* API calls
          Health,     \* values of health_status, "unknown" among them
          Null,
          Seeds,      \* sets of services the platform may hold at the start
          MaxFaults   \* bound: handlers, jobs and graph writes that fail

Row == [health : Health, deleted : BOOLEAN]

ASSUME CatalogAssumption ==
  /\ "unknown" \in Health
  /\ Seeds \subseteq SUBSET Names
  /\ MaxFaults \in Nat
  /\ Null \notin Names \cup Calls \cup Health \cup Row

VARIABLES
  rows,      \* services: the committed row of a name, or Null
  deps,      \* service_dependencies: <<source, target>> pairs
  pending,   \* the call whose INSERT of the name is not committed, or Null
  events,    \* what catalog.events has carried: <<type, name>> pairs
  node,      \* Neo4j: the health_status on the name's node, Null if it has none
  edge,      \* Neo4j: <<source, target>> relationships
  calls,     \* the API calls
  faults

pgVars    == <<rows, deps, pending>>
graphVars == <<node, edge>>
catalogVars == <<pgVars, events, graphVars, calls, faults>>

Exists(n) == rows[n] # Null
Active(n) == Exists(n) /\ ~rows[n].deleted

ActiveNames == {n \in Names : Active(n)}
Nodes       == {n \in Names : node[n] # Null}

Idle == [op |-> "none", pc |-> "idle", name |-> Null, health |-> Null,
         upstream |-> {}, seen |-> Null]

Goto(c, pc) == calls' = [calls EXCEPT ![c].pc = pc]

\* The handler answers, refuses or fails: nothing of it is left.
End(c) == calls' = [calls EXCEPT ![c] = [Idle EXCEPT !.pc = "ended"]]

\* A platform that holds some services already, each with its node.
Init ==
  /\ \E registered \in Seeds :
       /\ rows = [n \in Names |-> IF n \in registered
                                  THEN [health |-> "unknown", deleted |-> FALSE]
                                  ELSE Null]
       /\ node = [n \in Names |-> IF n \in registered THEN "unknown" ELSE Null]
  /\ deps = {} /\ edge = {} /\ events = {}
  /\ pending = [n \in Names |-> Null]
  /\ calls = [c \in Calls |-> Idle]
  /\ faults = 0

-----------------------------------------------------------------------------
(* PostgreSQL: the part of each handler up to its commit.                  *)

\* register_service looks the name up (409) and then the team (400).
RegisterCheck(c) ==
  /\ calls[c].pc = "idle"
  /\ \E n \in Names : \E up \in SUBSET (Names \ {n}) :
       \/ /\ ~Exists(n)
          /\ calls' = [calls EXCEPT ![c] = [@ EXCEPT !.op = "register", !.pc = "insert",
                                                     !.name = n, !.upstream = up]]
       \/ End(c)
  /\ UNCHANGED <<pgVars, events, graphVars, faults>>

\* A plausible slip: the name column without its UNIQUE constraint.
RegisterInsertNotUnique(c) ==
  /\ calls[c].op = "register" /\ calls[c].pc = "insert"
  /\ Goto(c, "commit")
  /\ UNCHANGED <<pgVars, events, graphVars, faults>>

\* A plausible slip: the event published with the flush, ahead of the commit.
RegisterInsertPublishing(c) ==
  /\ calls[c].op = "register" /\ calls[c].pc = "insert"
  /\ LET n == calls[c].name IN
       /\ pending[n] = Null
       /\ ~Exists(n)
       /\ pending' = [pending EXCEPT ![n] = c]
       /\ events' = events \cup {<<"service.created", n>>}
  /\ Goto(c, "commit")
  /\ UNCHANGED <<rows, deps, graphVars, faults>>

\* A plausible slip: the graph written with the flush, ahead of the commit.
RegisterInsertSyncing(c) ==
  /\ calls[c].op = "register" /\ calls[c].pc = "insert"
  /\ LET n == calls[c].name IN
       /\ pending[n] = Null
       /\ ~Exists(n)
       /\ pending' = [pending EXCEPT ![n] = c]
       /\ node' = [node EXCEPT ![n] = "unknown"]
  /\ Goto(c, "commit")
  /\ UNCHANGED <<rows, deps, events, edge, faults>>

\* The flush: it waits for another INSERT of the name, and fails on the UNIQUE
\* constraint (an IntegrityError, 500) if that one committed.
RegisterInsert(c) ==
  /\ calls[c].op = "register" /\ calls[c].pc = "insert"
  /\ LET n == calls[c].name IN
       /\ pending[n] = Null
       /\ \/ /\ ~Exists(n)
             /\ pending' = [pending EXCEPT ![n] = c]
             /\ Goto(c, "commit")
          \/ /\ Exists(n)
             /\ UNCHANGED pending
             /\ End(c)
  /\ UNCHANGED <<rows, deps, events, graphVars, faults>>

NewRow == [health |-> "unknown", deleted |-> FALSE]

\* The commit with the dependency rows: every target must be a row (deleted or
\* not), or the foreign key undoes the whole transaction.
RegisterCommit(c) ==
  /\ calls[c].op = "register" /\ calls[c].pc = "commit"
  /\ LET n == calls[c].name IN
       /\ pending' = [pending EXCEPT ![n] = Null]
       /\ \/ /\ \A t \in calls[c].upstream : Exists(t)
             /\ rows' = [rows EXCEPT ![n] = NewRow]
             /\ deps' = deps \cup ({n} \X calls[c].upstream)
             /\ Goto(c, "publish")
          \/ /\ \E t \in calls[c].upstream : ~Exists(t)
             /\ UNCHANGED <<rows, deps>>
             /\ End(c)
  /\ UNCHANGED <<events, graphVars, faults>>

\* update_service and delete_service load the row, 404 if it is not active.  An
\* update sets a new health_status, or (Null) only fields the graph lacks.
LoadRow(c) ==
  /\ calls[c].pc = "idle"
  /\ \E op \in {"update", "delete"}, n \in Names, h \in Health \cup {Null} :
       /\ op = "delete" => h = Null
       /\ \/ /\ Active(n)
             /\ calls' = [calls EXCEPT ![c] = [@ EXCEPT !.op = op, !.pc = "commit",
                                                        !.name = n, !.health = h]]
          \/ /\ ~Active(n)
             /\ End(c)
  /\ UNCHANGED <<pgVars, events, graphVars, faults>>

\* A plausible slip: the whole loaded row written back, deleted_at with it.
UpdateCommitWholeRow(c) ==
  /\ calls[c].op = "update" /\ calls[c].pc = "commit"
  /\ rows' = [rows EXCEPT ![calls[c].name] =
                [health |-> IF calls[c].health = Null THEN @.health
                            ELSE calls[c].health, deleted |-> FALSE]]
  /\ Goto(c, "publish")
  /\ UNCHANGED <<deps, pending, events, graphVars, faults>>

\* A plausible slip: model_dump() without exclude_unset, so an unset field is None.
UpdateCommitUnsetToo(c) ==
  /\ calls[c].op = "update" /\ calls[c].pc = "commit"
  /\ rows' = [rows EXCEPT ![calls[c].name].health = calls[c].health]
  /\ Goto(c, "publish")
  /\ UNCHANGED <<deps, pending, events, graphVars, faults>>

\* UPDATE of the changed columns by id; a delete that committed since the load
\* does not stop it.
UpdateCommit(c) ==
  /\ calls[c].op = "update" /\ calls[c].pc = "commit"
  /\ rows' = IF calls[c].health = Null THEN rows
             ELSE [rows EXCEPT ![calls[c].name].health = calls[c].health]
  /\ Goto(c, "publish")
  /\ UNCHANGED <<deps, pending, events, graphVars, faults>>

\* The soft delete; the service's dependency rows stay.
DeleteCommit(c) ==
  /\ calls[c].op = "delete" /\ calls[c].pc = "commit"
  /\ rows' = [rows EXCEPT ![calls[c].name].deleted = TRUE]
  /\ Goto(c, "publish")
  /\ UNCHANGED <<deps, pending, events, graphVars, faults>>

-----------------------------------------------------------------------------
(* After the commit.                                                       *)

EventType == [register |-> "service.created", update |-> "service.updated",
              delete |-> "service.deleted"]

\* The row is read again, the event added to the stream or the failure
\* swallowed; an update of no health_status ends here.
Publish(c) ==
  /\ calls[c].pc = "publish"
  /\ LET n == calls[c].name IN
       /\ \/ events' = events \cup {<<EventType[calls[c].op], n>>}
          \/ UNCHANGED events
       /\ IF calls[c].op = "update" /\ calls[c].health = Null
          THEN End(c)
          ELSE calls' = [calls EXCEPT ![c] = [@ EXCEPT !.pc = "graph",
                                                       !.seen = rows[n].health]]
  /\ UNCHANGED <<pgVars, graphVars, faults>>

\* MERGE (s:Service {id}) SET ...: the node takes the values given.
MergeNode(n, health) == node' = [node EXCEPT ![n] = health] /\ UNCHANGED edge

\* MATCH (s:Service {id}) DETACH DELETE s.
DetachDelete(n) ==
  /\ node' = [node EXCEPT ![n] = Null]
  /\ edge' = {e \in edge : e[1] # n /\ e[2] # n}

\* The graph is unreachable: logged, swallowed.
GraphWriteFails == /\ faults < MaxFaults
                   /\ faults' = faults + 1
                   /\ UNCHANGED graphVars

SyncNode(c) ==
  /\ calls[c].op \in {"register", "update"} /\ calls[c].pc = "graph"
  /\ \/ MergeNode(calls[c].name, calls[c].seen) /\ UNCHANGED faults
     \/ GraphWriteFails
  /\ End(c)
  /\ UNCHANGED <<pgVars, events>>

DeleteNode(c) ==
  /\ calls[c].op = "delete" /\ calls[c].pc = "graph"
  /\ \/ DetachDelete(calls[c].name) /\ UNCHANGED faults
     \/ GraphWriteFails
  /\ End(c)
  /\ UNCHANGED <<pgVars, events>>

-----------------------------------------------------------------------------
(* Dependencies declared and withdrawn after a registration.  main.py      *)
(* mounts a dependencies router that is not in the repository; neo4j.py    *)
(* names what it does: the row, then (best effort) the relationship.  Any  *)
(* two rows will do, deleted ones too: the foreign keys ask for no more.   *)

\* The row is changed, and the graph is next.
Changes(c, op, d) ==
  calls' = [calls EXCEPT ![c] = [@ EXCEPT !.op = op, !.pc = "graph",
                                          !.name = d[1], !.upstream = {d[2]}]]

DeclareDependency(c) ==
  /\ calls[c].pc = "idle"
  /\ \E d \in Names \X Names : /\ Exists(d[1]) /\ Exists(d[2]) /\ d \notin deps
                               /\ deps' = deps \cup {d}
                               /\ Changes(c, "declare", d)
  /\ UNCHANGED <<rows, pending, events, graphVars, faults>>

WithdrawDependency(c) ==
  /\ calls[c].pc = "idle"
  /\ \E d \in deps : /\ deps' = deps \ {d}
                     /\ Changes(c, "withdraw", d)
  /\ UNCHANGED <<rows, pending, events, graphVars, faults>>

\* MATCH both nodes, MERGE the relationship: nothing happens without the nodes.
Link(e) == /\ edge' = IF e[1] \in Nodes /\ e[2] \in Nodes THEN edge \cup {e} ELSE edge
           /\ UNCHANGED node

\* MATCH the relationship, DELETE it.
Unlink(e) == edge' = edge \ {e} /\ UNCHANGED node

SyncDependency(c) ==
  /\ calls[c].op \in {"declare", "withdraw"} /\ calls[c].pc = "graph"
  /\ \/ /\ \E t \in calls[c].upstream : IF calls[c].op = "declare"
                                        THEN Link(<<calls[c].name, t>>)
                                        ELSE Unlink(<<calls[c].name, t>>)
        /\ UNCHANGED faults
     \/ GraphWriteFails
  /\ End(c)
  /\ UNCHANGED <<pgVars, events>>

-----------------------------------------------------------------------------
\* The pod dies: what is committed, published and merged stays, the rest is lost.
CallDies(c) ==
  /\ calls[c].pc \notin {"idle", "ended"}
  /\ faults < MaxFaults
  /\ faults' = faults + 1
  /\ pending' = [n \in Names |-> IF pending[n] = c THEN Null ELSE pending[n]]
  /\ End(c)
  /\ UNCHANGED <<rows, deps, events, graphVars>>

CallStep(c) == \/ RegisterInsert(c) \/ RegisterCommit(c)
               \/ UpdateCommit(c) \/ DeleteCommit(c)
               \/ Publish(c) \/ SyncNode(c) \/ DeleteNode(c) \/ SyncDependency(c)

CatalogNext ==
  \E c \in Calls : \/ RegisterCheck(c) \/ LoadRow(c)
                   \/ DeclareDependency(c) \/ WithdrawDependency(c)
                   \/ CallStep(c) \/ CallDies(c)

-----------------------------------------------------------------------------
(* Properties.                                                             *)

Pc == {"idle", "insert", "commit", "publish", "graph", "ended"}

Call == [op : {"none", "register", "update", "delete", "declare", "withdraw"}, pc : Pc,
         name : Names \cup {Null}, health : Health \cup {Null},
         upstream : SUBSET Names, seen : Health \cup {Null}]

CatalogTypeOK ==
  /\ rows \in [Names -> Row \cup {Null}]
  /\ deps \subseteq Names \X Names
  /\ pending \in [Names -> Calls \cup {Null}]
  /\ events \subseteq {"service.created", "service.updated", "service.deleted"} \X Names
  /\ node \in [Names -> Health \cup {Null}]
  /\ edge \subseteq Names \X Names
  /\ calls \in [Calls -> Call]
  /\ faults \in Nat

\* A registration that succeeds takes a name no other has, also when two calls
\* both found the name free.
RegisterNeverOverwrites ==
  [][\A c \in Calls :
       calls[c].op = "register" /\ calls[c].pc = "commit" /\ calls'[c].pc = "publish"
         => ~Exists(calls[c].name)]_catalogVars

\* "Soft delete (deleted_at) - never hard delete" (main.py:17): no step takes a
\* row away or brings a deleted service back, an overlapping update included.
DeletedIsFinal ==
  [][\A n \in Names : Exists(n) => /\ rows'[n] # Null
                                   /\ rows[n].deleted => rows'[n].deleted]_catalogVars

\* The stream announces only what PostgreSQL holds for good: a consumer that
\* reads the row back finds what the event says.
EventsFollowCommits ==
  \A n \in Names :
    /\ <<"service.created", n>> \in events => Exists(n)
    /\ <<"service.deleted", n>> \in events => Exists(n) /\ rows[n].deleted

\* The graph never runs ahead of PostgreSQL: a node stands for a committed row.
NodesAreRegistered == \A n \in Nodes : Exists(n)
=============================================================================
