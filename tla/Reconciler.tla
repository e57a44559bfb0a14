------------------------------ MODULE Reconciler ------------------------------
(***************************************************************************)
(* reconcile_neo4j_with_postgres beside the catalog's handlers.  The pass  *)
(* reads PostgreSQL, then Neo4j, and repairs the difference of the two     *)
(* snapshots one item at a time while the handlers go on, nodes first and  *)
(* then, from new snapshots, edges.  Nodes are compared by id only.        *)
(***************************************************************************)
EXTENDS Catalog

VARIABLES
  job,      \* the pass in progress
  report    \* what the last complete pass reported: "none", "clean" or "drift"

vars == <<catalogVars, job, report>>

\* active: the health_status of the services PostgreSQL gave, Null for others.
NoJob == [pc |-> "off", active |-> [n \in Names |-> Null], missing |-> {},
          phantom |-> {}, drift |-> FALSE]

ReconcilerInit == Init /\ job = NoJob /\ report = "none"

-----------------------------------------------------------------------------
\* SELECT ... WHERE deleted_at IS NULL.
ReadActive ==
  /\ job.pc = "off"
  /\ job' = [NoJob EXCEPT !.pc = "read_nodes",
                          !.active = [n \in Names |-> IF Active(n) THEN rows[n].health
                                                      ELSE Null]]
  /\ UNCHANGED <<catalogVars, report>>

\* MATCH (s:Service) RETURN s.id, and the two differences of id sets.
ReadNodes ==
  /\ job.pc = "read_nodes"
  /\ LET active  == {n \in Names : job.active[n] # Null}
         missing == active \ Nodes
         phantom == Nodes \ active
     IN  job' = [job EXCEPT !.pc = "nodes", !.missing = missing, !.phantom = phantom,
                            !.drift = missing \cup phantom # {}]
  /\ UNCHANGED <<catalogVars, report>>

\* A missing node is merged from the row read at the start of the pass.
CreateMissingNode(n) ==
  /\ job.pc = "nodes" /\ n \in job.missing
  /\ \/ MergeNode(n, job.active[n]) /\ UNCHANGED faults
     \/ GraphWriteFails
  /\ job' = [job EXCEPT !.missing = @ \ {n}]
  /\ UNCHANGED <<pgVars, events, calls, report>>

\* A plausible slip: a phantom is dropped from the work list, not from the graph.
SkipPhantomNode(n) ==
  /\ job.pc = "nodes" /\ job.missing = {} /\ n \in job.phantom
  /\ job' = [job EXCEPT !.phantom = @ \ {n}]
  /\ UNCHANGED <<catalogVars, report>>

DeletePhantomNode(n) ==
  /\ job.pc = "nodes" /\ job.missing = {} /\ n \in job.phantom
  /\ \/ DetachDelete(n) /\ UNCHANGED faults
     \/ GraphWriteFails
  /\ job' = [job EXCEPT !.phantom = @ \ {n}]
  /\ UNCHANGED <<pgVars, events, calls, report>>

\* SELECT of every dependency row, the ones of deleted services too.  The pairs
\* wait in `missing` for the graph's side of the difference.
ReadDependencies ==
  /\ job.pc = "nodes" /\ job.missing = {} /\ job.phantom = {}
  /\ job' = [job EXCEPT !.pc = "read_edges", !.missing = deps, !.active = NoJob.active]
  /\ UNCHANGED <<catalogVars, report>>

ReadEdges ==
  /\ job.pc = "read_edges"
  /\ LET missing == job.missing \ edge
         phantom == edge \ job.missing
     IN  job' = [job EXCEPT !.pc = "edges", !.missing = missing, !.phantom = phantom,
                            !.drift = @ \/ missing \cup phantom # {}]
  /\ UNCHANGED <<catalogVars, report>>

CreateMissingEdge(e) ==
  /\ job.pc = "edges" /\ e \in job.missing
  /\ \/ Link(e) /\ UNCHANGED faults
     \/ GraphWriteFails
  /\ job' = [job EXCEPT !.missing = @ \ {e}]
  /\ UNCHANGED <<pgVars, events, calls, report>>

DeletePhantomEdge(e) ==
  /\ job.pc = "edges" /\ job.missing = {} /\ e \in job.phantom
  /\ \/ Unlink(e) /\ UNCHANGED faults
     \/ GraphWriteFails
  /\ job' = [job EXCEPT !.phantom = @ \ {e}]
  /\ UNCHANGED <<pgVars, events, calls, report>>

\* The summary of the pass.
Report ==
  /\ job.pc = "edges" /\ job.missing = {} /\ job.phantom = {}
  /\ report' = IF job.drift THEN "drift" ELSE "clean"
  /\ job' = NoJob
  /\ UNCHANGED catalogVars

\* A read of either store fails, or the worker dies: the pass ends where it is.
JobDies ==
  /\ job.pc # "off"
  /\ faults < MaxFaults
  /\ faults' = faults + 1
  /\ job' = NoJob
  /\ UNCHANGED <<pgVars, events, graphVars, calls, report>>

JobStep ==
  \/ ReadActive \/ ReadNodes \/ ReadDependencies \/ ReadEdges \/ Report
  \/ \E n \in Names : CreateMissingNode(n) \/ DeletePhantomNode(n)
  \/ \E e \in Names \X Names : CreateMissingEdge(e) \/ DeletePhantomEdge(e)

Next == \/ CatalogNext /\ UNCHANGED <<job, report>>
        \/ JobStep
        \/ JobDies

\* A handler that has started goes on: its awaits return or time out.  Celery beat
\* starts a pass every five minutes, and a pass goes on.
Spec == /\ ReconcilerInit /\ [][Next]_vars
        /\ \A c \in Calls : WF_vars(CallStep(c) /\ UNCHANGED <<job, report>>)
        /\ WF_vars(JobStep)

-----------------------------------------------------------------------------
(* Properties.                                                             *)

JobPc == {"off", "read_nodes", "nodes", "read_edges", "edges"}

TypeOK ==
  /\ CatalogTypeOK
  /\ job.pc \in JobPc
  /\ job.active \in [Names -> Health \cup {Null}]
  /\ job.missing \cup job.phantom \subseteq
       IF job.pc \in {"read_edges", "edges"} THEN Names \X Names ELSE Names
  /\ job.drift \in BOOLEAN
  /\ report \in {"none", "clean", "drift"}

\* The three stores together keep to the promises of Registry, whatever calls and
\* passes overlap and whatever writes are lost (services.py:133-272, neo4j.py:56-242).
Registered ==
  INSTANCE Registry
    WITH state <- [n \in Names |-> CASE ~Exists(n) -> "free"
                                     [] Active(n)  -> "active"
                                     [] OTHER      -> "deleted"],
         depends <- deps, announced <- events, shown <- Nodes, linked <- edge
RegistryKept == Registered!Spec

\* The graph of what PostgreSQL holds: the active services, and the declared
\* dependencies between two of them.
GraphMatches ==
  /\ Nodes = ActiveNames
  /\ edge = {d \in deps : d[1] \in ActiveNames /\ d[2] \in ActiveNames}

\* Once calls and failures stop, the graph has the nodes and edges of the
\* catalog for good, whatever was lost, reordered or undone by a pass that
\* worked from old snapshots.
GraphConverges == <>[]GraphMatches

\* "reconciliation job will catch the drift" (neo4j.py:85): a lost write of a
\* health_status is made up for.
HealthConverges ==
  <>[](\A n \in ActiveNames : node[n] = rows[n].health)
=============================================================================
