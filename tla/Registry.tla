------------------------------- MODULE Registry -------------------------------
(***************************************************************************)
(* What the catalog promises of its services, whoever calls it and         *)
(* whatever is lost: a name is registered once and deleted once,           *)
(* dependencies join names that were registered, the stream announces only *)
(* what is so, and the graph shows only names that were registered.        *)
(***************************************************************************)
CONSTANT Names

VARIABLES
  state,      \* of a name: "free", "active" or "deleted"
  depends,    \* declared dependencies
  announced,  \* the events of the stream, <<type, name>>
  shown,      \* the names in the graph
  linked      \* the relationships in the graph

records == <<state, depends>>
graph   == <<shown, linked>>
vars    == <<records, announced, graph>>

Taken == {n \in Names : state[n] # "free"}

Init == /\ \E there \in SUBSET Names :
             /\ state = [n \in Names |-> IF n \in there THEN "active" ELSE "free"]
             /\ shown = there
        /\ depends = {} /\ announced = {} /\ linked = {}

Register(n) == /\ state[n] = "free"
               /\ state' = [state EXCEPT ![n] = "active"]
               /\ \E upstream \in SUBSET Taken : depends' = depends \cup ({n} \X upstream)
               /\ UNCHANGED <<announced, graph>>

Declare(a, b) == /\ {a, b} \subseteq Taken /\ depends' = depends \cup {<<a, b>>}
                 /\ UNCHANGED <<state, announced, graph>>

Delete(n) == /\ state[n] = "active"
             /\ state' = [state EXCEPT ![n] = "deleted"]
             /\ UNCHANGED <<depends, announced, graph>>

Announce(n) == /\ \E type \in {"service.created", "service.updated", "service.deleted"} :
                    /\ state[n] # "free" /\ (type = "service.deleted" => state[n] = "deleted")
                    /\ announced' = announced \cup {<<type, n>>}
               /\ UNCHANGED <<records, graph>>

Show(n) == /\ state[n] # "free" /\ shown' = shown \cup {n}
           /\ UNCHANGED <<records, announced, linked>>

Hide(n) == /\ shown' = shown \ {n}
           /\ linked' = {e \in linked : e[1] # n /\ e[2] # n}
           /\ UNCHANGED <<records, announced>>

LinkUp(a, b) == /\ {a, b} \subseteq shown /\ linked' = linked \cup {<<a, b>>}
                /\ UNCHANGED <<records, announced, shown>>

\* A dependency, a relationship or both go.
Undo == /\ depends' \subseteq depends /\ linked' \subseteq linked
        /\ UNCHANGED <<state, announced, shown>>

Next == \/ \E n \in Names : Register(n) \/ Delete(n) \/ Announce(n) \/ Show(n) \/ Hide(n)
        \/ \E a, b \in Names : Declare(a, b) \/ LinkUp(a, b)
        \/ Undo

Spec == Init /\ [][Next]_vars
=============================================================================
