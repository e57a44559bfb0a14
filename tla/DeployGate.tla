------------------------------ MODULE DeployGate ------------------------------
(***************************************************************************)
(* What the enforcer promises of deploys: one is let in while its service  *)
(* is open only, is answered once, and leaves either nothing or one row,   *)
(* with which the service's score changes at the same time.                *)
(***************************************************************************)
EXTENDS Integers, Sequences

CONSTANTS Services, Requests,
          Threshold  \* the score admission asks for

VARIABLES
  inside,    \* of a service: the requests let in and not answered
  answered,
  frozen,    \* services
  gone,      \* services
  ledger,    \* the rows of the deploys decided, in order
  score      \* what each service shows

requests == <<inside, answered>>
vars     == <<requests, frozen, gone, ledger, score>>

Init == /\ inside = [s \in Services |-> {}] /\ answered = {}
        /\ frozen = {} /\ gone = {}
        /\ ledger = <<>> /\ score = [s \in Services |-> 0]

New(r) == r \notin answered /\ \A s \in Services : r \notin inside[s]

Enter(r, s) == /\ New(r) /\ s \notin frozen \cup gone
               /\ inside' = [inside EXCEPT ![s] = @ \cup {r}]
               /\ UNCHANGED <<answered, frozen, gone, ledger, score>>

Refuse(r) == /\ New(r) /\ answered' = answered \cup {r}
             /\ UNCHANGED <<inside, frozen, gone, ledger, score>>

Leave(r, s) == /\ r \in inside[s]
               /\ inside' = [inside EXCEPT ![s] = @ \ {r}]
               /\ answered' = answered \cup {r}
               /\ UNCHANGED <<frozen, gone>>

Drop(r, s) == Leave(r, s) /\ UNCHANGED <<ledger, score>>

Decide(r, s) ==
  /\ Leave(r, s)
  /\ score' = [score EXCEPT ![s] = score'[s]]
  /\ \E status \in {"queued", "blocked"} :
       /\ status = "queued" => score'[s] >= Threshold
       /\ ledger' = Append(ledger, [request |-> r, service |-> s,
                                    status |-> status, score |-> score'[s]])

Freeze(s) == /\ s \notin frozen \cup gone /\ frozen' = frozen \cup {s}
             /\ UNCHANGED <<requests, gone, ledger, score>>

Unfreeze(s) == /\ s \in frozen \ gone /\ frozen' = frozen \ {s}
               /\ UNCHANGED <<requests, gone, ledger, score>>

Delete(s) == /\ s \notin gone /\ gone' = gone \cup {s}
             /\ UNCHANGED <<requests, frozen, ledger, score>>

Next == \/ \E r \in Requests : Refuse(r)
        \/ \E r \in Requests, s \in Services : Enter(r, s) \/ Drop(r, s) \/ Decide(r, s)
        \/ \E s \in Services : Freeze(s) \/ Unfreeze(s) \/ Delete(s)

Spec == Init /\ [][Next]_vars
=============================================================================
