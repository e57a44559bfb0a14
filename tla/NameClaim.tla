------------------------------ MODULE NameClaim ------------------------------
(***************************************************************************)
(* What the repository of a service name is to the scaffolds of that name: *)
(* a claim.  It is given once and for all, to one of them; only who holds  *)
(* it, and has sealed it, may register the service or report it done.      *)
(***************************************************************************)
CONSTANTS Scaffolds, Nobody

VARIABLES
  owner,      \* who holds the claim, or Nobody
  sealed,     \* it is protected from others
  taken,      \* the catalog has a row of that name
  registrant, \* the scaffold that row is from, or Nobody
  completed   \* the scaffolds that reported the service done

vars == <<owner, sealed, taken, registrant, completed>>

Init == /\ owner = Nobody /\ sealed = FALSE /\ registrant = Nobody /\ completed = {}
        /\ taken \in BOOLEAN

Claim(w) == /\ owner = Nobody /\ owner' = w
            /\ UNCHANGED <<sealed, taken, registrant, completed>>

Holds(w) == owner = w /\ sealed

Seal == /\ owner # Nobody /\ sealed' = TRUE
        /\ UNCHANGED <<owner, taken, registrant, completed>>

Register(w) == /\ Holds(w) /\ ~taken
               /\ taken' = TRUE /\ registrant' = w
               /\ UNCHANGED <<owner, sealed, completed>>

\* Somebody registers a service of that name by other means.
OthersRegister == /\ ~taken /\ taken' = TRUE
                  /\ UNCHANGED <<owner, sealed, registrant, completed>>

Complete(w) == /\ Holds(w) /\ taken
               /\ completed' = completed \cup {w}
               /\ UNCHANGED <<owner, sealed, taken, registrant>>

Next == \/ \E w \in Scaffolds : Claim(w) \/ Register(w) \/ Complete(w)
        \/ Seal \/ OthersRegister

Spec == Init /\ [][Next]_vars
=============================================================================
