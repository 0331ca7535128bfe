--------------------------- MODULE SessionRegistry ---------------------------
(***************************************************************************)
(* What the broker of Teme/Tema2 promises about ids: at any time an id is  *)
(* held by at most one client, a client holds at most one id, and a client *)
(* keeps its id until it has left.                                         *)
(***************************************************************************)
CONSTANTS
  Name,            \* the ids
  Client,          \* those who may hold one
  Nobody           \* not a client

VARIABLES
  holder,          \* [Name -> Client or Nobody]
  left,            \* the clients that have left
  open             \* the service is running

vars == <<holder, left, open>>

Init == /\ holder = [n \in Name |-> Nobody]
        /\ left = {}
        /\ open = TRUE

Grant(n, c) == /\ open /\ holder[n] = Nobody
               /\ \A m \in Name : holder[m] # c
               /\ holder' = [holder EXCEPT ![n] = c]
               /\ UNCHANGED <<left, open>>

Leave(c) == /\ left' = left \cup {c}
            /\ UNCHANGED <<holder, open>>

Revoke(n) == /\ open /\ holder[n] \in left
             /\ holder' = [holder EXCEPT ![n] = Nobody]
             /\ UNCHANGED <<left, open>>

\* The service ends; it may end while it grants an id.
Stop == /\ open /\ open' = FALSE
        /\ UNCHANGED left
        /\ \/ UNCHANGED holder
           \/ \E n \in Name, c \in Client :
                /\ holder[n] = Nobody
                /\ \A m \in Name : holder[m] # c
                /\ holder' = [holder EXCEPT ![n] = c]

Next == \/ Stop
        \/ \E c \in Client : Leave(c)
        \/ \E n \in Name : Revoke(n) \/ \E c \in Client : Grant(n, c)

Spec == Init /\ [][Next]_vars

\* An id whose holder has left is free again, unless the service ends.
FairSpec == Spec /\ \A n \in Name : WF_vars(Revoke(n))
=============================================================================
