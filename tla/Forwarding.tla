----------------------------- MODULE Forwarding -----------------------------
(***************************************************************************)
(* What a router promises of the packets it receives: each has one fate.   *)
(* It is dropped, answered or forwarded at once, or it waits and is        *)
(* forwarded later; nothing is undone, and nothing happens twice.          *)
(***************************************************************************)

CONSTANT Packet

VARIABLE fate

Fate == {"new", "waiting", "forwarded", "answered", "dropped"}

Init == fate = [p \in Packet |-> "new"]

Receive(p) == /\ fate[p] = "new"
              /\ \E f \in Fate \ {"new"} : fate' = [fate EXCEPT ![p] = f]

\* A reply came: any number of those that waited leave.
Release == \E ps \in SUBSET {p \in Packet : fate[p] = "waiting"} :
             fate' = [p \in Packet |-> IF p \in ps THEN "forwarded" ELSE fate[p]]

Next == Release \/ \E p \in Packet : Receive(p)

Spec == Init /\ [][Next]_fate
=============================================================================
