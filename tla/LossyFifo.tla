----------------------------- MODULE LossyFifo -----------------------------
(***************************************************************************)
(* What the link of link_emulator promises in the direction it emulates:   *)
(* numbered messages enter in the order they were sent, intact or not, some*)
(* not at all; they come out in that order, none twice; the one at the far *)
(* end may be lost when nobody is there.                                   *)
(***************************************************************************)
EXTENDS Naturals, Sequences

CONSTANT Message   \* what may come out: [n : ..., bad : BOOLEAN]

VARIABLES
  inside,          \* Seq(Message): the messages in the link, oldest first
  got,             \* Seq(Message): the messages that came out
  open             \* the link is running

vars == <<inside, got, open>>

Init == inside = << >> /\ got = << >> /\ open = TRUE

\* x was sent after all that has entered and not been lost.
Newest(x) == /\ \A j \in DOMAIN inside : inside[j].n < x.n
             /\ \A j \in DOMAIN got : got[j].n < x.n

Enter(x) == /\ open /\ Newest(x)
            /\ inside' = Append(inside, x)
            /\ UNCHANGED <<got, open>>

Deliver == /\ open /\ inside # << >>
           /\ inside' = Tail(inside)
           /\ got' = Append(got, Head(inside))
           /\ UNCHANGED open

Lose == /\ open /\ inside # << >>
        /\ inside' = Tail(inside)
        /\ UNCHANGED <<got, open>>

Stop == open' = FALSE /\ UNCHANGED <<inside, got>>

Next == \/ \E x \in Message : Enter(x)
        \/ Deliver \/ Lose \/ Stop

Spec == Init /\ [][Next]_vars

\* What entered comes out or is lost, unless the link stops.
FairSpec == Spec /\ WF_vars(Deliver \/ Lose)
=============================================================================
