------------------------------ MODULE MCPubSub ------------------------------
(* Instances of PubSub for TLC. *)
EXTENDS PubSub, TLC

CONSTANTS p1, p2, A, B

\* subscribe typed without SF: it is what the stack held.
NotTyped == {NoSF}

\* A client and its restart, or its double.
OneId == p1 :> A @@ p2 :> A
\* Two clients.
Distinct == p1 :> A @@ p2 :> B
=============================================================================
