--------------------------- MODULE MCHttpSession ---------------------------
(* An instance of HttpSession for TLC. *)
EXTENDS HttpSession

CONSTANTS ana, emma, terror

\* "7" and "007".
SevenTwice == {[chars |-> 1, digits |-> 1], [chars |-> 3, digits |-> 1]}
=============================================================================
