------------------------------- MODULE MCLabs -------------------------------
(* An instance of Labs for TLC. *)
EXTENDS Labs

\* No file, files whose size two digits can and cannot say, and files of one to three chunks.
SomeSizes == {Missing, 0, 5, 99, 100, 1399, 2799, 4000}
=============================================================================
