------------------------------ MODULE MCWallet ------------------------------
(* An instance of Wallet for TLC. *)
EXTENDS Wallet, TLC

CONSTANTS c1, c2, c3, A, B

\* A client and two more that are started with its id, or one with its own.
TwoIds == c1 :> A @@ c2 :> A @@ c3 :> B

LossAndGain == {-1, 2}
=============================================================================
