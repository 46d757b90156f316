---------------------------- MODULE MCWalletAuth ----------------------------
(* Constants for the runs of WalletAuth.                                     *)
EXTENDS WalletAuth, TLC

Symmetry == Permutations(Wallet)
=============================================================================
