----------------------------- MODULE MCPasskeys -----------------------------
(* Constants for the runs of Passkeys.                                       *)
EXTENDS Passkeys, TLC

MCLifetimes == {0, 1, 3}
Symmetry == Permutations(Registration) \cup Permutations(Assertion)
=============================================================================
