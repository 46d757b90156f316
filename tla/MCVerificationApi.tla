-------------------------- MODULE MCVerificationApi --------------------------
(* Constants for the runs of VerificationApi.                                *)
EXTENDS VerificationApi, TLC

Decisions == {"Approved", "Declined"}
Symmetry == Permutations(Delivery) \cup Permutations(User)
=============================================================================
