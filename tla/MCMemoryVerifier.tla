-------------------------- MODULE MCMemoryVerifier --------------------------
(* Constants for the run of MemoryVerifier: a challenge that has expired on  *)
(* arrival or lives two instants.                                            *)
EXTENDS MemoryVerifier

MCLifetimes == {0, 2}
=============================================================================
