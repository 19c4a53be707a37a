-------------------------- MODULE MCLocalExecution --------------------------
(* Instances of LocalExecution for TLC.                                    *)
EXTENDS LocalExecution, TLC

Threads == Permutations(Requests)
=============================================================================
