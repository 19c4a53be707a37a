--------------------------- MODULE MCOrchestrator ---------------------------
(* Orchestrator for TLC: the retry limits of the code, short conversations. *)
EXTENDS Orchestrator
=============================================================================
