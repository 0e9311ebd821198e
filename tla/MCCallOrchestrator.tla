-------------------------- MODULE MCCallOrchestrator --------------------------
(***************************************************************************)
(* CallOrchestrator for TLC: a call of two turns with a partial transcript *)
(* anywhere between them.                                                  *)
(***************************************************************************)
EXTENDS CallOrchestrator
=============================================================================
