------------------------------ MODULE MCCallGate ------------------------------
(***************************************************************************)
(* CallGate for TLC: more handlers than slots, so that the gate fills up,  *)
(* several handlers queue, and permits come back while a granted handler   *)
(* has not run yet.                                                        *)
(***************************************************************************)
EXTENDS CallGate
=============================================================================
