----------------------------- MODULE MCMediaCalls -----------------------------
(***************************************************************************)
(* MediaCalls for TLC: two sockets that may use one call_sid or two, each  *)
(* with a second start frame, a restart of the process and a failure of    *)
(* the database anywhere.                                                  *)
(***************************************************************************)
EXTENDS MediaCalls
=============================================================================
