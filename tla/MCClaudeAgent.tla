---------------------------- MODULE MCClaudeAgent ----------------------------
(***************************************************************************)
(* ClaudeTools, and with it ClaudeAgent, for TLC: histories of up to seven *)
(* messages, so that several tool rounds and several turns follow each     *)
(* other, with two tools a round.                                          *)
(***************************************************************************)
EXTENDS ClaudeTools
=============================================================================
