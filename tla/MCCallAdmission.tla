--------------------------- MODULE MCCallAdmission ---------------------------
(***************************************************************************)
(* CallAdmission for TLC: more phones than slots, and a browser that takes *)
(* its slot by the other entry.                                            *)
(***************************************************************************)
EXTENDS CallAdmission
=============================================================================
