------------------------------ MODULE CallBounds ------------------------------
(***************************************************************************)
(* What a call and its playback tasks have in common: how many finals are  *)
(* recognised, each of which may be answered by an utterance of its own,   *)
(* and how many chunks of audio an utterance has.                          *)
(***************************************************************************)
EXTENDS Integers

CONSTANTS MaxFinals,  \* final transcripts in a call (bound for TLC)
          Chunks      \* audio chunks of an utterance

ASSUME BoundsAssumption == MaxFinals \in Nat /\ Chunks \in Nat \ {0}
=============================================================================
