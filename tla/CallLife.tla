------------------------------- MODULE CallLife -------------------------------
(***************************************************************************)
(* What the rest of the process may rely on in one call, whatever its      *)
(* tasks are doing: an orchestrator is started once, writes rows while it  *)
(* is live or its tasks are being joined, and is closed once.  The one row *)
(* that may come later is a greeting whose commit was cut by the reply     *)
(* that replaced its task: nobody awaits that task.                        *)
(*                                                                         *)
(* CallOrchestrator implements this module (ImplementsCallLife), and so    *)
(* does every call of MediaCalls (theorem CallsLiveTheirLives).            *)
(***************************************************************************)
EXTENDS Integers

VARIABLES phase,     \* where the call is in its life
          greeting,  \* the greeting's row: "unwritten", "loose", "written"
          spoken,    \* rows of turns written, the greeting's excepted
          used       \* rows of tool calls written

vars == <<phase, greeting, spoken, used>>

(***************************************************************************)
(* none      not started                                                   *)
(* starting  in start(), connecting to the recogniser                      *)
(* creating  in start(), committing the session row                        *)
(* live      start() has returned                                          *)
(* aborting  in stop() after start() has raised: there are no tasks        *)
(* joining   in stop(), awaiting the tasks it has cancelled                *)
(* closing   in stop(), after the tasks                                    *)
(* done      stop() has returned, or raised                                *)
(* lost      the process went down under the call                          *)
(***************************************************************************)
Phases == {"none", "starting", "creating", "live", "aborting",
           "joining", "closing", "done", "lost"}

Talking == {"live", "joining"}

Init ==
    /\ phase \in {"none", "starting"}
    /\ greeting = "unwritten"
    /\ spoken = 0 /\ used = 0

Progress ==
    /\ \/ phase = "none"     /\ phase' = "starting"
       \/ phase = "starting" /\ phase' \in {"creating", "aborting"}
       \/ phase = "creating" /\ phase' \in {"live", "aborting"}
       \/ phase = "live"     /\ phase' = "joining"
       \/ phase \in {"aborting", "joining"} /\ phase' = "closing"
       \/ phase = "closing"  /\ phase' = "done"
       \/ phase' = "lost"
    /\ UNCHANGED <<greeting, spoken, used>>

\* A row of the conversation, or of one of its tools.
WriteRow ==
    /\ phase \in Talking
    /\ \/ spoken' = spoken + 1 /\ UNCHANGED used
       \/ used' = used + 1 /\ UNCHANGED spoken
    /\ UNCHANGED <<phase, greeting>>

\* A reply replaces the greeting's task while its commit is on the way.
CutGreeting ==
    /\ phase = "live" /\ greeting = "unwritten"
    /\ greeting' = "loose"
    /\ UNCHANGED <<phase, spoken, used>>

\* The greeting's row is written in time; a commit that was cut is written
\* at any time, or never.
SettleGreeting ==
    /\ \/ phase \in Talking /\ greeting = "unwritten"
             /\ greeting' = "written"
       \/ greeting = "loose" /\ greeting' \in {"written", "unwritten"}
    /\ UNCHANGED <<phase, spoken, used>>

Next == Progress \/ WriteRow \/ CutGreeting \/ SettleGreeting

Spec == Init /\ [][Next]_vars
=============================================================================
