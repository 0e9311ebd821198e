---------------------------- MODULE CallAdmission ----------------------------
(***************************************************************************)
(* How callers reach the call gate: app/routers/twilio.py (incoming_call,  *)
(* media_stream) and app/routers/webrtc.py (signaling), over CallGate.     *)
(*                                                                         *)
(* A Twilio call arrives twice: as a webhook, answered from a look at the  *)
(* counter, and later as a WebSocket that takes its slot with slot().      *)
(* Nothing is reserved in between.  A browser comes with a WebSocket only, *)
(* and takes its slot with try_acquire_nowait().                           *)
(***************************************************************************)
EXTENDS Integers, Sequences, FiniteSets

CONSTANTS Callers,    \* phones
          Browsers,   \* WebRTC clients
          MaxCalls    \* settings.max_concurrent_calls

ASSUME AdmissionAssumption ==
    /\ Callers \cap Browsers = {}
    /\ MaxCalls \in Nat \ {0}

Handlers == Callers \cup Browsers

VARIABLES value, active, waiters, pc,  \* CallGate
          phone                        \* what each client experiences

Gate == INSTANCE CallGate

gateVars == <<value, active, waiters, pc>>
vars == <<value, active, waiters, pc, phone>>

(***************************************************************************)
(* away        no call                                                     *)
(* admitted    was answered with <Connect><Stream>, not streaming yet      *)
(* turnedAway  was told to try again (busy TwiML, or close code 1013)      *)
(* online      its WebSocket is accepted                                   *)
(* hungUp      it has gone, and its handler has not noticed yet            *)
(***************************************************************************)
Phases == {"away", "admitted", "turnedAway", "online", "hungUp"}

Init == Gate!Init /\ phone = [c \in Handlers |-> "away"]

Becomes(c, phase) == phone' = [phone EXCEPT ![c] = phase]

-----------------------------------------------------------------------------
\* Fault: the pre-check is off by one.
FullOffByOne == active >= MaxCalls - 1

\* The pre-check of incoming_call().
Full == active >= MaxCalls

\* POST /voice/incoming.
Incoming(c) ==
    /\ c \in Callers
    /\ phone[c] = "away" /\ pc[c] = "idle"
    /\ Becomes(c, IF Full THEN "turnedAway" ELSE "admitted")
    /\ UNCHANGED gateVars

\* WS /voice/stream: the socket is accepted, then slot() is entered or waits.
StreamOpens(c) ==
    /\ phone[c] = "admitted"
    /\ Becomes(c, "online")
    /\ Gate!SlotEnter(c) \/ Gate!SlotWait(c)

\* WS /webrtc/signal.
Signal(c) ==
    /\ c \in Browsers
    /\ phone[c] = "away" /\ pc[c] = "idle"
    /\ IF Gate!Refuses
         THEN Becomes(c, "turnedAway") /\ UNCHANGED gateVars
         ELSE Becomes(c, "online") /\ Gate!TryAcquire(c)

\* The caller goes.  Only a handler that runs the call receives from the
\* socket: one that waits in slot() does not notice.
HangsUp(c) ==
    /\ phone[c] \in {"admitted", "turnedAway", "online"}
    /\ Becomes(c, IF phone[c] = "online" THEN "hungUp" ELSE "away")
    /\ UNCHANGED gateVars

\* The event loop runs a handler inside the gate's own code.
GateRuns(c) ==
    /\ Gate!SlotResume(c) \/ Gate!SlotUnwind(c)
    /\ IF pc[c] = "granted" THEN UNCHANGED phone ELSE Becomes(c, "away")

\* The server takes a waiting handler down.
ServerCancels(c) ==
    /\ Gate!SlotCancel(c)
    /\ UNCHANGED phone

\* Fault: release() sits after the call instead of in a finally block.
CallEndsWithoutRelease(c) ==
    /\ phone[c] \in {"online", "hungUp"}
    /\ pc[c] = "reserved"
    /\ pc' = [pc EXCEPT ![c] = "idle"]
    /\ Becomes(c, "away")
    /\ UNCHANGED <<value, active, waiters>>

\* Fault: a disconnect is not noticed.
CallEndsIfOnline(c) ==
    /\ phone[c] = "online"
    /\ Becomes(c, "away")
    /\ Gate!SlotExit(c) \/ Gate!Release(c)

\* The call is over, by the caller's hanging up or from this side: the
\* handler leaves through slot()'s exit, or release() in its finally block.
CallEnds(c) ==
    /\ phone[c] \in {"online", "hungUp"}
    /\ Becomes(c, "away")
    /\ Gate!SlotExit(c) \/ Gate!Release(c)

Step(c) ==
    \/ Incoming(c) \/ StreamOpens(c) \/ Signal(c) \/ HangsUp(c)
    \/ GateRuns(c) \/ ServerCancels(c) \/ CallEnds(c)

Next == \E c \in Handlers : Step(c)

Spec == Init /\ [][Next]_vars

\* The event loop runs every ready handler, and a call that is in progress
\* ends some day.
Fairness == \A c \in Handlers : WF_vars(GateRuns(c) \/ CallEnds(c))

FairSpec == Spec /\ Fairness

-----------------------------------------------------------------------------
(* Properties *)

TypeOK == Gate!TypeOK /\ phone \in [Handlers -> Phases]

\* The routers use the gate as it is meant to be used: acquire and release
\* are paired on every way out of a handler (twilio.py:100-104,
\* webrtc.py:35-47).
ImplementsGate == Gate!Spec

\* A handler is in the gate exactly while its client is on the line or has
\* gone unnoticed: when everyone is away every permit is back.
QuietMeansEmpty ==
    /\ \A c \in Handlers :
          pc[c] # "idle" <=> phone[c] \in {"online", "hungUp"}
    /\ (\A c \in Handlers : phone[c] = "away")
          => value = MaxCalls /\ active = 0

\* Nobody is turned away while there is room: a phone only when MaxCalls
\* calls are running, a browser only when they are or others are in line
\* before it (twilio.py:68-71, webrtc.py:35-39).
TurnedAwayOnlyWhenFull ==
    [][ \A c \in Handlers :
          phone[c] # "turnedAway" /\ phone'[c] = "turnedAway" =>
             \/ Cardinality(Gate!Holding) = MaxCalls
             \/ c \in Browsers
                  /\ Gate!In({"waiting", "granted", "revoked"}) # {} ]_vars

\* A caller who hung up while its handler waited for a slot keeps its place
\* in the queue, but not for ever: the handler gets the slot, finds the
\* socket closed, and leaves (twilio.py:97-104).
GhostsLeave ==
    \A c \in Handlers : phone[c] = "hungUp" ~> phone[c] # "hungUp"

\* twilio.py:10-11: "When the gate is full, we return TwiML that politely
\* ends the call."  A phone that was connected does not find itself waiting
\* in silence for a slot.
AdmittedIsServed == \A c \in Callers : phone[c] = "online" => pc[c] # "waiting"
=============================================================================
