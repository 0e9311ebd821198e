------------------------------ MODULE MediaCalls ------------------------------
(***************************************************************************)
(* The process around its calls: app/main.py (lifespan), the frame loops   *)
(* of app/routers/twilio.py and webrtc.py, and the orchestrators they make *)
(* over the session store.                                                 *)
(*                                                                         *)
(* A socket is one connection that has its slot of the gate.  Calls are    *)
(* numbered in the order of their start frames.  Of a call, only what      *)
(* CallLife promises is kept, with the greeting that is written in time    *)
(* among the turns.  Frames that change nothing are left out: audio that   *)
(* is taken, marks, and text that is no JSON.                              *)
(***************************************************************************)
EXTENDS Integers, Sequences

CONSTANTS Sockets,    \* connections
          Sids,       \* call_sid of Twilio, session_id of a browser
          NoSid,      \* a call that was never started has none
          MaxCalls,   \* start frames (bound for TLC)
          MaxRows,    \* rows of a call, a late greeting aside (bound for TLC)
          MaxBoots,   \* starts of the process (bound for TLC)
          MaxFaults   \* failures of the database (bound for TLC)

Calls  == 1..MaxCalls
NoCall == 0

ASSUME MediaAssumption ==
    /\ NoSid \notin Sids
    /\ MaxCalls \in Nat /\ MaxRows \in Nat
    /\ MaxBoots \in Nat /\ MaxFaults \in Nat

VARIABLES engine, creator, ended, turns, toolCalls, answer  \* SessionStore
VARIABLES process,   \* "down", "serving", "draining", "disposed"
          boots,     \* starts of the process so far
          faults,    \* failures of the database so far
          loop,      \* the frame loop of each socket
          made,      \* calls made so far
          latest,    \* the local variable `orchestrator` of each loop
          sidOf,     \* the call_sid of each call
          phase, greeting, spoken, used  \* CallLife, for each call

Store == INSTANCE SessionStore

\* The life of one call, as CallOrchestrator implements it.
Life(c) == INSTANCE CallLife WITH phase <- phase[c], greeting <- greeting[c],
                                  spoken <- spoken[c], used <- used[c]

tables      == <<creator, ended, turns, toolCalls>>
storeVars   == <<engine, tables, answer>>
processVars == <<process, boots>>
socketVars  == <<made, latest, sidOf>>
callVars    == <<phase, greeting, spoken, used>>
vars == <<storeVars, processVars, faults, loop, socketVars, callVars>>

(***************************************************************************)
(* none       not connected yet                                            *)
(* receiving  in ws.receive_text()                                         *)
(* starting   in orchestrator.start()                                      *)
(* leaving    in the finally block, in orchestrator.stop()                 *)
(* gone       the handler has returned                                     *)
(***************************************************************************)
LoopStates == {"none", "receiving", "starting", "leaving", "gone"}

Init ==
    /\ Store!Init
    /\ process = "down" /\ boots = 0 /\ faults = 0
    /\ loop = [h \in Sockets |-> "none"]
    /\ made = 0
    /\ latest = [h \in Sockets |-> NoCall]
    /\ sidOf = [c \in Calls |-> NoSid]
    /\ phase = [c \in Calls |-> "none"]
    /\ greeting = [c \in Calls |-> "unwritten"]
    /\ spoken = [c \in Calls |-> 0]
    /\ used = [c \in Calls |-> 0]

-----------------------------------------------------------------------------
(* The life of the process *)

\* lifespan() up to its yield.  Nothing is done about the sessions that an
\* earlier life of the process has left open.
Boot ==
    /\ process = "down" /\ boots < MaxBoots
    /\ process' = "serving" /\ boots' = boots + 1
    /\ engine' = TRUE
    /\ UNCHANGED <<tables, answer, faults, loop, socketVars, callVars>>

\* The server is told to stop: it accepts nobody, and every receive_text()
\* raises from now on.
Drain ==
    /\ process = "serving"
    /\ process' = "draining"
    /\ UNCHANGED <<storeVars, boots, faults, loop, socketVars, callVars>>

\* Fault: the engine is disposed of before the handlers have left.
DisposeFirst ==
    /\ process = "draining"
    /\ process' = "disposed"
    /\ engine' = FALSE
    /\ UNCHANGED <<tables, answer, boots, faults, loop, socketVars,
                   callVars>>

\* When all its handlers have returned the server resumes lifespan(), which
\* disposes of the engine.
Dispose ==
    /\ process = "draining"
    /\ \A h \in Sockets : loop[h] \in {"none", "gone"}
    /\ answer.step \in {"idle", "sent"}
    /\ process' = "disposed"
    /\ engine' = FALSE
    /\ UNCHANGED <<tables, answer, boots, faults, loop, socketVars,
                   callVars>>

\* The process exits after dispose_engine(), or dies before it: of all it
\* held, the tables are left.
GoDown ==
    /\ process # "down"
    /\ process' = "down"
    /\ engine' = FALSE
    /\ answer' = Store!NoAnswer
    /\ loop' = [h \in Sockets |-> IF loop[h] = "none" THEN "none" ELSE "gone"]
    /\ phase' = [c \in Calls |->
                   IF phase[c] \in {"none", "done"} THEN phase[c] ELSE "lost"]
    /\ UNCHANGED <<tables, boots, faults, socketVars, greeting, spoken,
                   used>>

-----------------------------------------------------------------------------
(* The frame loops: _run_media_stream(), _run_signaling() *)

Goes(h, from, to) == loop[h] = from /\ loop' = [loop EXCEPT ![h] = to]

Becomes(c, from, to) ==
    phase[c] = from /\ phase' = [phase EXCEPT ![c] = to]

\* The socket is accepted, with a slot of the gate.
Accept(h) ==
    /\ process = "serving"
    /\ Goes(h, "none", "receiving")
    /\ UNCHANGED <<storeVars, processVars, faults, socketVars, callVars>>

\* A start frame makes an orchestrator.  One that an earlier start frame of
\* the socket has made is dropped as it is.
StartFrame(h, s) ==
    /\ process = "serving"
    /\ made < MaxCalls
    /\ Goes(h, "receiving", "starting")
    /\ made' = made + 1
    /\ latest' = [latest EXCEPT ![h] = made']
    /\ sidOf' = [sidOf EXCEPT ![made'] = s]
    /\ Becomes(made', "none", "starting")
    /\ UNCHANGED <<storeVars, processVars, faults, greeting, spoken, used>>

\* start(): connected to the recogniser.
StartConnects(h) ==
    /\ loop[h] = "starting"
    /\ Becomes(latest[h], "starting", "creating")
    /\ UNCHANGED <<storeVars, processVars, faults, loop, socketVars,
                   greeting, spoken, used>>

\* start(): the session row is committed and the tasks are created.
StartCreates(h) ==
    /\ Goes(h, "starting", "receiving")
    /\ Becomes(latest[h], "creating", "live")
    /\ Store!Create(sidOf[latest[h]], latest[h])
    /\ UNCHANGED <<processVars, faults, socketVars, greeting, spoken, used>>

\* start() raises: the recogniser cannot be reached, the session is known
\* already, or the database fails, with or without the row committed.
StartRaises(h) ==
    /\ Goes(h, "starting", "leaving")
    /\ phase' = [phase EXCEPT ![latest[h]] = "aborting"]
    /\ \/ /\ phase[latest[h]] = "starting"
          /\ UNCHANGED <<storeVars, faults>>
       \/ /\ phase[latest[h]] = "creating"
          /\ ~Store!Open \/ Store!Known(sidOf[latest[h]])
          /\ UNCHANGED <<storeVars, faults>>
       \/ /\ phase[latest[h]] = "creating"
          /\ faults < MaxFaults /\ faults' = faults + 1
          /\ \/ Store!Create(sidOf[latest[h]], latest[h])
             \/ UNCHANGED storeVars
    /\ UNCHANGED <<processVars, socketVars, greeting, spoken, used>>

\* The loop ends: a stop frame, a disconnect, an object that is no frame, or
\* audio that on_audio_frame() cannot take.  stop() begins, if there is
\* anything to stop.
LoopEnds(h) ==
    /\ Goes(h, "receiving", IF latest[h] = NoCall THEN "gone" ELSE "leaving")
    /\ IF latest[h] = NoCall THEN UNCHANGED phase
                        ELSE Becomes(latest[h], "live", "joining")
    /\ UNCHANGED <<storeVars, processVars, faults, socketVars, greeting,
                   spoken, used>>

\* Fault: stop() cannot do without the tasks that a failed start() has not made.
StopJoinsTasks(h) ==
    /\ loop[h] = "leaving"
    /\ Becomes(latest[h], "joining", "closing")
    /\ UNCHANGED <<storeVars, processVars, faults, loop, socketVars, greeting,
                   spoken, used>>

\* stop(): the tasks have ended, if there were any.
StopJoins(h) ==
    /\ loop[h] = "leaving"
    /\ \/ Becomes(latest[h], "joining", "closing")
       \/ Becomes(latest[h], "aborting", "closing")
    /\ UNCHANGED <<storeVars, processVars, faults, loop, socketVars,
                   greeting, spoken, used>>

\* stop(): mark_ended(), which raises when the database fails, with or
\* without the mark committed.
StopMarks(h) ==
    /\ Goes(h, "leaving", "gone")
    /\ Becomes(latest[h], "closing", "done")
    /\ \/ /\ Store!MarkEnded(sidOf[latest[h]], latest[h])
          /\ UNCHANGED faults
       \/ /\ ~Store!Open
          /\ UNCHANGED <<storeVars, faults>>
       \/ /\ faults < MaxFaults /\ faults' = faults + 1
          /\ \/ Store!MarkEnded(sidOf[latest[h]], latest[h])
             \/ UNCHANGED storeVars
    /\ UNCHANGED <<processVars, socketVars, greeting, spoken, used>>

-----------------------------------------------------------------------------
(* The tasks of the calls, as far as they reach the tables *)

Up == process # "down"

Talking(c) == Up /\ phase[c] \in {"live", "joining"}

SaveTurn(c) ==
    /\ Talking(c) /\ spoken[c] + used[c] < MaxRows
    /\ spoken' = [spoken EXCEPT ![c] = @ + 1]
    /\ Store!AddTurn(sidOf[c], Store!Turn(c))
    /\ UNCHANGED <<processVars, faults, loop, socketVars, phase, greeting,
                   used>>

SaveToolCall(c) ==
    /\ Talking(c) /\ spoken[c] + used[c] < MaxRows
    /\ used' = [used EXCEPT ![c] = @ + 1]
    /\ Store!AddToolCall(sidOf[c], c)
    /\ UNCHANGED <<processVars, faults, loop, socketVars, phase, greeting,
                   spoken>>

\* A reply cuts the greeting's commit short.
CutGreeting(c) ==
    /\ Up /\ phase[c] = "live" /\ greeting[c] = "unwritten" /\ spoken[c] > 0
    /\ greeting' = [greeting EXCEPT ![c] = "loose"]
    /\ UNCHANGED <<storeVars, processVars, faults, loop, socketVars,
                   phase, spoken, used>>

\* The commit that was cut reaches the database all the same.
LateGreeting(c) ==
    /\ Up /\ greeting[c] = "loose"
    /\ greeting' = [greeting EXCEPT ![c] = "written"]
    /\ Store!AddTurn(sidOf[c], Store!Greeting(c))
    /\ UNCHANGED <<processVars, faults, loop, socketVars, phase, spoken, used>>

\* GET /sessions/{call_sid}.
Ask ==
    /\ Up
    /\ Store!Get
    /\ UNCHANGED <<processVars, faults, loop, socketVars, callVars>>

-----------------------------------------------------------------------------
HandlerRuns(h) ==
    \/ StartConnects(h) \/ StartCreates(h) \/ StartRaises(h)
    \/ StopJoins(h) \/ StopMarks(h)

CallRuns(c) ==
    SaveTurn(c) \/ SaveToolCall(c) \/ CutGreeting(c) \/ LateGreeting(c)

Next ==
    \/ Boot \/ Drain \/ Dispose \/ GoDown
    \/ \E h \in Sockets :
          \/ Accept(h) \/ \E s \in Sids : StartFrame(h, s)
          \/ HandlerRuns(h) \/ LoopEnds(h)
    \/ \E c \in Calls : CallRuns(c)
    \/ Ask

Spec == Init /\ [][Next]_vars

\* The event loop runs every handler that is ready, and what a handler
\* awaits ends: connecting in 5 s, the cancelled tasks (SessionEnds of
\* CallOrchestrator), the database.  A server that drains closes the sockets.
\* Nobody else is obliged to hang up, and the process may die at any time.
Fairness ==
    \A h \in Sockets :
        /\ WF_vars(HandlerRuns(h))
        /\ WF_vars(process = "draining" /\ LoopEnds(h))

FairSpec == Spec /\ Fairness

-----------------------------------------------------------------------------
(* Properties *)

TypeOK ==
    /\ Store!StoreTypeOK
    /\ process \in {"down", "serving", "draining", "disposed"}
    /\ boots \in 0..MaxBoots
    /\ faults \in 0..MaxFaults
    /\ loop \in [Sockets -> LoopStates]
    /\ made \in 0..MaxCalls
    /\ latest \in [Sockets -> 0..MaxCalls]
    /\ sidOf \in [Calls -> Sids \cup {NoSid}]
    /\ phase \in [Calls -> {"none", "starting", "creating", "live",
                            "aborting", "joining", "closing", "done", "lost"}]
    /\ greeting \in [Calls -> {"unwritten", "loose", "written"}]
    /\ spoken \in [Calls -> 0..MaxRows]
    /\ used \in [Calls -> 0..MaxRows]

\* A transcript is one conversation: whoever else uses the call_sid, at the
\* same time, on the same socket or after a restart, every turn and tool call
\* of a session was written by the call that created it (repositories.py:19-67,
\* models.py:20).
TranscriptHasOneAuthor ==
    \A s \in Sids :
        /\ \A i \in 1..Len(turns[s]) : turns[s][i].by = creator[s]
        /\ \A i \in 1..Len(toolCalls[s]) : toolCalls[s][i] = creator[s]

\* A session that shows an end although its call goes on was ended by a
\* namesake, whose start() had failed; no other call can end it, and none is
\* ended by its own call before that has joined its tasks
\* (repositories.py:25-31, orchestrator.py:111-122).
EndedEarlyOnlyByNamesake ==
    \A s \in Sids : ended[s] # NoCall =>
        /\ sidOf[ended[s]] = s
        /\ phase[ended[s]] \in {"done", "lost"}
        /\ ended[s] # creator[s] => spoken[ended[s]] = 0 /\ used[ended[s]] = 0

\* While the database works a session stays open only as long as the handler
\* of its call is there.  Two things leave it open for good: the process goes
\* down under it, or its socket makes another call (orchestrator.py:101-122,
\* twilio.py:120-150, main.py:33-36).
OpenOnlyWhileServed ==
    faults = 0 =>
        \A s \in Sids : creator[s] # NoCall /\ ended[s] = NoCall =>
            \/ phase[creator[s]] = "lost"
            \/ \A h \in Sockets :
                  latest[h] = creator[s] => loop[h] \in {"receiving", "leaving"}

\* An answer of the session API that shows the end its own call has set
\* shows the whole conversation, although it was read in three steps: only a
\* greeting that was cut can still be missing (repositories.py:69-78).
EndedAnswerIsComplete ==
    answer.step = "sent" /\ answer.ended = answer.creator =>
        LET told == answer.turns
            all  == turns[answer.sid]
        IN /\ Len(told) <= Len(all)
           /\ \A i \in 1..Len(told) : told[i] = all[i]
           /\ \A i \in Len(told) + 1..Len(all) : all[i].greeting
           /\ answer.toolCalls = toolCalls[answer.sid]

\* A handler that has left its loop stops its call and returns, and with a
\* working database the session of that call is then ended, unless the
\* process goes down first (twilio.py:148-150).
LeavingEndsTheSession ==
    \A h \in Sockets, s \in Sids :
        loop[h] = "leaving" /\ creator[s] = latest[h]
            ~> loop[h] = "gone"
                 /\ (ended[s] # NoCall \/ process = "down" \/ faults > 0)
=============================================================================
