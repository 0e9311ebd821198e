----------------------------- MODULE ClaudeTools -----------------------------
(***************************************************************************)
(* ClaudeAgent with what its tools do: ToolRegistry.execute() and the      *)
(* handlers of app/tools.  Only send_confirmation_sms ever suspends: the   *)
(* message goes out in a thread, which nobody can cancel.  The other two   *)
(* answer without a pause and have no effect; book_slot() keeps no         *)
(* bookings.                                                               *)
(*                                                                         *)
(* An SMS is known by the tool_use block that asks for it.                 *)
(***************************************************************************)
EXTENDS ClaudeAgent, Availability

CONSTANTS Dates,     \* days a window may start or end on
          Durations  \* duration_minutes

ASSUME ToolsAssumption == Dates \subseteq Int /\ Durations \subseteq Int

VARIABLES configured,  \* settings.twilio_configured
          output,      \* what the handler has returned for the next record
          threads,     \* SMS being sent by a thread
          reply,       \* what the awaited thread has come back with
          sent,        \* SMS that Twilio has accepted
          outputs,     \* what each record of result.tool_calls says
          filed        \* records of the turns that have returned

toolVars == <<configured, output, threads, reply, sent, outputs, filed>>
allVars == <<vars, toolVars>>

NoOutput == [kind |-> "none"]
Plain(kind) == [kind |-> kind]

\* What a record says about an SMS: an output of another kind says nothing.
Says(kind) == IF kind \in {"sent", "error"} THEN kind ELSE "nothing"

Record(use, word) == [use |-> use, says |-> word]

ToolInit ==
    /\ Init
    /\ configured \in BOOLEAN
    /\ output = NoOutput
    /\ threads = {}
    /\ reply = "none"
    /\ sent = {}
    /\ outputs = <<>>
    /\ filed = {}

-----------------------------------------------------------------------------
\* The handler of the next tool_use block is called.
Calling ==
    /\ pc = "executing"
    /\ output = NoOutput
    /\ Head(pending) \notin threads /\ reply = "none"

\* A name that is not registered, or a handler that raises on its arguments.
AnswerError ==
    /\ Calling
    /\ output' = Plain("error")
    /\ UNCHANGED <<vars, configured, threads, reply, sent, outputs, filed>>

CheckAvailability(from, to, duration) ==
    /\ Calling
    /\ output' = IF BadWindow(from, to)
                   THEN Plain("error")
                   ELSE [kind |-> "offer", from |-> from, to |-> to,
                         duration |-> duration,
                         slots |-> Slots(from, to, duration)]
    /\ UNCHANGED <<vars, configured, threads, reply, sent, outputs, filed>>

\* Any timestamp that can be read is confirmed, offered or not, taken or not.
BookSlot ==
    /\ Calling
    /\ output' = Plain("confirmed")
    /\ UNCHANGED <<vars, configured, threads, reply, sent, outputs, filed>>

SendSkipped ==
    /\ Calling /\ ~configured
    /\ output' = Plain("skipped")
    /\ UNCHANGED <<vars, configured, threads, reply, sent, outputs, filed>>

\* Fault: the thread is started and not awaited.
SendUnawaited ==
    /\ Calling /\ configured
    /\ threads' = threads \cup {Head(pending)}
    /\ output' = Plain("sent")
    /\ UNCHANGED <<vars, configured, reply, sent, outputs, filed>>

\* asyncio.to_thread(_send_sync, ...)
SendBegins ==
    /\ Calling /\ configured
    /\ threads' = threads \cup {Head(pending)}
    /\ UNCHANGED <<vars, configured, output, reply, sent, outputs, filed>>

Awaited(use) == pc = "executing" /\ use = Head(pending)

\* The thread ends.  Twilio has accepted the SMS and said so, or the client
\* raises: before anything was accepted, or with the answer lost.
ThreadEnds(use) ==
    /\ use \in threads
    /\ threads' = threads \ {use}
    /\ \E accepted \in BOOLEAN, result \in {"sent", "error"} :
          /\ result = "sent" => accepted
          /\ sent' = IF accepted THEN sent \cup {use} ELSE sent
          /\ reply' = IF Awaited(use) THEN result ELSE reply
    /\ UNCHANGED <<vars, configured, output, outputs, filed>>

\* The handler resumes with the sid, or with an exception that becomes an
\* error.
SendReturns ==
    /\ reply # "none" /\ pc = "executing"
    /\ output' = Plain(reply)
    /\ reply' = "none"
    /\ UNCHANGED <<vars, configured, threads, sent, outputs, filed>>

\* The output goes into the record of the turn and into a tool_result.
ToolReturns ==
    /\ output # NoOutput
    /\ Execute
    /\ outputs' = Append(outputs, Says(output.kind))
    /\ output' = NoOutput
    /\ UNCHANGED <<configured, threads, reply, sent, filed>>

-----------------------------------------------------------------------------
\* The rest of the turn.

ToolUserTurn ==
    /\ UserTurn
    /\ outputs' = <<>>
    /\ UNCHANGED <<configured, output, threads, reply, sent, filed>>

\* The records of a turn that returns are handed over.
ToolRespond(n, stop) ==
    /\ Len(messages) < MaxMessages /\ Respond(n, stop)
    /\ filed' = IF Returns(n, stop)
                  THEN filed \cup {Record(calls[i], outputs[i]) :
                                      i \in 1..Len(calls)}
                  ELSE filed
    /\ UNCHANGED <<configured, output, threads, reply, sent, outputs>>

\* The records of a turn that fails are dropped with it.
ToolRequestFails == RequestFails /\ UNCHANGED toolVars

\* A turn can be cancelled while it awaits the model or the thread.  The
\* thread goes on.
ToolTurnCancelled ==
    /\ TurnCancelled
    /\ pc = "executing" => Head(pending) \in threads \/ reply # "none"
    /\ output = NoOutput
    /\ UNCHANGED toolVars

ToolNext ==
    \/ AnswerError \/ BookSlot \/ SendSkipped \/ SendBegins
    \/ \E from, to \in Dates, duration \in Durations :
          CheckAvailability(from, to, duration)
    \/ \E use \in threads : ThreadEnds(use)
    \/ SendReturns \/ ToolReturns
    \/ ToolUserTurn
    \/ \E n \in 0..MaxUses, stop \in StopReasons : ToolRespond(n, stop)
    \/ ToolRequestFails \/ ToolTurnCancelled

ToolSpec == ToolInit /\ [][ToolNext]_allVars

-----------------------------------------------------------------------------
(* Properties *)

\* check_availability() offers every slot of the window in which the
\* appointment fits, the first and the last day included, and no other, in
\* the order of the calendar (check_availability.py:57-74).
OffersMatchCalendar ==
    output.kind = "offer" =>
        LET slots == output.slots
        IN /\ {slots[i] : i \in 1..Len(slots)} =
                 Bookable(output.from, output.to, output.duration)
           /\ \A i, j \in 1..Len(slots) : i < j => Earlier(slots[i], slots[j])

\* What the refusal of a wider window says: the window of an offer cannot
\* exceed fourteen days, both dates included (check_availability.py:55, and
\* "(inclusive)" at lines 28 and 33).
WindowWithinFourteenDays ==
    output.kind = "offer" => Cardinality(output.from..output.to) <= 14

\* The SMS that went out and the records agree.  When a turn has returned no
\* thread is left, and every SMS sent so far has a record that says it was
\* sent or that something went wrong; a record that says so never lies.  An
\* SMS without a record is one whose turn was cancelled or failed, and only
\* one of those can go out when nobody listens any more
\* (send_confirmation.py:54-64, llm_claude.py:185-195, orchestrator.py:151-158).
SentAgreesWithRecords ==
    /\ pc \in {"idle", "returned"} =>
          /\ threads = {}
          /\ \A use \in sent :
                \E r \in filed : r.use = use /\ r.says \in {"sent", "error"}
    /\ \A r \in filed : r.says = "sent" => r.use \in sent
    /\ \A a, b \in threads : a = b
=============================================================================
