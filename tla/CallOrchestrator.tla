--------------------------- MODULE CallOrchestrator ---------------------------
(***************************************************************************)
(* app/pipeline/orchestrator.py: one call.  Three tasks share it: the      *)
(* WebSocket handler (start, on_audio_frame, stop), the STT consumer       *)
(* (_consume_transcripts, _handle_user_turn) and the playback tasks        *)
(* (module Playback), fed by the speech-to-text stream (module             *)
(* DeepgramStream) and writing to the call's rows in the database.         *)
(*                                                                         *)
(* An action is the code of one task between two awaits, or a piece of it  *)
(* during which no other task moves (LoopIsFree).  A task that is          *)
(* cancelled takes no further step of its own: when it next runs, it       *)
(* unwinds, and a commit it was awaiting has reached the database or not.  *)
(* So has a commit that raises.                                            *)
(***************************************************************************)
EXTENDS CallBounds, Sequences, FiniteSets

CONSTANTS MaxPartials, \* partial transcripts in a call (bound for TLC)
          MaxTools,    \* tools run in a turn (bound for TLC)
          MayFail      \* the services that may fail: "stt" "db" "llm" "tts"

ASSUME OrchestratorAssumption ==
    /\ MaxPartials \in Nat
    /\ MaxTools \in Nat
    /\ MayFail \subseteq {"stt", "db", "llm", "tts"}

VARIABLES ws, reader, closed, queue, poll, closing  \* DeepgramStream
VARIABLES current, play, doomed, chunks             \* Playback
VARIABLES call,      \* the handler: where it is in start() or stop()
          consumer,  \* the STT consumer task
          cut,       \* stop() has cancelled the consumer
          turn,      \* the final transcript the consumer works on
          tools,     \* tools run in this turn and not yet in the database
          session,   \* the call_sessions row: "none", "open", "ended"
          rows,      \* turns and tool calls, in the order of their commits
          said,      \* final transcripts recognised so far
          partials   \* partial transcripts recognised so far

BARGE_IN_MIN_CHARS == 3

\* A text as the queue holds it: a final is known by its number, a partial
\* by its length, which is below or at the threshold ("no", "yes").
Final(n)       == [final |-> TRUE, n |-> n, len |-> 0]
Partial(len)   == [final |-> FALSE, n |-> 0, len |-> len]
PartialLengths == {BARGE_IN_MIN_CHARS - 1, BARGE_IN_MIN_CHARS}

Transcripts == {Final(n) : n \in 1..MaxFinals}
                 \cup {Partial(len) : len \in PartialLengths}

Stt == INSTANCE DeepgramStream
          WITH Texts <- Transcripts, QueueBound <- MaxFinals + MaxPartials
Tts == INSTANCE Playback

sttVars      == <<ws, reader, closed, queue, poll, closing>>
ttsVars      == <<current, play, doomed, chunks>>
handlerVars  == <<call, session>>
consumerVars == <<consumer, cut, turn, tools>>
spokenVars   == <<said, partials>>
vars == <<sttVars, ttsVars, handlerVars, consumerVars, rows, spokenVars>>

(***************************************************************************)
(* call:     starting (in stt.connect), creating (in the commit of the     *)
(*           row), live, joining (stop() awaits the tasks), closing        *)
(*           (stt.close, tts.aclose, mark_ended), done                     *)
(* consumer: none, listening (in transcripts()), saving_user, thinking     *)
(*           (in run_turn), saving_reply, saving_tools, replying (rows     *)
(*           written, the database session being closed), dead (raised),   *)
(*           ended (the stream closed), cancelled                          *)
(***************************************************************************)
Working  == {"saving_user", "thinking", "saving_reply", "saving_tools",
             "replying"}
Alive    == Working \cup {"listening"}
Gone     == {"none", "dead", "ended", "cancelled"}
Started  == {"starting", "creating", "live"}

UserRow(n)  == <<"user", n>>
ReplyRow(n) == <<"assistant", n>>
ToolRow(n)  == <<"tool", n>>
GreetingRow == ReplyRow(Tts!Greeting)

\* A text is handled, or a reply started, and the next text asked for, in
\* one go: `await wait_for(queue.get())` gives way to the other tasks only
\* when the queue is empty.  Between its texts the consumer has the event
\* loop, and no other task moves.
LoopIsFree == ~(consumer = "listening" /\ poll = "yielded")

Init ==
    /\ Stt!Init
    /\ Tts!Init
    /\ call = "starting" /\ session = "none"
    /\ consumer = "none" /\ cut = FALSE /\ turn = 0 /\ tools = 0
    /\ rows = <<>>
    /\ said = 0 /\ partials = 0

-----------------------------------------------------------------------------
(* The WebSocket handler *)

\* Fault: the consumer is not cancelled.
StoppingStillListening ==
    /\ Tts!CancelSpeak
    /\ call' = "joining"
    /\ UNCHANGED <<consumerVars, rows, spokenVars>>

\* stop() up to its first await: playback and consumer are cancelled.
Stopping ==
    /\ Tts!CancelSpeak
    /\ cut' = (consumer \in Alive)
    /\ call' = "joining"
    /\ UNCHANGED <<consumer, turn, tools, rows, spokenVars>>

\* start(): the speech-to-text connection.
StartConnect ==
    /\ call = "starting"
    /\ Stt!Connect
    /\ call' = "creating"
    /\ UNCHANGED <<ttsVars, session, consumerVars, rows, spokenVars>>

\* start(): the row is committed, consumer and greeting are created.
StartCreate ==
    /\ call = "creating"
    /\ session' = "open"
    /\ consumer' = "listening"
    /\ Tts!Speak(Tts!Greeting)
    /\ call' = "live"
    /\ UNCHANGED <<sttVars, cut, turn, tools, rows, spokenVars>>

\* start() raises and the router's finally block calls stop().
StartFails ==
    /\ \/ call = "starting" /\ "stt" \in MayFail /\ UNCHANGED session
       \/ call = "creating" /\ "db" \in MayFail /\ session' \in {session, "open"}
    /\ Stopping
    /\ UNCHANGED sttVars

\* The caller hangs up, or sends stop.
HangUp ==
    /\ call = "live" /\ LoopIsFree
    /\ Stopping
    /\ UNCHANGED <<sttVars, session>>

\* on_audio_frame() raises: the stream was closed by the far end.
FrameFails ==
    /\ call = "live" /\ LoopIsFree
    /\ ~Stt!CanSend
    /\ Stopping
    /\ UNCHANGED <<sttVars, session>>

\* Fault: the tasks are cancelled and not awaited.
StopNotJoined ==
    /\ call = "joining"
    /\ Stt!CloseStart
    /\ call' = "closing"
    /\ UNCHANGED <<ttsVars, session, consumerVars, rows, spokenVars>>

\* stop(): both tasks have ended, the stream is closed.
StopJoined ==
    /\ call = "joining"
    /\ consumer \in Gone
    /\ ~Tts!IsSpeaking
    /\ Stt!CloseStart
    /\ call' = "closing"
    /\ UNCHANGED <<ttsVars, session, consumerVars, rows, spokenVars>>

StopClose ==
    /\ call = "closing"
    /\ Stt!CloseEnd
    /\ UNCHANGED <<ttsVars, handlerVars, consumerVars, rows, spokenVars>>

\* stop(): mark_ended(), which may find no row, or raise.
StopMarkEnded ==
    /\ call = "closing"
    /\ closing = "done"
    /\ call' = "done"
    /\ \/ session' = IF session = "open" THEN "ended" ELSE session
       \/ "db" \in MayFail /\ session' = session
    /\ UNCHANGED <<sttVars, ttsVars, consumerVars, rows, spokenVars>>

-----------------------------------------------------------------------------
(* The STT consumer *)

\* A partial transcript: barge-in, or ignored.
HearPartial ==
    /\ consumer = "listening" /\ ~cut
    /\ Stt!Yield
    /\ ~Head(queue).final
    /\ IF Tts!IsSpeaking /\ Head(queue).len >= BARGE_IN_MIN_CHARS
         THEN Tts!CancelSpeak
         ELSE UNCHANGED ttsVars
    /\ UNCHANGED <<handlerVars, consumerVars, rows, spokenVars>>

\* Fault: the final is looked at and left in the queue.
HearFinalPeeks ==
    /\ consumer = "listening" /\ ~cut
    /\ queue # <<>> /\ Head(queue).final
    /\ consumer' = "saving_user"
    /\ turn' = Head(queue).n
    /\ tools' = 0
    /\ poll' = "yielded"
    /\ UNCHANGED <<ws, reader, closed, queue, closing>>
    /\ UNCHANGED <<ttsVars, handlerVars, cut, rows, spokenVars>>

\* A final transcript: _handle_user_turn() begins.
HearFinal ==
    /\ consumer = "listening" /\ ~cut
    /\ Stt!Yield
    /\ Head(queue).final
    /\ consumer' = "saving_user"
    /\ turn' = Head(queue).n
    /\ tools' = 0
    /\ UNCHANGED <<ttsVars, handlerVars, cut, rows, spokenVars>>

\* Fault: the loop ends at the first second of silence.
HearNothingGivesUp ==
    /\ consumer = "listening" /\ ~cut
    /\ queue = <<>>
    /\ consumer' = "ended"
    /\ Stt!Abandon
    /\ UNCHANGED <<ttsVars, handlerVars, cut, turn, tools, rows, spokenVars>>

\* Nothing to hear: the consumer waits, or its loop ends.
HearNothing ==
    /\ consumer = "listening" /\ ~cut
    /\ \/ Stt!Suspend /\ UNCHANGED consumer
       \/ Stt!End /\ consumer' = "ended"
    /\ UNCHANGED <<ttsVars, handlerVars, cut, turn, tools, rows, spokenVars>>

\* The consumer leaves `from` for `to`, its stream as it was.
Goes(from, to) ==
    /\ consumer = from /\ ~cut
    /\ consumer' = to
    /\ UNCHANGED <<sttVars, handlerVars, cut, turn, spokenVars>>

SaveUser ==
    /\ Goes("saving_user", "thinking")
    /\ rows' = Append(rows, UserRow(turn))
    /\ UNCHANGED <<ttsVars, tools>>

\* A tool runs inside run_turn(); its effect outlives the turn.
RunTool ==
    /\ tools < MaxTools
    /\ Goes("thinking", "thinking")
    /\ tools' = tools + 1
    /\ UNCHANGED <<ttsVars, rows>>

\* Fault: the reply is spoken without being written first.
TurnDoneUnsaved ==
    /\ Goes("thinking", "replying")
    /\ UNCHANGED <<ttsVars, tools, rows>>

\* run_turn() returns.
TurnDone ==
    /\ Goes("thinking", "saving_reply")
    /\ UNCHANGED <<ttsVars, tools, rows>>

\* Fault: tool rows are written whether a tool ran or not.
SaveReplyThenTools ==
    /\ Goes("saving_reply", "saving_tools")
    /\ rows' = Append(rows, ReplyRow(turn))
    /\ UNCHANGED <<ttsVars, tools>>

SaveReply ==
    /\ Goes("saving_reply", IF tools = 0 THEN "replying" ELSE "saving_tools")
    /\ rows' = Append(rows, ReplyRow(turn))
    /\ UNCHANGED <<ttsVars, tools>>

SaveTool ==
    /\ Goes("saving_tools", IF tools = 1 THEN "replying" ELSE "saving_tools")
    /\ rows' = Append(rows, ToolRow(turn))
    /\ tools' = tools - 1
    /\ UNCHANGED ttsVars

\* Fault: the playback task is replaced without _speak.
ReplyUncancelled ==
    /\ Goes("replying", "listening")
    /\ current' = turn
    /\ play' = [play EXCEPT ![turn] = "scheduled"]
    /\ UNCHANGED <<doomed, chunks, tools, rows>>

\* The reply is spoken in the background, unless it is blank.
Reply ==
    /\ Goes("replying", "listening")
    /\ Tts!Speak(turn) \/ UNCHANGED ttsVars
    /\ UNCHANGED <<tools, rows>>

\* The row the consumer is committing.
InFlight ==
    CASE consumer = "saving_user"  -> {UserRow(turn)}
      [] consumer = "saving_reply" -> {ReplyRow(turn)}
      [] consumer = "saving_tools" -> {ToolRow(turn)}
      [] OTHER                     -> {}

\* The commit in progress has reached the database or not.
CommitUnknown ==
    \/ UNCHANGED rows
    \/ \E row \in InFlight : rows' = Append(rows, row)

\* Fault: a database error is logged and the turn goes on.
TurnFailsSwallowed ==
    /\ consumer \in {"saving_user", "saving_reply"} /\ "db" \in MayFail
    /\ Goes(consumer, IF consumer = "saving_user" THEN "thinking" ELSE "replying")
    /\ UNCHANGED <<ttsVars, tools, rows>>

\* The model or the database raises out of _handle_user_turn(): nothing
\* catches it, and the consumer task is over.
TurnFails ==
    /\ ~cut
    /\ \/ consumer = "thinking" /\ "llm" \in MayFail
       \/ consumer \in Working \ {"thinking"} /\ "db" \in MayFail
    /\ consumer' = "dead"
    /\ Stt!Abandon
    /\ CommitUnknown
    /\ UNCHANGED <<ttsVars, handlerVars, cut, turn, tools, spokenVars>>

\* Fault: the model client swallows the cancellation.
ConsumerCancelledUnlessThinking ==
    /\ cut
    /\ consumer \in Alive \ {"thinking"}
    /\ consumer' = "cancelled"
    /\ Stt!Abandon
    /\ UNCHANGED <<ttsVars, handlerVars, cut, turn, tools, rows, spokenVars>>

ConsumerCancelled ==
    /\ cut
    /\ consumer \in Alive
    /\ consumer' = "cancelled"
    /\ Stt!Abandon
    /\ CommitUnknown
    /\ UNCHANGED <<ttsVars, handlerVars, cut, turn, tools, spokenVars>>

-----------------------------------------------------------------------------
(* Playback and speech recognition *)

PlaybackStep(u) ==
    /\ LoopIsFree
    /\ \/ Tts!Begin(u) \/ Tts!SendChunk(u) \/ Tts!Finish(u)
       \/ Tts!Interrupt(u)
       \/ "tts" \in MayFail /\ Tts!PlaybackFails(u)
    /\ UNCHANGED <<sttVars, handlerVars, consumerVars, rows, spokenVars>>

\* The greeting's row: written, or not when the database fails or the task
\* is cancelled during the commit.
PersistGreeting ==
    /\ LoopIsFree
    /\ Tts!PersistEnds(Tts!Greeting)
    /\ \/ rows' = Append(rows, GreetingRow)
       \/ ("db" \in MayFail \/ Tts!Greeting \in doomed) /\ rows' = rows
    /\ UNCHANGED <<sttVars, handlerVars, consumerVars, spokenVars>>

\* The caller speaks.  Deepgram hears nothing before start() has returned
\* and the router forwards frames; the consumer is at its queue by then.
Recognise ==
    /\ call \notin {"starting", "creating"} /\ LoopIsFree
    /\ poll # "fresh"
    /\ \/ /\ said < MaxFinals
          /\ Stt!Put(Final(said + 1))
          /\ said' = said + 1
          /\ UNCHANGED partials
       \/ /\ partials < MaxPartials
          /\ \E len \in PartialLengths : Stt!Put(Partial(len))
          /\ partials' = partials + 1
          /\ UNCHANGED said
    /\ UNCHANGED <<ttsVars, handlerVars, consumerVars, rows>>

ReaderStops ==
    /\ LoopIsFree
    /\ Stt!ReaderDropped \/ ("stt" \in MayFail /\ Stt!ReaderCrashes)
    /\ UNCHANGED <<ttsVars, handlerVars, consumerVars, rows, spokenVars>>

-----------------------------------------------------------------------------
HandlerStep ==
    StartConnect \/ StartCreate \/ StartFails \/ StopJoined \/ StopClose
        \/ StopMarkEnded

ConsumerStep ==
    HearPartial \/ HearFinal \/ HearNothing \/ SaveUser \/ RunTool
        \/ TurnDone \/ SaveReply \/ SaveTool \/ Reply \/ TurnFails
        \/ ConsumerCancelled

Next ==
    \/ HandlerStep \/ HangUp \/ FrameFails
    \/ ConsumerStep
    \/ \E u \in Tts!Utterances : PlaybackStep(u)
    \/ PersistGreeting
    \/ Recognise \/ ReaderStops

Spec == Init /\ [][Next]_vars

\* Every task that is ready runs; the services answer or time out (connect
\* 5 s, model 30 s with 3 retries, synthesis 30 s, database driver); and the
\* caller's audio keeps coming, so that a closed stream is noticed.  Nobody
\* is obliged to speak or to hang up.  Weak fairness is enough for the tasks
\* that wait for a free loop: the consumer keeps it for as many steps as
\* there are texts, and a call has finitely many.
Fairness ==
    /\ WF_vars(HandlerStep)
    /\ WF_vars(FrameFails)
    /\ WF_vars(ConsumerStep)
    /\ \A u \in Tts!Utterances : WF_vars(PlaybackStep(u))
    /\ WF_vars(PersistGreeting)

FairSpec == Spec /\ Fairness
-----------------------------------------------------------------------------
(* Properties *)

TypeOK ==
    /\ Stt!TypeOK
    /\ Tts!TypeOK
    /\ call \in Started \cup {"joining", "closing", "done"}
    /\ consumer \in Alive \cup Gone
    /\ cut \in BOOLEAN
    /\ turn \in 0..MaxFinals
    /\ tools \in 0..MaxTools
    /\ session \in {"none", "open", "ended"}
    /\ rows \in Seq({"user", "assistant", "tool"} \X (0..MaxFinals))
    /\ said \in 0..MaxFinals
    /\ partials \in 0..MaxPartials

\* The places of the conversation: the greeting's commit may fall anywhere.
Conversation == {i \in 1..Len(rows) : rows[i] # GreetingRow}

\* The rows of the conversation are the turns in the order they were spoken,
\* none skipped: user 1, assistant 1, tools of 1, user 2, ...
\* (orchestrator.py:137-161).
TurnsInOrder ==
    LET next(i, j) == i < j /\ \A k \in Conversation : k <= i \/ k >= j
        follows(new, row) ==
            \/ new = ReplyRow(row[2])    /\ row[1] = "user"
            \/ new = ToolRow(row[2])     /\ row[1] # "user"
            \/ new = UserRow(row[2] + 1) /\ row[1] # "user"
    IN \A j \in Conversation :
          \/ rows[j] = UserRow(1) /\ \A i \in Conversation : i >= j
          \/ \E i \in Conversation : next(i, j) /\ follows(rows[j], rows[i])

RowsSet == {rows[i] : i \in 1..Len(rows)}

\* Nothing is spoken to the caller that the transcript does not have: a
\* reply's row is committed before its playback exists (orchestrator.py:148-161).
SpokenIsSaved ==
    \A n \in 1..MaxFinals : play[n] # "none" => ReplyRow(n) \in RowsSet

\* Once stop() has begun, whatever is still queued or unwinding, no chunk
\* leaves, no turn starts, no tool runs and no playback is created, although
\* a superseded playback is never awaited (orchestrator.py:106-119).
NothingStartsAfterStop ==
    [][ call \notin Started =>
            /\ chunks' = chunks
            /\ turn' = turn
            /\ tools' <= tools
            /\ current' = current ]_vars

\* When stop() has returned nothing of the call is left that could act: the
\* consumer is over, the stream is closed, and a playback task that has not
\* ended has been cancelled (orchestrator.py:107-120).
NothingOutlivesStop ==
    call = "done" =>
        /\ consumer \in Gone
        /\ ws = "none" /\ reader # "running"
        /\ \A u \in Tts!Utterances : play[u] \in Tts!Running => u \in doomed

\* The greeting reaches the transcript once it is spoken, unless the database
\* fails or a cancellation meets the write itself: barge-in then erases what
\* the caller has heard to the end (orchestrator.py:203-209).
GreetingSavedUnlessCut ==
    play[Tts!Greeting] = "done" /\ "db" \notin MayFail
        => GreetingRow \in RowsSet

\* A row is written only while the call has an open session row (its foreign
\* key), and after ended_at is set only a cancelled greeting that nobody
\* awaits can still land (orchestrator.py:107-122, 177-182).
RowsBelongToTheCall ==
    [][ rows' # rows =>
            \/ session = "open"
            \/ session = "ended" /\ Tts!Greeting \in doomed
                  /\ rows' = Append(rows, GreetingRow) ]_vars

\* The two halves of the call behave as their own modules say
\* (stt_deepgram.py:57-130, orchestrator.py:165-209).
ImplementsStream   == Stt!Spec
ImplementsPlayback == Tts!Spec

\* However many cancelled playback tasks still unwind beside a new one, at
\* most one may go on talking: the one stop() can cancel
\* (orchestrator.py:177-188).
OneVoice == Tts!OneVoice

\* The caller never hears an old reply, or the greeting, after a newer one
\* exists (orchestrator.py:168-182).
NoTalkOver == Tts!NoTalkOver

\* An utterance that barge-in, a newer reply or stop() has cancelled sends
\* nothing more (orchestrator.py:184-188).
SilentOnceCancelled == Tts!SilentOnceCancelled

\* Every playback task of a call ends, also one that nobody awaits
\* (orchestrator.py:190-209).
PlaybackEnds == Tts!PlaybackEnds

\* Seen from the rest of the process a call has the life that CallLife
\* states: rows between its start and its end, and after that only a
\* greeting that nobody awaits (orchestrator.py:82-122, 177-182, 206-209).
Rows(kinds) == Cardinality({i \in Conversation : rows[i][1] \in kinds})

Life == INSTANCE CallLife
           WITH phase    <- IF call = "joining" /\ consumer = "none"
                            THEN "aborting" ELSE call,
                greeting <- IF GreetingRow \in RowsSet THEN "written"
                            ELSE IF play[Tts!Greeting] = "persisting"
                                      /\ current # Tts!Greeting
                            THEN "loose" ELSE "unwritten",
                spoken   <- Rows({"user", "assistant"}),
                used     <- Rows({"tool"})

ImplementsCallLife == Life!Spec

\* A call that is over is recorded as over, if the database works.
SessionEnds == session = "open" /\ call \notin Started ~> session = "ended"

\* While the call is up, a final transcript gets its reply into the
\* transcript ("the next final transcript drives the next turn",
\* orchestrator.py:7-8).
FinalAnswered ==
    \A n \in 1..MaxFinals :
        said = n ~> ReplyRow(n) \in RowsSet \/ call \notin Started
-----------------------------------------------------------------------------
(* What the documentation says of the call.  The code does not do it: each *)
(* of these is refuted by a run of its own.                                *)

\* README.md:8: "persists every turn to PostgreSQL".  Of what was recognised
\* while the call was up:
EveryFinalPersisted ==
    \A n \in 1..MaxFinals :
        call = "live" /\ said = n ~> UserRow(n) \in RowsSet

\* orchestrator.py:7-8: "the next final transcript drives the next turn",
\* also when an earlier turn went wrong: it begins by writing the final.
NextFinalDrivesATurn ==
    \A n \in 1..MaxFinals :
        said = n ~> UserRow(n) \in RowsSet \/ call \notin Started

\* README.md:212: the tool loop is written by hand to "short-circuit if the
\* user starts speaking again (barge-in)".  No tool starts while a partial
\* that is long enough for barge-in has been recognised since the turn began.
SpeakingAgainStopsTheTurn ==
    [][ tools' > tools =>
          ~ \E i \in 1..Len(queue) :
               ~queue[i].final /\ queue[i].len >= BARGE_IN_MIN_CHARS ]_vars
=============================================================================
