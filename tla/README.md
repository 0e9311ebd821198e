# A TLA+ model of the voice agent

The program answers telephone calls (Twilio media streams) and browser calls
(WebRTC signalling) with an agent: speech is recognised by Deepgram, answered by
Claude, spoken by ElevenLabs, and written to PostgreSQL. One process serves all
calls on one asyncio event loop. What can go wrong in it is seldom inside a
function: it is the order in which tasks that share a call, or calls that share
the process, run between their `await`s, and where a cancellation meets them.
That is what these modules model, check and prove.

## 1. Inventory

Paths are relative to the repository.

| Part | State it keeps | Operations | Who it meets |
|---|---|---|---|
| Call gate, `app/concurrency.py` | the semaphore (permits, queue of futures), `_active` | `slot()`, `try_acquire_nowait()`, `release()`, `active` | every WebSocket handler of the process |
| Call admission, `app/routers/twilio.py`, `webrtc.py` | none of its own | the `/incoming` webhook, the `/stream` and `/signal` sockets | reads and takes the gate; creates, feeds and stops an orchestrator |
| Orchestrator, `app/pipeline/orchestrator.py` | `_stt_task`, `_speak_task`, `_stopped` | `start`, `on_audio_frame`, `stop`, `_consume_transcripts`, `_handle_user_turn`, `_speak`, `_cancel_speak`, `_run_playback` | three kinds of task: handler, consumer, playback |
| Speech to text, `app/pipeline/stt_deepgram.py` | socket, reader task, queue, `_closed` | `connect`, `send_pcm`, `transcripts`, `close`, the reader | Deepgram; the consumer; the handler |
| LLM agent, `app/pipeline/llm_claude.py`, `app/tools/registry.py` | the message history | `add_user_text`, `run_turn` and its tool loop | the consumer; Claude; the tools |
| Text to speech, `app/pipeline/tts_eleven.py` | an HTTP client | `synthesize_stream`, `aclose` | the playback tasks |
| Persistence, `app/persistence/` | the engine; `call_sessions`, `transcript_turns`, `tool_calls` | `init_engine`, `dispose_engine`, `create`, `mark_ended`, `add_turn`, `add_tool_call`, `get_with_turns` | consumer, greeting playback, handler, session API |
| Session API, `app/routers/sessions.py` | none | reads the rows of one session in three selects | persistence, beside the calls that write |
| Tools, `app/tools/` | none; SMS threads | `check_availability`, `book_slot`, `send_confirmation` | the tool loop; Twilio |
| Start-up and shutdown, `app/main.py` | the gate, the engine | `lifespan` | the server that runs the process; every handler |
| The rest | configuration, logging, audio conversion, signatures, migrations | | |

What is hard, and what must be true of it:

- *Gate.* Two entries, one of which writes the private counter of the
  semaphore; waiters cancelled before and after they were granted a permit.
  No permit may be lost or minted, the cap must hold, nobody may sleep beside a
  free slot, nobody may overtake a waiter.
- *Admission.* The webhook decides on a counter that the stream takes a round
  trip later. A handler that waits does not read its socket, so a caller who
  hangs up there goes unnoticed. Every way out must give the slot back once.
- *Orchestrator.* Barge-in, hang-up, failures of four services and the end of
  the recogniser meet a turn, a commit or a playback at any point. Rows must
  stay a prefix of the conversation, nothing may be spoken that is not saved,
  nothing may act after `stop()`, a final transcript must get its answer.
- *Playback.* Tasks are replaced by cancelling and not awaiting them. There
  must be one voice, silent from the moment it is cancelled.
- *Recogniser.* Reader, consumer and `close()` share one event flag. The
  consumer must not poll a dead stream for ever.
- *Agent.* Every `tool_use` must be answered in the next message over any
  number of rounds, or Claude rejects each later request of the call.
- *Tools.* They act on the world inside a turn that may fail or be cancelled
  afterwards, and one of them acts from a thread. The records must agree with
  what was done, and an offer with the calendar.
- *Process.* Calls share the tables under a key that callers choose; sockets
  may start more than one call; the engine goes when the server drains; a
  process dies. A session must hold the rows of one call, be ended by whom it
  should, stay open only for reasons that can be named, and read consistently.

`PROJECT.json` lists these hazards line by line, with the properties that cover
them, and says of the ones that none covers why.

## 2. Modules

| Module | Models | Uses |
|---|---|---|
| `CallSlots` | the promise of the gate: a first-come-first-served queue for `MaxCalls` slots | |
| `CallGate` | `CallGate` and the `asyncio.Semaphore` under it | refines `CallSlots` |
| `CallAdmission` | how phones and browsers reach the gate | composes `CallGate` |
| `DeepgramStream` | one recogniser connection | |
| `Playback` | the playback tasks of one call | |
| `CallBounds` | the constants that a call and its playback tasks share | |
| `CallOrchestrator` | one call: handler, consumer, playback, rows | composes `DeepgramStream`, `Playback`; refines both, and `CallLife` |
| `CallLife` | what the process may rely on in one call: its phases, when rows may come, and the one row that may come late | |
| `SessionStore` | the engine, the tables, the repository, the session API's read | |
| `MediaCalls` | the process: start, drain, death and restart; the frame loops; the calls they make | composes `SessionStore`, and `CallLife` once for each call |
| `ClaudeAgent` | the history and the tool loop | |
| `Availability` | the calendar of `check_availability`, and what it should offer | |
| `ClaudeTools` | the tool loop with its handlers and the SMS thread | extends and refines `ClaudeAgent`; uses `Availability` |
| `CallGate_proofs`, `CallAdmission_proofs`, `DeepgramStream_proofs`, `Playback_proofs`, `CallOrchestrator_proofs`, `MediaCalls_proofs`, `ClaudeAgent_proofs`, `ClaudeTools_proofs` | theorems | |

Three compositions hold the project together. The admission handlers step the
gate, the orchestrator steps the stream and the playback tasks, and each is
shown to do so only in ways the part allows. `CallLife` is the seam between one
call and the process: `CallOrchestrator` implements it, task by task, and
`MediaCalls`, which knows of a call only its `CallLife`, implements it for each
of its calls.

The `MC*` modules and configurations instantiate them for TLC. Operators
introduced by a comment "Fault:" are not part of any specification: each is a
plausible mistake in the definition after it, which a property is shown to
catch.

### How the model reads the code

*Atomicity.* The event loop runs one task at a time up to its next `await` that
suspends. An action is the code between two such points, with everything it
calls. Taking the uncontended `asyncio.Lock` of the gate does not suspend. Nor
does `wait_for(queue.get(), ...)` while there is a text: from the end of a turn
the consumer goes from one queued text to the next without a pause, until its
queue is empty or a final starts a turn. It does so in several steps of the
model, and `LoopIsFree` keeps the other tasks still meanwhile. That is why a
partial queued during a turn cancels the reply before the reply's task has run
at all.

*Cancellation.* `Task.cancel()` takes effect when the task next runs. Between
the two the task is `doomed` (playback), `cut` (consumer), `cancelled` or
`revoked` (a waiter of the gate). A commit that is cancelled, or that raises, has
reached the database or not: both are explored (`CommitUnknown`), for the
session row as well (`StartFails`).

*Gate.* `value` is `Semaphore._value`, `active` is `_active`, `waiters` are the
futures in the deque that are not done, `pc` says for each handler where it is,
including what the library keeps in a done future: `granted`, `cancelled`,
`revoked` (cancelled after the grant). `SlotResume` and `SlotUnwind` contain the
wake-up loop at the end of `acquire()`; `SlotExit` and `Release` contain
`release()` with its wake-up of one. `asyncio.Semaphore` is the one of Python
3.12, and is marked external.

*Admission.* `phone` is what a client experiences. `Incoming` is the webhook
with its pre-check, `StreamOpens` the socket that follows, `Signal` the browser's,
`CallEnds` every way out of a handler, with the `finally` that gives the slot
back. `HangsUp` changes nothing in the process: the handler notices by itself,
or does not.

*Orchestrator.* `call` is where the handler is in `start()` or `stop()`;
`consumer` where the consumer task is in the transcript loop or in
`_handle_user_turn()`, one value per `await`; `rows` are the committed turns and
tool calls in the order of their commits; `session` is the session row. A text
is a final with its number or a partial with a length at or below the barge-in
threshold. `run_turn()` is a stay in `thinking` during which tools may run.

*Playback.* Utterance 0 is the greeting, utterance *n* the reply to turn *n*.
A `persisting` greeting has been spoken and still counts as speaking, as in the
code.

*Recogniser.* `poll` is where `transcripts()` is: the closed event is tested
only before `queue.get`, so a get that waits still returns a text.

*Agent.* A message is its role and the numbers of the `tool_use` blocks it
holds or answers. The loop ends on a refusal or when no block came; the other
stop reasons are not looked at, as in the code.

*Tools.* `ClaudeTools` splits the step in which a tool runs: a handler is
called, produces `output`, and `ToolReturns` is the agent's `Execute`. Only
`send_confirmation_sms` suspends, so only there, or while the model streams, can
a turn be cancelled. `threads` holds the SMS being sent; `ThreadEnds` lets
Twilio accept the message or not, and the client report success, or an error
although the message was accepted. `filed` is what turns that returned have
handed over to be written. Any name and arguments the model may invent are
`AnswerError`. A date is a day number, so the last day that Python knows, on
which the window's loop raises, is an `AnswerError` too.

*Store.* A row is known by the call that wrote it. Each operation is one
transaction; `create` fails on a key that exists, `add_turn` on one that does
not, `mark_ended` without a row does nothing. The read is three selects with the
writers between them. Turns are kept in the order of their commits; the code
sorts by `created_at`, the time the transaction began, which differs at most in
where a greeting stands.

*Process.* `loop` is where a handler is, `latest` its local variable
`orchestrator`, `phase` where each call is in its life. `StartFrame` overwrites
`latest`, as the code does. `LoopEnds` is every way out of the loop, which all
reach the same `finally`: a stop frame, a disconnect, a frame that is JSON but
no object, audio that `on_audio_frame` cannot take. `Drain` is the server that
is told to stop, `Dispose` the end of `lifespan()`, `GoDown` the end of the
process, orderly or not. After `Boot` the same tables are found.

## 3. Runs

| Run | Instance | Question |
|---|---|---|
| `call_gate` | 5 handlers, 3 slots | are permits conserved, the cap kept, nobody left asleep, and is the gate the queue of `CallSlots`? |
| `call_admission` | 3 phones, 1 browser, 2 slots | do the routers use the gate properly, refuse only when full, and shed handlers whose caller has gone? |
| `deepgram_stream` | 2 kinds of text, queue of 3 | does every end of the stream reach the consumer, and what comes out after it? |
| `call_safety` | 2 finals, 1 partial, 1 tool a turn, 1 chunk, all services may fail | order of rows, nothing unsaved is spoken, one voice, never two at once, silent once cancelled, nothing acts after `stop()`, refinement of both parts and of `CallLife` |
| `call_progress` | 2 finals, 1 partial, only synthesis may fail | is every final answered, every call closed, the greeting saved, does every playback end? |
| `claude_agent` | 7 messages, 2 tools a round, 3 dates, 3 durations | alternation, pairing of tool use and result, records of a turn, offers against the calendar, SMS against records |
| `sessions` | 2 sockets, 2 calls, 2 `call_sid`s, 1 row and a late greeting a call, 2 boots, 1 database failure | whose rows a session holds, who ends it, when it stays open, what a reader sees, and that leaving ends it |
| `admission_waits`, `llm_failure_ends_listening`, `hang_up_loses_turns`, `no_short_circuit`, `window_of_fifteen_dates` | small | what the documentation says and the code does not do (section 6) |

*Why the bounds are enough.* The gate needs three slots for two permits to be
on their way while a third is free, and two handlers more than slots for a
queue with an order; 5 handlers give both. Admission needs a full gate, a queue
of more than one, and both entries at once. A call needs a second turn for an
old reply to meet a new one, and one partial to be stale for either; with the
greeting that makes three utterances, and a task that was replaced twice. Seven messages hold two
turns with a tool round each, or one with three. The chunk count matters only
as "more to send" and "all sent". The dates of `claude_agent` are a Friday
and the Friday and Saturday a fortnight later: windows of one day, of a day
without slots, over weekends, with ends fourteen days apart and one more, and
backwards; the durations end exactly at closing time, a minute after it for the
last slot, and after it for all. Two calls are enough for `sessions` to have a namesake, on one socket or on
two, at once or after a restart; its invariants are proved for any number, and
a third call would only make the temporal property slow to check.
`CHECK_DEADLOCK FALSE` stands where the system stops: a call, a stream, an agent
and a process end. The gate and admission never do, and are checked for deadlock.

*Fairness.* The event loop runs every task that is ready: weak fairness for
each task's own steps, joined in one disjunction because a task has one next
step. Services answer or time out: connecting has 5 s, the model 30 s and a
bounded number of retries, synthesis 30 s, `queue.get` 1 s, the close handshake
the library's limit. A call that runs ends some day, which the gate's waiters
depend on. In `sessions` a handler's steps in `start()` and `stop()` are fair
(each ends by the reasons above; that the cancelled tasks end is `SessionEnds`),
and so is leaving the frame loop once the server drains. Audio frames keep
coming while a call is up (`FrameFails`), which is how a dropped recogniser is
noticed. A task that waits for the consumer to let go of the loop waits for as
many steps as there are texts, and a call has finitely many, so weak fairness is
enough for it. Nobody is obliged to call, to speak, to
hang up, to ask the session API, or to be cancelled, and no process is obliged
to be started again or to drain.

## 4. What is proved

TLAPS checks the following for every value of the constants.

| Theorem | Module | Says |
|---|---|---|
| `TypeCorrect` | gate, stream, playback, orchestrator, agent | type invariant |
| `PermitsAreConserved`, `CapIsRespected`, `NoWakeupIsLost` | `CallGate_proofs` | `value + owners = MaxCalls`; at most `MaxCalls` calls run; no waiter beside a free permit, unless a task is about to hand it on |
| `ServedInOrderHolds` | `CallGate_proofs` | nobody gets in front of a waiter, and none is granted a permit before those ahead of it |
| `Implementation` | `CallGate_proofs` | `CallGate` implements `CallSlots` |
| `GateImplemented` | `CallAdmission_proofs` | the routers step the gate only as it allows |
| `CapHoldsForEveryCaller`, `NoCallerWaitsInVain`, `PhonesServedInOrder`, `RoutersImplementCallSlots` | `CallAdmission_proofs` | so cap, wake-ups, order and `CallSlots` hold for phones and browsers together |
| `QuietIsEmpty`, `TurnedAwayOnlyWhenFullHolds` | `CallAdmission_proofs` | no way out loses a slot; nobody is refused while there is room |
| `NothingIsLeftBehind`, `OneMoreHolds` | `DeepgramStream_proofs` | `close()` leaves nothing; of the texts queued at the close at most one comes out, and none if no get was waiting |
| `OneVoiceHolds`, `NoTalkOverHolds`, `SilentOnceCancelledHolds` | `Playback_proofs` | at most one task may talk; no audio for an old utterance; none once cancelled |
| `PlaybackAlwaysRunsOut` | `Playback_proofs` | each step of a running task leaves it fewer, and nothing gives it more |
| `StreamImplemented`, `PlaybackImplemented` | `CallOrchestrator_proofs` | the call implements both of its parts, so their theorems hold in it |
| `CallHasOneVoice`, `CallNeverTalksOver`, `CancelledStaysSilent`, `CallLeavesNoStream`, `CallTakesOneMore` | `CallOrchestrator_proofs` | those theorems, said of the call: one voice, no talking over, silence once cancelled, no stream left, one more text at the most |
| `TurnsStayInOrder`, `SpokenIsAlwaysSaved`, `GreetingIsSaved`, `RowsBelong` | `CallOrchestrator_proofs` | the transcript is a prefix of the conversation, has what was spoken, and is closed by its end mark |
| `NothingStarts`, `NothingOutlives` | `CallOrchestrator_proofs` | nothing begins after `stop()` has, nothing is left when it returns |
| `StopAlwaysGoesOn`, `StopOnlyUnwinds` | `CallOrchestrator_proofs` | in `stop()` somebody can always move, and every move leaves fewer |
| `NoFinalIsDropped` | `CallOrchestrator_proofs` | while the consumer lives each final is answered, being answered or queued |
| `LifeImplemented` | `CallOrchestrator_proofs` | a call has the life of `CallLife` |
| `CallsLiveTheirLives` | `MediaCalls_proofs` | so has every call of the process |
| `OneAuthor`, `EndedEarly`, `OpenWhileServed`, `AnswerIsComplete` | `MediaCalls_proofs` | the four invariants of `sessions` |
| `EndedSessionStaysFinal` | `MediaCalls_proofs` | once the creator's call is over, creator and tool calls stay for good, the turns gain at most one cut greeting, and the end mark moves only by a namesake that wrote nothing |
| `LeavingAlwaysStops` | `MediaCalls_proofs` | a handler that leaves goes through `stop()` undisturbed and ends its session |
| `RolesAlternateAlways`, `EveryUseIsAnswered`, `TurnAlwaysRecordsItsTools` | `ClaudeAgent_proofs` | the history is one that Claude accepts; the records are complete |
| `ToolsImplementAgent`, `AgentTypeCorrect`, `ToolsKeepRoles`, `ToolsAnswerEveryUse`, `ToolsAreRecorded` | `ClaudeTools_proofs` | the same with the real handlers |
| `SentAgreesAlways`, `SmsGoesOutOnce` | `ClaudeTools_proofs` | records agree with the SMS sent; one request sends at most one |
| `SlotsListTheWindow`, `OffersAlwaysMatch` | `ClaudeTools_proofs` | what is offered is what can be booked, in order, for windows of any length |

*Assumptions.* `MaxCalls` is positive, as the constructor enforces; the set of
handlers is arbitrary, infinite included. `Chunks` is positive. The bounds that exist for TLC only (`MaxMessages`, `MaxUses`,
`MaxCalls` of `MediaCalls`, `MaxRows`, `MaxBoots`, `MaxFaults`, `MaxFinals`,
`MaxPartials`, `MaxTools`, `QueueBound`) are arbitrary natural numbers.

*The gate.* Conservation counts owners, and a wake-up adds as many owners as
futures it wakes only if those belong to different handlers that own nothing
yet. So the inductive invariant adds `WaitersMatch` (the deque holds exactly
the waiting handlers, each once), finiteness of the owners, and `NoLostWakeup`.
`WakeUpEffect` says what a wake-up of any length does to owners and queue, by a
bijection between the positions and the handlers woken; the wake-up loop and
`release()` are its two uses. The cap follows from conservation. `NoLostWakeup`
is what lets the loop be omitted nowhere: it either uses up the permits or
empties the queue. For the refinement, entry maps to `Take` (an unlocked
semaphore has no waiters), a wake-up to `Admit`, a cancelled wait to `GiveUp`.
Order is a statement about steps: a wake-up takes the handlers off the front of
the queue, an entry appends, a cancelled wait removes from the middle, and in
each case `Ahead` of a waiter can only shrink.

*Playback.* The invariant adds that only a task that exists is ever cancelled,
and that the current task is the latest. Every step of a task's body is a
`Moves` step, which changes that task only; `Speak` is the one that must show
that the task it replaces is cancelled. `StepsBefore` is the variant of a task:
its begin, its chunks, its exit and the greeting's write.

*Recogniser.* What comes out after the close is a statement about the whole rest
of the behaviour, so it needs an invariant for each length of the queue:
`AllButOne(n)` (closed, and *n* texts left, or one less and no get waits) and
`All(n)` (closed, *n* left, no get waits). Each step keeps both, since `Yield`
takes a text, and leaves nobody waiting.

*Agent.* What a request holds is settled when earlier messages are appended.
`Stands` says for each place of the turn what the last message is, and that the
results due are those answered plus those pending; `AppendKeeps` then carries
alternation and pairing through every append.

`RInv` counts the same way what a turn has asked for since the user spoke and
what it has recorded; with it `TurnRecordsItsTools` follows. `ClaudeTools` adds
its own state and takes the agent's steps unchanged, so the agent's invariants
come with the refinement; what is added says whose SMS each thread is sending,
and that an SMS is on file, in hand, or its turn's no longer. That a block sends
once needs to know where a block stands that has sent (`SentIsBehind`): it is
the one whose result is due, or behind the head of what is pending.

*The calendar.* `Slots` is a recursive function over the days of the window, so
its theorem is an induction over data. It is done without an induction theorem:
a non-empty set of naturals has a least element, because strict inclusion
between finite sets is well founded (`LeastNatural`), so a set that contains 0
and the successor of each natural in it contains them all (`SetInduction`). The
set it is used with is made of the distances from the end of the window
for which the loop's function is defined and lists what it should
(`ExtendsLists`); one day more puts the day's slots in front (`ListsOneMoreDay`).

*Admission.* `GateProofs`, an instance of `CallGate_proofs`, brings the gate's
invariant: each router step is a gate step. It remains to say who is in the
gate: a wake-up moves handlers that took no step, so `WakeUpReach` shows that
it reaches waiters only. The theorems of the gate are then instantiated.

*The orchestrator.* Instances of `DeepgramStream_proofs` and `Playback_proofs`
bring theirs. The rest of `OInv` relates the tasks. `Control` says which of them
can be there at which point of the call; `Heard` that the queue holds the finals
after the present one, in order and without a gap; `Talk` what the transcript
ends with while the consumer is at each `await` of a turn, which is what order
needs to be inductive; `Speech` what has been saved of what is spoken. The proof
for `CallLife` counts rows by the positions they take, and adds `Standing`: no
playback before there is a consumer, none in `_speak_task` after the join.

*The end of a call.* `SessionEnds` needs fairness and stays with TLC; what it
needs of the program is proved. `StopGoesOn` lists the guards of the steps that
`stop()` or a task it awaits can take, and one of them always holds: the
consumer that is still there was cancelled at a point where it listens to that,
the playback that is joined is doomed, the stream is as far as the call thinks
(`InStep`), and the loop is free, because a consumer that was cancelled reads no
further text. `StopUnwinds` counts what is left: the three steps of `stop()`, the
consumer's end, and one step for each playback, since a doomed task has no
other. No step but the recogniser's leaves that number as it is.
`NoFinalDropped` does the same for `FinalAnswered`: `Heard` keeps the finals to
come in the queue, `Answered` the replies of the turns before.

*The process.* The invariant ties `creator`, `sidOf`, `phase` and `loop`
together: a call that talks created its session; one that failed to start wrote
nothing; the socket whose `latest` a call is stands where its phase says. For
the reader it says of an answer in progress what it lacks of the tables, and
that nothing is lacking once its end is set, a cut greeting excepted. From the
same invariant come two facts about steps: who could still change a session
whose call is over (nobody who talks, and the call stays over, so that the fact
holds of every later step; a namesake that closes may move the end mark, as
`mark_ended()` overwrites it), and what can
happen to a handler in `stop()` (the engine is there, since the server disposes
of it last; `latest` belongs to one socket only).

Only model-checked: liveness (`WaiterServed`, `GhostsLeave`, `TranscriptsEnd`,
`PlaybackEnds`, `SessionEnds`, `FinalAnswered`, `LeavingEndsTheSession`), which
needs fairness and `ENABLED` and is out of the prover's reach. For five of them the
part without fairness is a theorem: `NoWakeupIsLost` and `ServedInOrderHolds`,
`PlaybackAlwaysRunsOut`, `StopAlwaysGoesOn` and `StopOnlyUnwinds`,
`NoFinalIsDropped`, `LeavingAlwaysStops`.

## 5. What is not modelled

- Contents: texts, audio, tool inputs and outputs, token counts, latencies.
- `audio.py`, `security.py`, `middleware.py`, `logging.py`: stateless, or
  formatting. Of `config.py` only that `MaxCalls` is positive and whether Twilio
  is configured; the rest is validated before anything runs. Of `main.py` not the
  exception handlers and `/health`, of the migrations not `downgrade()`.
- The HTTP and WebSocket libraries, the database driver, Twilio's and Deepgram's
  servers: each is the set of outcomes that the code tells apart.
- Twilio's playout buffer, and marks, which the code ignores.
- The cancellation of a WebSocket handler in the middle of `stop()`: a server
  that drains closes the sockets and waits; one that is killed is `GoDown`.
- Bookings: `book_slot` confirms whatever it is asked and keeps nothing, so
  there is no state in which two bookings could collide.
- A bound on the tool loop, and the detection of a reader that crashed: the code
  has none, and states none to check.

## 6. Where code and documents disagree

Each is a run that fails as described.

- `admission_waits`: "When the gate is full, we return TwiML that politely ends
  the call" (`app/routers/twilio.py:10`). The webhook reserves nothing, so two
  telephones can pass it for one slot, and the second then waits in silence in
  `slot()`. The run has no browser.
- `llm_failure_ends_listening`: "the next final transcript drives the next turn"
  (`app/pipeline/orchestrator.py:7`). One exception in a turn ends the consumer;
  the call stays up and goes on recognising, and the final after it is not even
  written.
- `hang_up_loses_turns`: "persists every turn to PostgreSQL" (`README.md:8`). A
  final that is queued, or being committed, when the call ends is dropped.
- `no_short_circuit`: the manual tool loop is there to "short-circuit if the
  user starts speaking again" (`README.md:212`). The consumer awaits the turn, so
  the partial stays in the queue: tools are still started and the turn runs to
  its end. Only its reply is cut, when the partial is read right after the reply
  was created.
- `window_of_fifteen_dates`: "window cannot exceed 14 days"
  (`app/tools/check_availability.py:55`), and a test named
  `rejects_window_over_two_weeks` (`tests/test_tools.py:37`). The dates are
  inclusive (lines 28 and 33) and the code compares their difference, so fifteen
  dates are accepted. What is offered within such a window is right
  (`OffersMatchCalendar`).

Met while modelling, and visible in the model without a run of their own: the
greeting's row is written although synthesis failed, and not written when
barge-in meets its commit; a partial queued during a turn cuts the reply that
follows it before its first sound, though the transcript has it; "yes" does interrupt, against the comment beside
`BARGE_IN_MIN_CHARS` (3 is at the threshold); the records of the tools of a turn
that fails are lost though the tools have run; a refusal that carries `tool_use`
blocks leaves them unanswered in the history; `try_acquire_nowait` refuses, and
`active` is below the cap, while a permit is on its way to a waiter; a reader
that crashes leaves a socket that accepts audio and a stream that hears nothing;
a frame that is JSON but no object ends the call, although such frames are to be
"logged and ignored" (`app/routers/twilio.py:12`); a second start frame leaves
the first call running with nobody to stop it and its session open for good; a
call whose `call_sid` is taken ends the session of the other; an SMS can go out
after the call it belongs to has ended, without a record.

## 7. Plan

Done: every component that keeps state, its abstract specification where it has
one, the composition of all of them, and the theorems of section 4, which cover
every safety property that a run checks.

Left:

1. The two routers and the process in one module: `CallAdmission` and
   `MediaCalls` meet at "a socket that has its slot"; a refinement from the frame
   loops to `CallEnds` would close the seam as `CallLife` closes the other.
2. `TranscriptHasOneAuthor` and its neighbours with more than one process on one
   database, should the deployment run several workers.
3. The variants of the waiters of the gate and of a turn of the consumer, in the
   way of `StopOnlyUnwinds`.
