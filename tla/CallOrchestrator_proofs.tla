----------------------- MODULE CallOrchestrator_proofs -----------------------
(***************************************************************************)
(* Proofs about CallOrchestrator, for calls of any length, with any number *)
(* of tools and chunks and any set of failing services.                    *)
(*                                                                         *)
(* What was proved of the stream and of the playback tasks alone is used   *)
(* here through instances of their proof modules: every step of the call   *)
(* is shown to be a step of each half.  The rest of the invariant relates  *)
(* the three tasks: which of them can be there at which point of the call, *)
(* what the queue still holds, and what the transcript ends with while the *)
(* consumer is in the middle of a turn.                                    *)
(***************************************************************************)
EXTENDS CallOrchestrator, FiniteSetTheorems, TLAPS

SttProofs == INSTANCE DeepgramStream_proofs
                WITH Texts <- Transcripts, QueueBound <- MaxFinals + MaxPartials
TtsProofs == INSTANCE Playback_proofs

USE BoundsAssumption

Utterances == 0..MaxFinals
RowTypes == {"user", "assistant", "tool"} \X (0..MaxFinals)

Shape ==
    /\ call \in Started \cup {"joining", "closing", "done"}
    /\ consumer \in Alive \cup Gone
    /\ cut \in BOOLEAN
    /\ turn \in 0..MaxFinals
    /\ tools \in 0..MaxTools
    /\ session \in {"none", "open", "ended"}
    /\ rows \in Seq(RowTypes)
    /\ said \in 0..MaxFinals
    /\ partials \in 0..MaxPartials
    /\ Len(queue) <= said + partials

\* Before the session row is there, nothing of the call is.
Untouched ==
    call \in {"starting", "creating"} =>
        /\ consumer = "none" /\ ~cut /\ turn = 0
        /\ said = 0 /\ partials = 0 /\ queue = <<>>
        /\ rows = <<>> /\ session = "none"
        /\ \A u \in Utterances : play[u] = "none"

\* Which tasks there are at which point of the call.
Control ==
    /\ consumer \in Alive => /\ call \in {"live", "joining"}
                             /\ cut <=> call = "joining"
                             /\ session = "open"
                             /\ play[0] # "none"
    /\ call = "live" => session = "open"
    /\ call \in {"closing", "done"} => consumer \in Gone
    /\ session = "ended" => call = "done"
    /\ session = "none" => \A u \in Utterances : play[u] = "none"
    /\ call = "done" => closing = "done"
    /\ call \notin Started =>
         \A u \in Utterances : play[u] \in Tts!Running => u \in doomed
    /\ consumer \in Working => turn > 0
    /\ consumer = "saving_tools" => tools > 0

\* What has been spoken, and what has been written of it.
Speech ==
    /\ consumer \in Alive =>
         \A u \in Utterances : play[u] # "none" => u <= turn
    /\ SpokenIsSaved
    /\ consumer \in {"saving_tools", "replying"} => ReplyRow(turn) \in RowsSet
    /\ GreetingSavedUnlessCut

\* The same of any sequence of rows: the places of its conversation, what
\* may follow a row, and the order.
Places(s) == {i \in 1..Len(s) : s[i] # GreetingRow}

Follows(new, row) ==
    \/ new = ReplyRow(row[2])    /\ row[1] = "user"
    \/ new = ToolRow(row[2])     /\ row[1] # "user"
    \/ new = UserRow(row[2] + 1) /\ row[1] # "user"

Placed(s, j) ==
    \/ s[j] = UserRow(1) /\ \A i \in Places(s) : i >= j
    \/ \E i \in Places(s) :
          /\ i < j /\ \A k \in Places(s) : k <= i \/ k >= j
          /\ Follows(s[j], s[i])

InOrder(s) == \A j \in Places(s) : Placed(s, j)

\* The conversation ends with a row of the set K.
EndsWith(s, K) ==
    \E i \in Places(s) : s[i] \in K /\ \A k \in Places(s) : k <= i

EndsWithTurn(s, n) == IF n = 0 THEN Places(s) = {}
                               ELSE EndsWith(s, {ReplyRow(n), ToolRow(n)})

Talk ==
    /\ InOrder(rows)
    /\ consumer = "listening" => EndsWithTurn(rows, turn)
    /\ consumer = "saving_user" => EndsWithTurn(rows, turn - 1)
    /\ consumer \in {"thinking", "saving_reply"} => EndsWith(rows, {UserRow(turn)})
    /\ consumer \in {"saving_tools", "replying"} => EndsWithTurn(rows, turn)

\* The finals that wait in the queue are those after the present one, in
\* order and without a gap.
Heard ==
    consumer \in Alive =>
        /\ turn <= said
        /\ \A i \in 1..Len(queue) : queue[i].final =>
             queue[i].n > turn /\ queue[i].n <= said
        /\ \A i, j \in 1..Len(queue) :
             queue[i].final /\ queue[j].final /\ i < j => queue[i].n < queue[j].n
        /\ \A m \in 1..said : m > turn =>
             \E i \in 1..Len(queue) : queue[i] = Final(m)

OInv ==
    /\ SttProofs!Inv /\ TtsProofs!IInv
    /\ Shape /\ Untouched /\ Control /\ Speech /\ Talk /\ Heard

-----------------------------------------------------------------------------
(* The halves *)

\* The instances speak of the same steps.
LEMMA SameStt == [Stt!Next]_sttVars <=> [SttProofs!Next]_(SttProofs!vars)
  BY Zenon DEF sttVars, SttProofs!vars, Stt!Next, SttProofs!Next,
     Stt!Connect, SttProofs!Connect, Stt!Put, SttProofs!Put,
     Stt!ReaderDropped, SttProofs!ReaderDropped,
     Stt!ReaderCrashes, SttProofs!ReaderCrashes, Stt!Yield, SttProofs!Yield,
     Stt!Suspend, SttProofs!Suspend, Stt!End, SttProofs!End,
     Stt!Abandon, SttProofs!Abandon, Stt!CloseStart, SttProofs!CloseStart,
     Stt!CloseEnd, SttProofs!CloseEnd

\* And so do those of the playback tasks.
LEMMA SameTts == [Tts!Next]_ttsVars <=> [TtsProofs!Next]_(TtsProofs!vars)
  BY Zenon DEF ttsVars, TtsProofs!vars, Tts!Next, TtsProofs!Next,
     Tts!Utterances, TtsProofs!Utterances, Tts!InTurn, TtsProofs!InTurn,
     Tts!Greeting, TtsProofs!Greeting, Tts!Speak, TtsProofs!Speak,
     Tts!Begin, TtsProofs!Begin, Tts!SendChunk, TtsProofs!SendChunk,
     Tts!Finish, TtsProofs!Finish, Tts!Leave, TtsProofs!Leave,
     Tts!PlaybackFails, TtsProofs!PlaybackFails,
     Tts!Interrupt, TtsProofs!Interrupt, Tts!PersistEnds,
     TtsProofs!PersistEnds, Tts!CancelSpeak, TtsProofs!CancelSpeak,
     Tts!Cancelled, TtsProofs!Cancelled, Tts!IsSpeaking, TtsProofs!IsSpeaking,
     Tts!NoTask, TtsProofs!NoTask, Tts!Running, TtsProofs!Running

\* What the invariants of the halves say here.
LEMMA Halves ==
    ASSUME SttProofs!Inv, TtsProofs!IInv
    PROVE  /\ Stt!TypeOK /\ queue \in Seq(Transcripts)
           /\ reader = "running" => ws = "open"
           /\ closing = "done" => ws = "none"
           /\ Tts!TypeOK
           /\ current \in Utterances \cup {-1}
           /\ play \in [Utterances -> Tts!PlayStatus]
           /\ doomed \subseteq Utterances
           /\ chunks \in [Utterances -> 0..Chunks]
           /\ \A u \in Utterances :
                play[u] \in Tts!Running /\ u \notin doomed => u = current
           /\ \A u \in Utterances : play[u] # "none" => u <= current
  BY DEF SttProofs!Inv, SttProofs!TypeOK, Stt!TypeOK, TtsProofs!IInv,
     TtsProofs!TypeOK, Tts!TypeOK, TtsProofs!OneVoice, TtsProofs!CurrentIsLatest,
     TtsProofs!Utterances, Tts!Utterances, TtsProofs!NoTask, Tts!NoTask,
     TtsProofs!PlayStatus, Tts!PlayStatus, TtsProofs!Running, Tts!Running,
     Utterances

\* What the caller says is one of the texts the stream may carry.
LEMMA Recognised ==
    ASSUME Shape, Recognise
    PROVE  \E text \in Transcripts :
              /\ Stt!Put(text)
              /\ \/ text = Final(said + 1) /\ said' = said + 1
                                           /\ said < MaxFinals /\ partials' = partials
                 \/ ~text.final /\ said' = said
                                 /\ partials < MaxPartials /\ partials' = partials + 1
<1>1. CASE said < MaxFinals /\ Stt!Put(Final(said + 1))
           /\ said' = said + 1 /\ partials' = partials
  <2>1. said + 1 \in 1..MaxFinals
    BY <1>1, OrchestratorAssumption DEF Shape
  <2>2. Final(said + 1) \in Transcripts
    BY <2>1 DEF Transcripts
  <2> QED
    BY <1>1, <2>2
<1>2. ASSUME partials < MaxPartials, partials' = partials + 1, said' = said,
             NEW len \in PartialLengths, Stt!Put(Partial(len))
      PROVE  \E text \in Transcripts :
                Stt!Put(text) /\ ~text.final
  <2>1. Partial(len) \in Transcripts /\ ~Partial(len).final
    BY <1>2 DEF Transcripts, Partial
  <2> QED
    BY <1>2, <2>1
<1> QED
  BY <1>1, <1>2 DEF Recognise

\* Every step of the call is a step of the recogniser stream, or none.
LEMMA SttStep == OInv /\ [Next]_vars => [Stt!Next]_sttVars
<1> SUFFICES ASSUME OInv, [Next]_vars PROVE [Stt!Next]_sttVars
  OBVIOUS
<1> USE DEF Stt!Next
<1>1. CASE HandlerStep \/ HangUp \/ FrameFails
  BY <1>1 DEF HandlerStep, HangUp, FrameFails, StartConnect, StartCreate,
     StartFails, StopJoined, StopClose, StopMarkEnded
<1>2. CASE ConsumerStep
  BY <1>2 DEF ConsumerStep, HearPartial, HearFinal, HearNothing, SaveUser,
     RunTool, TurnDone, SaveReply, SaveTool, Reply, TurnFails,
     ConsumerCancelled, Goes
<1>3. CASE PersistGreeting \/ \E u \in Tts!Utterances : PlaybackStep(u)
  BY <1>3 DEF PersistGreeting, PlaybackStep
<1>4. CASE Recognise
  <2>1. PICK text \in Transcripts : Stt!Put(text)
    BY <1>4, Recognised DEF OInv
  <2>2. Len(queue) < MaxFinals + MaxPartials
    <3>1. Len(queue) \in Nat
      BY Halves DEF OInv
    <3> QED
      BY <1>4, <3>1, OrchestratorAssumption DEF Recognise, OInv, Shape
  <2> QED
    BY <2>1, <2>2
<1>5. CASE ReaderStops
  BY <1>5 DEF ReaderStops
<1>6. CASE UNCHANGED vars
  BY <1>6 DEF vars
<1> QED
  BY <1>1, <1>2, <1>3, <1>4, <1>5, <1>6 DEF Next

\* Every step of the call is a step of the playback tasks, or none.
LEMMA TtsStep == OInv /\ [Next]_vars => [Tts!Next]_ttsVars
<1> SUFFICES ASSUME OInv, [Next]_vars PROVE [Tts!Next]_ttsVars
  OBVIOUS
<1> USE DEF Tts!Next
<1>1. CASE StartCreate
  <2>1. Tts!Speak(0) /\ \A u \in Utterances : play[u] = "none"
    BY <1>1 DEF StartCreate, OInv, Untouched, Tts!Greeting
  <2>2. 0 \in Tts!Utterances /\ Tts!InTurn(0)
    BY <2>1, OrchestratorAssumption
    DEF Tts!InTurn, Tts!Greeting, Tts!Utterances, Utterances
  <2> QED
    BY <2>1, <2>2
<1>2. CASE Reply
  <2>1. CASE Tts!Speak(turn)
    <3>1. turn \in Tts!Utterances
      BY DEF OInv, Shape, Tts!Utterances
    <3>2. consumer \in Alive
      BY <1>2 DEF Reply, Goes, Alive, Working
    <3>3. Tts!InTurn(turn)
      BY <3>1, <3>2 DEF OInv, Control, Speech, Tts!InTurn, Tts!Greeting,
         Tts!Utterances, Utterances
    <3> QED
      BY <2>1, <3>1, <3>3
  <2> QED
    BY <1>2, <2>1 DEF Reply
<1>3. CASE StartFails \/ HangUp \/ FrameFails
  BY <1>3 DEF StartFails, HangUp, FrameFails, Stopping
<1>4. CASE HearPartial
  BY <1>4 DEF HearPartial
<1>5. CASE StartConnect \/ StopJoined \/ StopClose \/ StopMarkEnded
  BY <1>5 DEF StartConnect, StopJoined, StopClose, StopMarkEnded
<1>6. CASE HearFinal \/ HearNothing \/ SaveUser \/ RunTool \/ TurnDone
             \/ SaveReply \/ SaveTool \/ TurnFails \/ ConsumerCancelled
  BY <1>6 DEF HearFinal, HearNothing, SaveUser, RunTool, TurnDone, SaveReply,
     SaveTool, TurnFails, ConsumerCancelled
<1>7. CASE \E u \in Tts!Utterances : PlaybackStep(u)
  BY <1>7 DEF PlaybackStep
<1>8. CASE PersistGreeting
  <2>1. Tts!Greeting \in Tts!Utterances
    BY OrchestratorAssumption DEF Tts!Greeting, Tts!Utterances
  <2> QED
    BY <1>8, <2>1 DEF PersistGreeting
<1>9. CASE Recognise \/ ReaderStops \/ UNCHANGED vars
  BY <1>9 DEF Recognise, ReaderStops, vars
<1> QED
  BY <1>1, <1>2, <1>3, <1>4, <1>5, <1>6, <1>7, <1>8, <1>9
  DEF Next, HandlerStep, ConsumerStep

\* So what was proved of the halves alone stays true in the call.
LEMMA HalvesKeep == OInv /\ [Next]_vars => SttProofs!Inv' /\ TtsProofs!IInv'
<1> SUFFICES ASSUME OInv, [Next]_vars
             PROVE  SttProofs!Inv' /\ TtsProofs!IInv'
  OBVIOUS
<1>1. SttProofs!Inv'
  BY SttStep, SameStt, SttProofs!NextInv DEF OInv
<1>2. TtsProofs!BoundsAssumption
  BY OrchestratorAssumption DEF TtsProofs!BoundsAssumption
<1>3. TtsProofs!IInv'
  BY <1>2, TtsStep, SameTts, TtsProofs!NextKeeps DEF OInv
<1> QED
  BY <1>1, <1>3

-----------------------------------------------------------------------------
(* The invariant *)

\* An orchestrator that has not been started yet satisfies the invariant.
LEMMA InitOInv == Init => OInv
<1> SUFFICES ASSUME Init PROVE OInv
  OBVIOUS
<1>1. SttProofs!Inv
  BY SttProofs!InitInv DEF Init, Stt!Init, SttProofs!Init
<1>2. TtsProofs!IInv
  <2>1. TtsProofs!BoundsAssumption
    BY OrchestratorAssumption DEF TtsProofs!BoundsAssumption
  <2>2. TtsProofs!Init
    BY DEF Init, Tts!Init, TtsProofs!Init, Tts!Utterances,
       TtsProofs!Utterances, Tts!NoTask, TtsProofs!NoTask
  <2> QED
    BY <2>1, <2>2, TtsProofs!InitIInv
<1>3. rows = <<>> /\ queue = <<>> /\ \A u \in Utterances : play[u] = "none"
  BY DEF Init, Stt!Init, Tts!Init, Tts!Utterances, Utterances
<1>4. Shape
  <2>1. rows \in Seq(RowTypes) /\ Len(queue) = 0
    BY <1>3
  <2>2. /\ call = "starting" /\ session = "none" /\ consumer = "none"
        /\ cut = FALSE /\ turn = 0 /\ tools = 0 /\ said = 0 /\ partials = 0
    BY DEF Init
  <2>3. cut \in BOOLEAN
    BY <2>2, Zenon
  <2>4. turn \in 0..MaxFinals /\ said \in 0..MaxFinals
        /\ tools \in 0..MaxTools /\ partials \in 0..MaxPartials
    BY <2>2, OrchestratorAssumption
  <2>5. Len(queue) <= said + partials
    BY <2>1, <2>2
  <2> QED
    BY <2>1, <2>2, <2>3, <2>4, <2>5 DEF Shape, Started, Gone
<1>5. Untouched
  BY <1>3 DEF Init, Untouched
<1>6. Control
  BY <1>3 DEF Init, Control, Alive, Working, Started
<1>7. Speech
  <2>1. \A n \in 1..MaxFinals : n \in Utterances
    BY OrchestratorAssumption DEF Utterances
  <2>2. Tts!Greeting \in Utterances
    BY OrchestratorAssumption DEF Utterances, Tts!Greeting
  <2> QED
    BY <1>3, <2>1, <2>2 DEF Init, Speech, SpokenIsSaved,
       GreetingSavedUnlessCut, Alive, Working
<1>8. Talk
  <2>1. Places(rows) = {}
    BY <1>3 DEF Places
  <2> QED
    BY <2>1 DEF Init, Talk, InOrder
<1>9. Heard
  BY DEF Init, Heard, Alive, Working
<1> QED
  BY <1>1, <1>2, <1>4, <1>5, <1>6, <1>7, <1>8, <1>9 DEF OInv

\* The types of the orchestrator's own state.
LEMMA ShapeKeeps == OInv /\ [Next]_vars => Shape'
<1> SUFFICES ASSUME OInv, [Next]_vars PROVE Shape'
  OBVIOUS
<1>a. queue \in Seq(Transcripts) /\ Len(queue) \in Nat
  BY Halves DEF OInv
<1> USE OrchestratorAssumption DEF OInv, Shape, Started, Alive, Working, Gone
<1>1. CASE StartConnect
  BY <1>1 DEF StartConnect, Stt!Connect, handlerVars, consumerVars, spokenVars
<1>2. CASE StartCreate
  BY <1>2 DEF StartCreate, sttVars, handlerVars, consumerVars, spokenVars
<1>3. CASE StartFails \/ HangUp \/ FrameFails
  <2>1. cut' = (consumer \in Alive) /\ call' = "joining"
        /\ session' \in {session, "open"}
        /\ UNCHANGED <<sttVars, consumer, turn, tools, rows, spokenVars>>
    BY <1>3 DEF StartFails, HangUp, FrameFails, Stopping
  <2>2. cut' \in BOOLEAN
    <3>1. cut' = (consumer \in Alive)
      BY <2>1
    <3>2. (consumer \in Alive) \in BOOLEAN
      OBVIOUS
    <3> QED
      BY ONLY <3>1, <3>2, Zenon
  <2> QED
    BY <2>1, <2>2 DEF sttVars, spokenVars
<1>4. CASE StopJoined
  BY <1>4 DEF StopJoined, Stt!CloseStart, consumerVars, spokenVars
<1>5. CASE StopClose
  BY <1>5 DEF StopClose, Stt!CloseEnd, handlerVars, consumerVars, spokenVars
<1>6. CASE StopMarkEnded
  BY <1>6 DEF StopMarkEnded, sttVars, consumerVars, spokenVars
<1>7. CASE HearPartial
  <2>1. Len(queue') <= Len(queue)
    BY <1>7, <1>a DEF HearPartial, Stt!Yield
  <2>2. UNCHANGED <<handlerVars, consumerVars, rows, spokenVars>>
    BY <1>7 DEF HearPartial
  <2>3. Len(queue') \in Nat
    BY <1>7, <1>a DEF HearPartial, Stt!Yield
  <2> QED
    BY <2>1, <2>2, <2>3, <1>a DEF handlerVars, consumerVars, spokenVars
<1>8. CASE HearFinal
  <2>1. Len(queue') <= Len(queue) /\ Len(queue') \in Nat
    BY <1>8, <1>a DEF HearFinal, Stt!Yield
  <2>2. Head(queue) \in Transcripts
    BY <1>8, <1>a DEF HearFinal, Stt!Yield
  <2>3. Head(queue).n \in 0..MaxFinals
    BY <2>2 DEF Transcripts, Final, Partial
  <2> QED
    BY <1>8, <1>a, <2>1, <2>3 DEF HearFinal, handlerVars, spokenVars
<1>9. CASE HearNothing
  BY <1>9 DEF HearNothing, Stt!Suspend, Stt!End, handlerVars, spokenVars
<1>10. CASE SaveUser
  <2>1. UserRow(turn) \in RowTypes
    BY DEF UserRow, RowTypes
  <2> QED
    BY <1>10, <2>1 DEF SaveUser, Goes, sttVars, handlerVars, spokenVars
<1>11. CASE RunTool \/ TurnDone
  BY <1>11 DEF RunTool, TurnDone, Goes, sttVars, handlerVars, spokenVars
<1>12. CASE SaveReply
  <2>1. ReplyRow(turn) \in RowTypes
    BY DEF ReplyRow, RowTypes
  <2> QED
    BY <1>12, <2>1 DEF SaveReply, Goes, sttVars, handlerVars, spokenVars
<1>13. CASE SaveTool
  <2>1. ToolRow(turn) \in RowTypes
    BY DEF ToolRow, RowTypes
  <2>2. tools > 0
    BY <1>13 DEF SaveTool, Goes, Control
  <2> QED
    BY <1>13, <2>1, <2>2 DEF SaveTool, Goes, sttVars, handlerVars, spokenVars
<1>14. CASE Reply
  BY <1>14 DEF Reply, Goes, sttVars, handlerVars, spokenVars
<1>15. ASSUME CommitUnknown PROVE rows' \in Seq(RowTypes)
  <2>1. \A row \in InFlight : row \in RowTypes
    BY DEF InFlight, UserRow, ReplyRow, ToolRow, RowTypes
  <2> QED
    BY <1>15, <2>1 DEF CommitUnknown
<1>16. CASE TurnFails \/ ConsumerCancelled
  <2>1. rows' \in Seq(RowTypes)
    BY <1>15, <1>16 DEF TurnFails, ConsumerCancelled
  <2> QED
    BY <1>16, <2>1 DEF TurnFails, ConsumerCancelled, Stt!Abandon, handlerVars,
       spokenVars
<1>17. CASE \E u \in Tts!Utterances : PlaybackStep(u)
  BY <1>17 DEF PlaybackStep, sttVars, handlerVars, consumerVars, spokenVars
<1>18. CASE PersistGreeting
  <2>1. GreetingRow \in RowTypes
    BY DEF GreetingRow, ReplyRow, Tts!Greeting, RowTypes
  <2> QED
    BY <1>18, <2>1 DEF PersistGreeting, sttVars, handlerVars, consumerVars,
       spokenVars
<1>19. CASE Recognise
  <2>1. PICK text \in Transcripts :
           /\ Stt!Put(text)
           /\ \/ said' = said + 1 /\ said < MaxFinals /\ partials' = partials
              \/ said' = said /\ partials < MaxPartials
                              /\ partials' = partials + 1
    BY <1>19, Recognised
  <2>2. Len(queue') = Len(queue) + 1
    BY <2>1, <1>a DEF Stt!Put
  <2>3. UNCHANGED <<handlerVars, consumerVars, rows>>
    BY <1>19 DEF Recognise
  <2> QED
    BY <2>1, <2>2, <2>3, <1>a DEF handlerVars, consumerVars
<1>20. CASE ReaderStops
  BY <1>20 DEF ReaderStops, Stt!ReaderDropped, Stt!ReaderCrashes, handlerVars,
     consumerVars, spokenVars
<1>21. CASE UNCHANGED vars
  BY <1>21 DEF vars, sttVars, handlerVars, consumerVars, spokenVars
<1> QED
  BY <1>1, <1>2, <1>3, <1>4, <1>5, <1>6, <1>7, <1>8, <1>9, <1>10, <1>11,
     <1>12, <1>13, <1>14, <1>16, <1>17, <1>18, <1>19, <1>20, <1>21
  DEF Next, HandlerStep, ConsumerStep

\* Playback tasks are created by the greeting and by replies only; in every
\* other step they go on, or end, and a cancellation is never taken back.
NoNewTask ==
    /\ \A u \in Utterances :
         /\ play'[u] = "none" <=> play[u] = "none"
         /\ play'[u] \in Tts!Running => play[u] \in Tts!Running
    /\ doomed \subseteq doomed'

Created(u) ==
    /\ play[u] = "none"
    /\ play' = [play EXCEPT ![u] = "scheduled"]

\* A step in the body of a playback task creates no task.
LEMMA BodyCreatesNone ==
    ASSUME TtsProofs!IInv, NEW u \in Utterances,
           \/ Tts!Begin(u) \/ Tts!SendChunk(u) \/ Tts!Finish(u)
           \/ Tts!PlaybackFails(u) \/ Tts!Interrupt(u) \/ Tts!PersistEnds(u)
    PROVE  NoNewTask
<1>1. play \in [Utterances -> Tts!PlayStatus]
  BY DEF TtsProofs!IInv, TtsProofs!TypeOK, TtsProofs!Utterances, Utterances,
     TtsProofs!PlayStatus, Tts!PlayStatus, TtsProofs!Running, Tts!Running
<1>2. CASE Tts!SendChunk(u)
  BY <1>2 DEF Tts!SendChunk, NoNewTask
<1>3. ASSUME NEW s \in Tts!PlayStatus \ {"none"}, play[u] \in Tts!Running,
             play' = [play EXCEPT ![u] = s], doomed' = doomed
      PROVE  NoNewTask
  BY <1>1, <1>3 DEF NoNewTask, Tts!PlayStatus, Tts!Running
<1>4. CASE Tts!Begin(u)
  <2>1. CASE u \in doomed
    BY <1>3, <1>4, <2>1 DEF Tts!Begin, Tts!PlayStatus, Tts!Running
  <2>2. CASE u \notin doomed
    BY <1>3, <1>4, <2>2 DEF Tts!Begin, Tts!PlayStatus, Tts!Running
  <2> QED
    BY <2>1, <2>2
<1>5. CASE Tts!Finish(u) \/ Tts!PlaybackFails(u)
  <2>1. play[u] \in Tts!Running /\ Tts!Leave(u)
    BY <1>5 DEF Tts!Finish, Tts!PlaybackFails, Tts!Running
  <2> QED
    BY <1>3, <2>1 DEF Tts!Leave, Tts!PlayStatus, Tts!Running
<1>6. CASE Tts!Interrupt(u)
  BY <1>3, <1>6 DEF Tts!Interrupt, Tts!PlayStatus, Tts!Running
<1>7. CASE Tts!PersistEnds(u)
  BY <1>3, <1>7 DEF Tts!PersistEnds, Tts!PlayStatus, Tts!Running
<1> QED
  BY <1>2, <1>4, <1>5, <1>6, <1>7

\* Only start() and the consumer create playback tasks.
LEMMA NoneCreated ==
    ASSUME OInv, [Next]_vars
    PROVE  \/ NoNewTask
           \/ StartCreate /\ Created(0) /\ doomed \subseteq doomed'
           \/ Reply /\ Created(turn) /\ doomed \subseteq doomed'
<1>1. CASE StartCreate
  BY <1>1 DEF StartCreate, Tts!Speak, Tts!Greeting, Tts!Cancelled, Created
<1>2. CASE Reply
  BY <1>2 DEF Reply, Tts!Speak, Tts!Cancelled, Created, NoNewTask, ttsVars
<1>3. CASE StartFails \/ HangUp \/ FrameFails
  BY <1>3 DEF StartFails, HangUp, FrameFails, Stopping, Tts!CancelSpeak,
     Tts!Cancelled, NoNewTask
<1>4. CASE HearPartial
  BY <1>4 DEF HearPartial, Tts!CancelSpeak, Tts!Cancelled, NoNewTask, ttsVars
<1>5. CASE StartConnect \/ StopJoined \/ StopClose \/ StopMarkEnded
  BY <1>5 DEF StartConnect, StopJoined, StopClose, StopMarkEnded, NoNewTask,
     ttsVars
<1>6. CASE HearFinal \/ HearNothing \/ SaveUser \/ RunTool \/ TurnDone
             \/ SaveReply \/ SaveTool \/ TurnFails \/ ConsumerCancelled
  BY <1>6 DEF HearFinal, HearNothing, SaveUser, RunTool, TurnDone, SaveReply,
     SaveTool, TurnFails, ConsumerCancelled, NoNewTask, ttsVars
<1>7. ASSUME NEW u \in Tts!Utterances, PlaybackStep(u) PROVE NoNewTask
  BY <1>7, BodyCreatesNone DEF PlaybackStep, OInv, Utterances, Tts!Utterances
<1>8. CASE PersistGreeting
  <2>1. Tts!Greeting \in Utterances
    BY OrchestratorAssumption DEF Tts!Greeting, Utterances
  <2> QED
    BY <1>8, <2>1, BodyCreatesNone DEF PersistGreeting, OInv
<1>9. CASE Recognise \/ ReaderStops \/ UNCHANGED vars
  BY <1>9 DEF Recognise, ReaderStops, vars, NoNewTask, ttsVars
<1> QED
  BY <1>1, <1>2, <1>3, <1>4, <1>5, <1>6, <1>7, <1>8, <1>9
  DEF Next, HandlerStep, ConsumerStep

\* Nothing of the call is there before its session row.
LEMMA UntouchedKeeps == OInv /\ [Next]_vars => Untouched'
<1> SUFFICES ASSUME OInv, [Next]_vars, call' \in {"starting", "creating"}
             PROVE  Untouched'
  BY DEF Untouched
<1>1. CASE UNCHANGED vars
  BY <1>1 DEF vars, sttVars, ttsVars, handlerVars, consumerVars, spokenVars,
     OInv, Untouched
<1>2. CASE StartConnect
  BY <1>2 DEF StartConnect, Stt!Connect, ttsVars, consumerVars, spokenVars,
     OInv, Untouched
<1>3. CASE HandlerStep \/ HangUp \/ FrameFails
  BY <1>2, <1>3 DEF HandlerStep, HangUp, FrameFails, StartCreate, StartFails,
     Stopping, StopJoined, StopClose, StopMarkEnded, handlerVars,
     OInv, Untouched
<1>4. CASE ConsumerStep
  <2>1. consumer = "none" /\ ~cut
    BY <1>4 DEF ConsumerStep, HearPartial, HearFinal, HearNothing, SaveUser,
       RunTool, TurnDone, SaveReply, SaveTool, Reply, TurnFails,
       ConsumerCancelled, Goes, handlerVars, OInv, Untouched
  <2> QED
    BY <1>4, <2>1 DEF ConsumerStep, HearPartial, HearFinal, HearNothing,
       SaveUser, RunTool, TurnDone, SaveReply, SaveTool, Reply, TurnFails,
       ConsumerCancelled, Goes, Alive, Working
<1>5. CASE PersistGreeting \/ \E u \in Tts!Utterances : PlaybackStep(u)
  <2>1. call \in {"starting", "creating"}
    BY <1>5 DEF PersistGreeting, PlaybackStep, handlerVars
  <2>2. \A u \in Utterances : play[u] = "none"
    BY <2>1 DEF OInv, Untouched
  <2>3. Tts!Greeting \in Utterances /\ Tts!Utterances = Utterances
    BY OrchestratorAssumption DEF Tts!Greeting, Utterances, Tts!Utterances
  <2> QED
    BY <1>5, <2>2, <2>3 DEF PersistGreeting, PlaybackStep, Tts!Begin,
       Tts!SendChunk, Tts!Finish, Tts!Interrupt, Tts!PlaybackFails,
       Tts!PersistEnds
<1>6. CASE Recognise
  BY <1>6 DEF Recognise, handlerVars
<1>7. CASE ReaderStops
  BY <1>7 DEF ReaderStops, Stt!ReaderDropped, Stt!ReaderCrashes, ttsVars,
     handlerVars, consumerVars, spokenVars, OInv, Untouched
<1> QED
  BY <1>1, <1>3, <1>4, <1>5, <1>6, <1>7 DEF Next

\* When stop() cancels playback, what was left running is cancelled.
LEMMA StoppingDooms ==
    ASSUME OInv, Stopping
    PROVE  \A u \in Utterances : play'[u] \in Tts!Running => u \in doomed'
<1>1. play' = play /\ doomed' = Tts!Cancelled
  BY DEF Stopping, Tts!CancelSpeak
<1> SUFFICES ASSUME NEW u \in Utterances, play[u] \in Tts!Running, u \notin doomed
             PROVE  u \in doomed'
  BY <1>1 DEF Tts!Cancelled
<1>2. u = current
  BY Halves DEF OInv
<1>3. Tts!IsSpeaking
  BY <1>2, OrchestratorAssumption DEF Tts!IsSpeaking, Tts!NoTask, Utterances
<1> QED
  BY <1>1, <1>2, <1>3 DEF Tts!Cancelled

\* The final at the head of the queue is the next one to be spoken of.
LEMMA NextFinal ==
    ASSUME OInv, HearFinal
    PROVE  /\ Head(queue) = Final(turn + 1) /\ turn + 1 <= said
           /\ turn' = turn + 1
<1>1. /\ queue \in Seq(Transcripts) /\ Len(queue) > 0 /\ Head(queue) = queue[1]
      /\ queue[1].final /\ consumer = "listening" /\ turn' = queue[1].n
      /\ queue[1] \in Transcripts
  BY Halves DEF HearFinal, Stt!Yield, OInv
<1>2. consumer \in Alive
  BY <1>1 DEF Alive
<1>3. queue[1].n > turn /\ queue[1].n <= said
  BY <1>1, <1>2 DEF OInv, Heard
<1>4. queue[1] = Final(queue[1].n) /\ queue[1].n \in Nat
  <2>1. queue[1] \in {Final(n) : n \in 1..MaxFinals}
    BY <1>1 DEF Transcripts, Partial
  <2>2. PICK n \in 1..MaxFinals : queue[1] = Final(n)
    BY <2>1
  <2> QED
    BY <2>2 DEF Final
<1>5. turn \in Nat /\ said \in Nat
  BY DEF OInv, Shape
<1>6. PICK i \in 1..Len(queue) : queue[i] = Final(turn + 1)
  <2>1. turn + 1 \in 1..said /\ turn + 1 > turn
    BY <1>3, <1>4, <1>5
  <2> QED
    BY <1>2, <2>1 DEF OInv, Heard
<1>7. queue[i].final /\ queue[i].n = turn + 1
  BY <1>6 DEF Final
<1>8. i = 1
  <2>1. i > 1 => queue[1].n < queue[i].n
    BY <1>1, <1>2, <1>7 DEF OInv, Heard
  <2> QED
    BY <1>1, <1>3, <1>4, <1>5, <1>7, <2>1
<1> QED
  BY <1>1, <1>3, <1>4, <1>5, <1>6, <1>8, <1>7

\* The tasks there are stay those the point of the call allows.
LEMMA ControlKeeps == OInv /\ [Next]_vars => Control'
<1> SUFFICES ASSUME OInv, [Next]_vars PROVE Control'
  OBVIOUS
<1>z. 0 \in Utterances /\ turn \in Utterances /\ Tts!Utterances = Utterances
  BY OrchestratorAssumption DEF Utterances, OInv, Shape, Tts!Utterances
<1>y. Shape /\ Control /\ Untouched
  BY DEF OInv
<1>x. play \in [Utterances -> Tts!PlayStatus]
  BY Halves DEF OInv
\* A step of the tasks, seen from the handler.
<1>a. ASSUME NoNewTask, UNCHANGED <<call, session, cut>>, closing' = closing,
             consumer' \in Alive => consumer \in Alive,
             consumer \in Gone => consumer' \in Gone,
             consumer' \in Working => turn' > 0,
             consumer' = "saving_tools" => tools' > 0
      PROVE  Control'
  <2>1. play'[0] = "none" <=> play[0] = "none"
    BY <1>a, <1>z DEF NoNewTask
  <2>2. session' = "none" => \A u \in Utterances : play'[u] = "none"
    BY <1>a, <1>y DEF NoNewTask, Control
  <2>3. call' \notin Started =>
          \A u \in Utterances : play'[u] \in Tts!Running => u \in doomed'
    BY <1>a, <1>y DEF NoNewTask, Control
  <2> QED
    BY <1>a, <1>y, <2>1, <2>2, <2>3 DEF Control
<1>1. CASE StartCreate
  <2>1. /\ call' = "live" /\ session' = "open" /\ consumer' = "listening"
        /\ UNCHANGED cut /\ call = "creating" /\ Created(0)
    BY <1>1 DEF StartCreate, Tts!Speak, Tts!Greeting, Created
  <2>2. play'[0] = "scheduled"
    BY <2>1, <1>x, <1>z DEF Created
  <2>3. ~cut
    BY <2>1, <1>y DEF Untouched
  <2> QED
    BY <2>1, <2>2, <2>3 DEF Control, Alive, Working, Gone, Started
<1>2. CASE StartFails \/ HangUp \/ FrameFails
  <2>1. /\ Stopping /\ call' = "joining" /\ cut' = (consumer \in Alive)
        /\ UNCHANGED <<consumer, turn, tools>> /\ play' = play
        /\ session' \in {session, "open"}
        /\ call \in Started /\ (consumer \in Alive => call = "live")
        /\ closing' = closing
    BY <1>2, <1>y DEF StartFails, HangUp, FrameFails, Stopping, Tts!CancelSpeak,
       Started, sttVars, Untouched, Alive, Working
  <2>2. \A u \in Utterances : play'[u] \in Tts!Running => u \in doomed'
    BY <2>1, StoppingDooms
  <2>3. consumer' \in Alive => cut'
    BY <2>1, Zenon
  <2>4. session # "ended"
    BY <2>1, <1>y DEF Control, Started
  <2> QED
    BY <2>1, <2>2, <2>3, <2>4, <1>y DEF Control, Alive, Working
<1>3. CASE StopJoined
  <2>1. NoNewTask /\ consumer \in Gone /\ call = "joining"
    BY <1>3 DEF StopJoined, ttsVars, NoNewTask
  <2>2. /\ call' = "closing" /\ UNCHANGED <<session, consumer, turn, tools, play>>
        /\ doomed' = doomed
    BY <1>3 DEF StopJoined, ttsVars, consumerVars
  <2>3. session # "ended" /\ (\A u \in Utterances :
                                 play[u] \in Tts!Running => u \in doomed)
    BY <2>1, <1>y DEF Control, Started
  <2>4. consumer' \notin Alive
    BY <2>1, <2>2 DEF Alive, Working, Gone
  <2> QED
    BY <2>1, <2>2, <2>3, <2>4, <1>y DEF Control, Alive, Working, Gone
<1>4. CASE StopMarkEnded
  <2>1. /\ call = "closing" /\ closing = "done" /\ call' = "done"
        /\ UNCHANGED <<consumer, turn, tools, play, doomed, closing>>
        /\ session' = "none" => session = "none"
    BY <1>4 DEF StopMarkEnded, ttsVars, sttVars, consumerVars
  <2>2. consumer \in Gone
    BY <2>1, <1>y DEF Control
  <2>3. \A u \in Utterances : play[u] \in Tts!Running => u \in doomed
    BY <2>1, <1>y DEF Control, Started
  <2> QED
    BY <2>1, <2>2, <2>3, <1>y DEF Control, Alive, Working, Gone
<1>5. CASE StopClose
  <2>1. /\ closing' = "done" /\ UNCHANGED <<call, session, cut, consumer, turn, tools>>
        /\ UNCHANGED <<play, doomed>>
    BY <1>5 DEF StopClose, Stt!CloseEnd, handlerVars, consumerVars, ttsVars
  <2> QED
    BY <2>1, <1>y DEF Control
<1>6. CASE StartConnect
  <2>1. /\ call = "starting" /\ call' = "creating"
        /\ UNCHANGED <<session, cut, consumer, turn, tools, play, doomed, closing>>
    BY <1>6 DEF StartConnect, Stt!Connect, consumerVars, ttsVars
  <2> QED
    BY <2>1, <1>y DEF Control, Untouched, Alive, Working, Gone, Started
<1>7. CASE Reply
  <2>1. /\ UNCHANGED <<call, session, cut, turn, tools, closing>>
        /\ consumer = "replying" /\ consumer' = "listening"
    BY <1>7 DEF Reply, Goes, handlerVars, sttVars
  <2>2. CASE NoNewTask
    BY <1>a, <2>1, <2>2 DEF Alive, Working, Gone
  <2>3. CASE Created(turn) /\ doomed \subseteq doomed'
    <3>1. /\ session = "open" /\ ~cut /\ call \in {"live", "joining"}
          /\ (cut <=> call = "joining") /\ play[0] # "none"
      BY <1>7, <2>1, <1>y DEF Reply, Goes, Control, Alive, Working
    <3>2. call = "live"
      BY <3>1
    <3>3. play'[0] # "none"
      BY <2>3, <3>1, <1>x, <1>z DEF Created
    <3> QED
      BY <2>1, <3>1, <3>2, <3>3 DEF Control, Working, Alive, Gone, Started
  <2> QED
    BY <1>7, <2>2, <2>3 DEF Reply, Tts!Speak, Tts!Cancelled, Created,
       NoNewTask, ttsVars
<1>8. CASE ConsumerStep /\ ~Reply
  <2>1. NoNewTask
    BY <1>8, NoneCreated DEF ConsumerStep, StartCreate, HearPartial, HearFinal,
       HearNothing, SaveUser, RunTool, TurnDone, SaveReply, SaveTool, TurnFails,
       ConsumerCancelled, Goes, handlerVars, Created
  <2>2. UNCHANGED <<call, session, cut>> /\ closing' = closing
    BY <1>8 DEF ConsumerStep, HearPartial, HearFinal, HearNothing, SaveUser,
       RunTool, TurnDone, SaveReply, SaveTool, TurnFails, ConsumerCancelled,
       Goes, handlerVars, sttVars, consumerVars, Stt!Yield, Stt!Suspend,
       Stt!End, Stt!Abandon
  <2>3. CASE HearPartial
    BY <1>a, <2>1, <2>2, <2>3, <1>y DEF HearPartial, consumerVars, Control
  <2>4. CASE HearFinal
    <3>1. turn' > 0
      BY <2>4, NextFinal, <1>y DEF Shape
    <3> QED
      BY <1>a, <2>1, <2>2, <2>4, <3>1 DEF HearFinal, Alive, Working, Gone
  <2>5. CASE HearNothing
    BY <1>a, <2>1, <2>2, <2>5, <1>y DEF HearNothing, Alive, Working, Gone
  <2>6. CASE SaveUser \/ RunTool \/ TurnDone
    BY <1>a, <2>1, <2>2, <2>6, <1>y DEF SaveUser, RunTool, TurnDone, Goes,
       Alive, Working, Gone, Control
  <2>7. CASE SaveReply
    <3>1. tools \in Nat
      BY <1>y, OrchestratorAssumption DEF Shape
    <3> QED
      BY <1>a, <2>1, <2>2, <2>7, <3>1, <1>y DEF SaveReply, Goes,
         Alive, Working, Gone, Control
  <2>8. CASE SaveTool
    <3>1. tools \in Nat /\ tools > 0
      BY <2>8, <1>y, OrchestratorAssumption DEF Shape, SaveTool, Goes, Control
    <3> QED
      BY <1>a, <2>1, <2>2, <2>8, <3>1, <1>y DEF SaveTool, Goes,
         Alive, Working, Gone, Control
  <2>9. CASE TurnFails \/ ConsumerCancelled
    BY <1>a, <2>1, <2>2, <2>9 DEF TurnFails, ConsumerCancelled,
       Alive, Working, Gone
  <2> QED
    BY <1>8, <2>3, <2>4, <2>5, <2>6, <2>7, <2>8, <2>9 DEF ConsumerStep
<1>9. CASE PersistGreeting \/ (\E u \in Tts!Utterances : PlaybackStep(u))
             \/ Recognise \/ ReaderStops \/ UNCHANGED vars
  <2>1. /\ UNCHANGED <<call, session, cut, consumer, turn, tools>>
        /\ closing' = closing
    BY <1>9 DEF PersistGreeting, PlaybackStep, Recognise, ReaderStops, vars,
       handlerVars, consumerVars, sttVars, Stt!Put, Stt!ReaderDropped,
       Stt!ReaderCrashes
  <2>2. NoNewTask
    BY <2>1, NoneCreated, <1>9 DEF StartCreate, Reply, Goes
  <2> QED
    BY <1>a, <2>1, <2>2, <1>y DEF Control
<1> QED
  BY <1>1, <1>2, <1>3, <1>4, <1>5, <1>6, <1>7, <1>8, <1>9
  DEF Next, HandlerStep

-----------------------------------------------------------------------------
(* The transcript *)

\* TurnsInOrder is the order of the rows.
LEMMA SameOrder == TurnsInOrder <=> InOrder(rows)
  BY DEF TurnsInOrder, InOrder, Placed, Follows, Places, Conversation

\* A row that goes on where the conversation ends keeps it in order.
LEMMA AppendRow ==
    ASSUME NEW s \in Seq(RowTypes), NEW r \in RowTypes
    PROVE  /\ Append(s, r) \in Seq(RowTypes)
           /\ Len(Append(s, r)) = Len(s) + 1
           /\ Append(s, r)[Len(s) + 1] = r
           /\ \A i \in 1..Len(s) : Append(s, r)[i] = s[i]
  OBVIOUS

\* A greeting moves nothing in the conversation.
LEMMA AppendGreeting ==
    ASSUME NEW s \in Seq(RowTypes)
    PROVE  LET t == Append(s, GreetingRow)
           IN /\ Places(t) = Places(s)
              /\ \A i \in Places(s) : t[i] = s[i]
<1> DEFINE t == Append(s, GreetingRow)
<1>1. GreetingRow \in RowTypes
  BY OrchestratorAssumption DEF GreetingRow, ReplyRow, Tts!Greeting, RowTypes
<1>2. /\ Len(t) = Len(s) + 1 /\ t[Len(s) + 1] = GreetingRow
      /\ \A i \in 1..Len(s) : t[i] = s[i]
  BY <1>1, AppendRow
<1>3. Len(s) \in Nat
  OBVIOUS
<1> HIDE DEF t
<1>4. Places(t) = Places(s)
  BY <1>2, <1>3 DEF Places
<1>5. \A i \in Places(s) : t[i] = s[i]
  BY <1>2 DEF Places
<1> QED
  BY <1>4, <1>5 DEF t

\* Where the places and their rows are the same, so is what is said of them.
LEMMA SamePlaces ==
    ASSUME NEW s, NEW t, Places(t) = Places(s),
           \A i \in Places(s) : t[i] = s[i]
    PROVE  /\ InOrder(t) <=> InOrder(s)
           /\ \A K : EndsWith(t, K) <=> EndsWith(s, K)
           /\ \A n : EndsWithTurn(t, n) <=> EndsWithTurn(s, n)
<1>1. \A j \in Places(s) : Placed(t, j) <=> Placed(s, j)
  BY DEF Placed
<1>2. \A K : EndsWith(t, K) <=> EndsWith(s, K)
  BY DEF EndsWith
<1> QED
  BY <1>1, <1>2 DEF InOrder, EndsWithTurn

\* A row that follows the last one, or is the first, keeps the order and is
\* the last.
LEMMA AppendNext ==
    ASSUME NEW s \in Seq(RowTypes), NEW r \in RowTypes, r # GreetingRow,
           InOrder(s),
           \/ Places(s) = {} /\ r = UserRow(1)
           \/ \E i \in Places(s) :
                 Follows(r, s[i]) /\ \A k \in Places(s) : k <= i
    PROVE  InOrder(Append(s, r)) /\ \A K : r \in K => EndsWith(Append(s, r), K)
<1> DEFINE t == Append(s, r)
           last == Len(s) + 1
<1>1. /\ Len(t) = Len(s) + 1 /\ t[last] = r
      /\ \A i \in 1..Len(s) : t[i] = s[i]
  BY AppendRow
<1>2. Len(s) \in Nat
  OBVIOUS
<1> HIDE DEF t
<1>3. Places(t) = Places(s) \cup {last}
  BY <1>1, <1>2 DEF Places
<1>4. \A i \in Places(s) : t[i] = s[i] /\ i < last /\ i \in Nat
  BY <1>1, <1>2 DEF Places
<1>5. ASSUME NEW j \in Places(s) PROVE Placed(t, j)
  <2>1. Placed(s, j)
    BY DEF InOrder
  <2>2. j < last /\ t[j] = s[j]
    BY <1>4
  <2>3. CASE s[j] = UserRow(1) /\ \A i \in Places(s) : i >= j
    <3>1. \A i \in Places(t) : i >= j
      BY <1>2, <1>3, <1>4, <2>2, <2>3
    <3> QED
      BY <2>2, <2>3, <3>1 DEF Placed
  <2>4. ASSUME NEW i \in Places(s), i < j, Follows(s[j], s[i]),
               \A k \in Places(s) : k <= i \/ k >= j
        PROVE  Placed(t, j)
    <3>1. i \in Places(t) /\ t[i] = s[i]
      BY <1>3, <1>4
    <3>2. \A k \in Places(t) : k <= i \/ k >= j
      BY <1>2, <1>3, <1>4, <2>2, <2>4
    <3> QED
      BY <2>2, <2>4, <3>1, <3>2 DEF Placed
  <2> QED
    BY <2>1, <2>3, <2>4 DEF Placed
<1>6. Placed(t, last)
  <2>1. CASE Places(s) = {} /\ r = UserRow(1)
    <3>1. \A i \in Places(t) : i >= last
      BY <1>2, <1>3, <2>1
    <3> QED
      BY <1>1, <2>1, <3>1 DEF Placed
  <2>2. ASSUME NEW i \in Places(s), Follows(r, s[i]),
               \A k \in Places(s) : k <= i
        PROVE  Placed(t, last)
    <3>1. i \in Places(t) /\ t[i] = s[i] /\ i < last
      BY <1>3, <1>4
    <3>2. \A k \in Places(t) : k <= i \/ k >= last
      BY <1>2, <1>3, <2>2
    <3> QED
      BY <1>1, <2>2, <3>1, <3>2 DEF Placed
  <2> QED
    BY <2>1, <2>2
<1>7. InOrder(t)
  BY <1>3, <1>5, <1>6 DEF InOrder
<1>8. \A k \in Places(t) : k <= last
  BY <1>2, <1>3, <1>4
<1>9. \A K : r \in K => EndsWith(t, K)
  BY <1>1, <1>3, <1>8 DEF EndsWith
<1> QED
  BY <1>7, <1>9 DEF t

\* The rows a consumer may be writing, and where the writing leaves it.
Writes(r) ==
    \/ r = UserRow(turn) /\ consumer = "saving_user"
                         /\ consumer' \in {"thinking", "dead", "cancelled"}
    \/ r = ReplyRow(turn) /\ consumer = "saving_reply"
                          /\ consumer' \in {"saving_tools", "replying", "dead", "cancelled"}
    \/ r = ToolRow(turn) /\ consumer = "saving_tools"
                         /\ consumer' \in {"saving_tools", "replying", "dead", "cancelled"}

\* A step that writes a row appends it; anything else leaves them alone.
LEMMA RowStep ==
    ASSUME OInv, [Next]_vars
    PROVE  \/ rows' = rows
           \/ rows' = Append(rows, GreetingRow) /\ PersistGreeting
           \/ \E r \in RowTypes : rows' = Append(rows, r) /\ Writes(r)
                                  /\ UNCHANGED <<turn, call, session, ttsVars>>
<1> USE DEF OInv, Shape
<1>1. CASE SaveUser
  BY <1>1 DEF SaveUser, Goes, Writes, UserRow, RowTypes, handlerVars
<1>2. CASE SaveReply
  BY <1>2 DEF SaveReply, Goes, Writes, ReplyRow, RowTypes, handlerVars
<1>3. CASE SaveTool
  BY <1>3 DEF SaveTool, Goes, Writes, ToolRow, RowTypes, handlerVars
<1>4. CASE TurnFails \/ ConsumerCancelled
  <2>1. /\ consumer' \in {"dead", "cancelled"} /\ CommitUnknown
        /\ UNCHANGED <<turn, call, session, ttsVars>>
    BY <1>4 DEF TurnFails, ConsumerCancelled, handlerVars
  <2>2. ASSUME NEW r \in InFlight, rows' = Append(rows, r)
        PROVE  r \in RowTypes /\ Writes(r)
    BY <2>1, <2>2 DEF InFlight, Writes, RowTypes, UserRow, ReplyRow, ToolRow
  <2> QED
    BY <2>1, <2>2 DEF CommitUnknown
<1>5. CASE PersistGreeting
  BY <1>5 DEF PersistGreeting
<1>6. CASE HandlerStep \/ HangUp \/ FrameFails
  BY <1>6 DEF HandlerStep, HangUp, FrameFails, StartConnect, StartCreate,
     StartFails, Stopping, StopJoined, StopClose, StopMarkEnded
<1>7. CASE HearPartial \/ HearFinal \/ HearNothing \/ RunTool \/ TurnDone
             \/ Reply
  BY <1>7 DEF HearPartial, HearFinal, HearNothing, RunTool, TurnDone, Reply
<1>8. CASE (\E u \in Tts!Utterances : PlaybackStep(u)) \/ Recognise
             \/ ReaderStops \/ UNCHANGED vars
  BY <1>8 DEF PlaybackStep, Recognise, ReaderStops, vars
<1> QED
  BY <1>1, <1>2, <1>3, <1>4, <1>5, <1>6, <1>7, <1>8 DEF Next, ConsumerStep

\* A row that has been written stays.
LEMMA RowsStay ==
    ASSUME OInv, [Next]_vars
    PROVE  /\ RowsSet \subseteq RowsSet'
           /\ \A r : rows' = Append(rows, r) => r \in RowsSet'
<1>1. rows \in Seq(RowTypes) /\ Len(rows) \in Nat
  BY DEF OInv, Shape
<1>2. ASSUME NEW r \in RowTypes, rows' = Append(rows, r)
      PROVE  RowsSet \subseteq RowsSet' /\ r \in RowsSet'
  <2>1. /\ Len(rows') = Len(rows) + 1 /\ rows'[Len(rows) + 1] = r
        /\ \A i \in 1..Len(rows) : rows'[i] = rows[i]
    BY <1>1, <1>2, AppendRow
  <2> QED
    BY <1>1, <2>1 DEF RowsSet
<1>3. GreetingRow \in RowTypes
  BY OrchestratorAssumption DEF GreetingRow, ReplyRow, Tts!Greeting, RowTypes
<1>4. CASE rows' = rows
  <2>1. \A r : Append(rows, r) # rows
    BY <1>1
  <2> QED
    BY <1>4, <2>1 DEF RowsSet
<1>5. ASSUME NEW q \in RowTypes, rows' = Append(rows, q)
      PROVE  \A r : rows' = Append(rows, r) => r = q
  <2> SUFFICES ASSUME NEW r, Append(rows, q) = Append(rows, r) PROVE r = q
    BY <1>5
  <2> QED
    BY <1>1
<1> QED
  BY <1>2, <1>3, <1>4, <1>5, RowStep

\* What is spoken has been saved, step by step.
LEMMA SpeechKeeps == OInv /\ [Next]_vars => Speech'
<1> SUFFICES ASSUME OInv, [Next]_vars PROVE Speech'
  OBVIOUS
<1>z. /\ 0 \in Utterances /\ turn \in Utterances /\ Tts!Utterances = Utterances
      /\ 1..MaxFinals \subseteq Utterances /\ Tts!Greeting = 0
      /\ turn \in Nat
  BY OrchestratorAssumption DEF Utterances, OInv, Shape, Tts!Utterances,
     Tts!Greeting
<1>y. Shape /\ Control /\ Untouched /\ Speech
  BY DEF OInv
<1>x. play \in [Utterances -> Tts!PlayStatus]
  BY Halves DEF OInv
<1>1. consumer' \in Alive =>
        \A u \in Utterances : play'[u] # "none" => u <= turn'
  <2> SUFFICES ASSUME consumer' \in Alive, NEW u \in Utterances, play'[u] # "none"
               PROVE  u <= turn'
    OBVIOUS
  <2>1. CASE StartCreate
    <3>1. turn' = turn /\ turn = 0 /\ play[u] = "none"
          /\ play' = [play EXCEPT ![0] = "scheduled"]
      BY <2>1, <1>y DEF StartCreate, Untouched, Tts!Speak, Tts!Greeting
    <3> QED
      BY <3>1, <1>x, <1>z
  <2>2. CASE Reply
    <3>1. turn' = turn /\ consumer \in Alive
      BY <2>2 DEF Reply, Goes, Alive, Working
    <3>2. CASE play[u] # "none"
      BY <3>1, <3>2, <1>y DEF Speech
    <3>3. CASE play[u] = "none"
      <4>1. play' = [play EXCEPT ![turn] = "scheduled"]
        BY <2>2, <3>3 DEF Reply, Tts!Speak, ttsVars
      <4> QED
        BY <3>1, <3>3, <4>1, <1>x, <1>z
      <3> QED
      BY <3>2, <3>3
  <2>3. CASE ~StartCreate /\ ~Reply
    <3>1. play[u] # "none"
      BY <2>3, NoneCreated DEF NoNewTask
    <3>2. consumer \in Alive
      BY <2>3 DEF Next, HandlerStep, ConsumerStep, vars, HangUp,
         FrameFails, StartConnect, StartFails, Stopping, StopJoined,
         StopClose, StopMarkEnded, HearPartial, HearFinal, HearNothing,
         SaveUser, RunTool, TurnDone, SaveReply, SaveTool, TurnFails,
         ConsumerCancelled, Goes, PlaybackStep, PersistGreeting, Recognise,
         ReaderStops, handlerVars, consumerVars, Alive, Working
    <3>3. u <= turn
      BY <3>1, <3>2, <1>y DEF Speech
    <3>4. CASE HearFinal
      <4>1. turn' = turn + 1
        BY <3>4, NextFinal
      <4> QED
        BY <3>3, <4>1, <1>z DEF Utterances
    <3>5. CASE ~HearFinal
      <4>1. turn' = turn
        BY <2>3, <3>5 DEF Next, HandlerStep, ConsumerStep, vars, HangUp,
           FrameFails, StartConnect, StartFails, Stopping, StopJoined,
           StopClose, StopMarkEnded, HearPartial, HearNothing,
           SaveUser, RunTool, TurnDone, SaveReply, SaveTool, TurnFails,
           ConsumerCancelled, Goes, PlaybackStep, PersistGreeting, Recognise,
           ReaderStops, consumerVars
      <4> QED
        BY <3>3, <4>1
    <3> QED
      BY <3>4, <3>5
  <2> QED
    BY <2>1, <2>2, <2>3
<1>2. SpokenIsSaved'
  <2> SUFFICES ASSUME NEW n \in 1..MaxFinals, play'[n] # "none"
               PROVE  ReplyRow(n) \in RowsSet'
    BY DEF SpokenIsSaved
  <2>1. n \in Utterances /\ n # 0
    BY <1>z
  <2>2. CASE play[n] # "none"
    <3>1. ReplyRow(n) \in RowsSet
      BY <2>2, <1>y DEF Speech, SpokenIsSaved
    <3> QED
      BY <3>1, RowsStay
  <2>3. CASE play[n] = "none"
    <3>1. Reply /\ play' = [play EXCEPT ![turn] = "scheduled"]
      BY <2>1, <2>3, NoneCreated, <1>x, <1>z DEF NoNewTask, Created
    <3>2. n = turn
      BY <2>1, <2>3, <3>1, <1>x, <1>z
    <3>3. ReplyRow(turn) \in RowsSet
      BY <3>1, <1>y DEF Reply, Goes, Speech
    <3> QED
      BY <3>2, <3>3, RowsStay
  <2> QED
    BY <2>2, <2>3
<1>3. consumer' \in {"saving_tools", "replying"} => ReplyRow(turn') \in RowsSet'
  <2> SUFFICES ASSUME consumer' \in {"saving_tools", "replying"}
               PROVE  ReplyRow(turn') \in RowsSet'
    OBVIOUS
  <2>1. turn' = turn /\ (consumer \in {"saving_tools", "replying"} \/ SaveReply)
    <3>1. ~HearFinal
      BY DEF HearFinal
    <3>2. CASE SaveReply
      BY <3>2 DEF SaveReply, Goes
    <3>3. CASE ~SaveReply
      BY <3>1, <3>3 DEF Next, HandlerStep, ConsumerStep, vars, HangUp,
         FrameFails, StartConnect, StartCreate, StartFails, Stopping, StopJoined,
         StopClose, StopMarkEnded, HearPartial, HearNothing,
         SaveUser, RunTool, TurnDone, Reply, SaveTool, TurnFails,
         ConsumerCancelled, Goes, PlaybackStep, PersistGreeting, Recognise,
         ReaderStops, handlerVars, consumerVars
    <3> QED
      BY <3>2, <3>3
  <2>2. CASE consumer \in {"saving_tools", "replying"}
    BY <2>1, <2>2, RowsStay, <1>y DEF Speech
  <2>3. CASE SaveReply
    BY <2>1, <2>3, RowsStay DEF SaveReply
  <2> QED
    BY <2>1, <2>2, <2>3
<1>4. GreetingSavedUnlessCut'
  <2> SUFFICES ASSUME play'[0] = "done", "db" \notin MayFail
               PROVE  GreetingRow \in RowsSet'
    BY <1>z DEF GreetingSavedUnlessCut
  <2>1. CASE play[0] = "done"
    BY <2>1, <1>y, <1>z, RowsStay DEF Speech, GreetingSavedUnlessCut
  <2>2. CASE PersistGreeting
    <3>1. Tts!PersistEnds(0)
      BY <2>2, <1>z DEF PersistGreeting
    <3>2. 0 \notin doomed
      BY <3>1, <1>x, <1>z DEF Tts!PersistEnds
    <3>3. rows' = Append(rows, GreetingRow)
      BY <2>2, <3>2, <1>z DEF PersistGreeting
    <3> QED
      BY <3>3, RowsStay
  <2>3. CASE play[0] # "done" /\ ~PersistGreeting
    <3>1. ASSUME NEW u \in Tts!Utterances, PlaybackStep(u) PROVE FALSE
      BY <2>3, <3>1, <1>x, <1>z DEF PlaybackStep, Tts!Begin, Tts!SendChunk,
         Tts!Finish, Tts!PlaybackFails, Tts!Interrupt, Tts!Leave
    <3>2. CASE StartCreate \/ Reply
      BY <2>3, <3>2, <1>x, <1>z DEF StartCreate, Reply, Tts!Speak, ttsVars
    <3> QED
      BY <2>3, <3>1, <3>2 DEF Next, HandlerStep, ConsumerStep, vars, HangUp,
         FrameFails, StartConnect, StartFails, Stopping, StopJoined,
         StopClose, StopMarkEnded, HearPartial, HearFinal, HearNothing,
         SaveUser, RunTool, TurnDone, SaveReply, SaveTool, TurnFails,
         ConsumerCancelled, Recognise, ReaderStops, ttsVars, Tts!CancelSpeak
  <2> QED
    BY <2>1, <2>2, <2>3
<1> QED
  BY <1>1, <1>2, <1>3, <1>4 DEF Speech

\* The transcript keeps its order, and ends as the consumer's state says.
LEMMA TalkKeeps == OInv /\ [Next]_vars => Talk'
<1> SUFFICES ASSUME OInv, [Next]_vars PROVE Talk'
  OBVIOUS
<1>z. /\ Shape /\ Control /\ Untouched /\ Talk /\ rows \in Seq(RowTypes)
      /\ turn \in Nat
  BY DEF OInv, Shape
<1>1. CASE rows' = rows \/ rows' = Append(rows, GreetingRow)
  <2>1. /\ Places(rows') = Places(rows)
        /\ \A i \in Places(rows) : rows'[i] = rows[i]
    BY <1>1, <1>z, AppendGreeting
  <2>2. /\ InOrder(rows')
        /\ \A K : EndsWith(rows, K) => EndsWith(rows', K)
        /\ \A n : EndsWithTurn(rows, n) => EndsWithTurn(rows', n)
    BY <2>1, SamePlaces, <1>z DEF Talk
  <2>3. CASE UNCHANGED <<consumer, turn>>
    BY <2>2, <2>3, <1>z DEF Talk
  <2>4. CASE StartCreate
    <3>1. consumer' = "listening" /\ turn' = 0 /\ rows = <<>>
      BY <2>4, <1>z DEF StartCreate, Untouched
    <3>2. Places(rows) = {}
      BY <3>1 DEF Places
    <3> QED
      BY <2>2, <3>1, <3>2 DEF Talk, EndsWithTurn
  <2>5. CASE HearFinal
    <3>1. /\ consumer = "listening" /\ consumer' = "saving_user"
          /\ turn' - 1 = turn
      BY <2>5, NextFinal, <1>z DEF HearFinal
    <3> QED
      BY <2>2, <3>1, <1>z DEF Talk
  <2>6. CASE TurnDone \/ Reply
    <3>1. turn' = turn
      BY <2>6 DEF TurnDone, Reply, Goes
    <3> QED
      BY <2>2, <2>6, <3>1, <1>z DEF TurnDone, Reply, Goes, Talk
  <2>7. CASE consumer' \in Gone
    BY <2>2, <2>7 DEF Talk, Gone
  <2>8. CASE SaveUser \/ SaveReply \/ SaveTool
    <3>1. \A r \in RowTypes : Append(rows, r) # rows
      BY <1>z
    <3>2. /\ UserRow(turn) \in RowTypes /\ ReplyRow(turn) \in RowTypes
          /\ ToolRow(turn) \in RowTypes /\ GreetingRow \in RowTypes
      BY OrchestratorAssumption, <1>z DEF UserRow, ReplyRow, ToolRow, RowTypes,
         GreetingRow, Tts!Greeting, Shape
    <3>3. \A q, r \in RowTypes : Append(rows, q) = Append(rows, r) => q = r
      BY <1>z
    <3>4. consumer \in Working
      BY <2>8 DEF SaveUser, SaveReply, SaveTool, Goes, Working
    <3>5. turn > 0
      BY <3>4, <1>z DEF Control
    <3>6. /\ UserRow(turn) # GreetingRow /\ ReplyRow(turn) # GreetingRow
          /\ ToolRow(turn) # GreetingRow
      BY <3>5 DEF UserRow, ReplyRow, ToolRow, GreetingRow, Tts!Greeting
    <3> QED
      BY <1>1, <2>8, <3>1, <3>2, <3>3, <3>6 DEF SaveUser, SaveReply, SaveTool
  <2> QED
    BY <2>3, <2>4, <2>5, <2>6, <2>7, <2>8 DEF Next, HandlerStep, ConsumerStep,
       vars, HangUp, FrameFails, StartConnect, StartFails, Stopping, StopJoined,
       StopClose, StopMarkEnded, HearPartial, HearNothing, RunTool, TurnFails,
       ConsumerCancelled, Goes, PlaybackStep, PersistGreeting, Recognise,
       ReaderStops, consumerVars, Gone
<1>2. ASSUME NEW r \in RowTypes, rows' = Append(rows, r), Writes(r), turn' = turn
      PROVE  Talk'
  <2>1. turn > 0
    BY <1>2, <1>z DEF Writes, Control, Working
  <2>2. r # GreetingRow
    BY <1>2, <2>1 DEF Writes, UserRow, ReplyRow, ToolRow, GreetingRow,
       Tts!Greeting
  <2>3. \/ Places(rows) = {} /\ r = UserRow(1)
        \/ \E i \in Places(rows) :
              Follows(r, rows[i]) /\ \A k \in Places(rows) : k <= i
    <3>1. CASE r = UserRow(turn) /\ consumer = "saving_user"
      <4>1. EndsWithTurn(rows, turn - 1)
        BY <3>1, <1>z DEF Talk
      <4>2. CASE turn = 1
        BY <3>1, <4>1, <4>2 DEF EndsWithTurn
      <4>3. CASE turn # 1
        <5>1. EndsWith(rows, {ReplyRow(turn - 1), ToolRow(turn - 1)})
          BY <4>1, <4>3, <2>1, <1>z DEF EndsWithTurn
        <5>2. PICK i \in Places(rows) :
                 /\ rows[i] \in {ReplyRow(turn - 1), ToolRow(turn - 1)}
                 /\ \A k \in Places(rows) : k <= i
          BY <5>1 DEF EndsWith
        <5>3. rows[i][1] # "user" /\ rows[i][2] + 1 = turn
          BY <5>2, <1>z DEF ReplyRow, ToolRow
        <5> QED
          BY <3>1, <5>2, <5>3 DEF Follows
      <4> QED
        BY <4>2, <4>3
    <3>2. CASE r = ReplyRow(turn) /\ consumer = "saving_reply"
      <4>1. PICK i \in Places(rows) :
               rows[i] = UserRow(turn) /\ \A k \in Places(rows) : k <= i
        BY <3>2, <1>z DEF Talk, EndsWith
      <4> QED
        BY <3>2, <4>1 DEF Follows, UserRow
    <3>3. CASE r = ToolRow(turn) /\ consumer = "saving_tools"
      <4>1. EndsWith(rows, {ReplyRow(turn), ToolRow(turn)})
        BY <3>3, <2>1, <1>z DEF Talk, EndsWithTurn
      <4>2. PICK i \in Places(rows) :
               /\ rows[i] \in {ReplyRow(turn), ToolRow(turn)}
               /\ \A k \in Places(rows) : k <= i
        BY <4>1 DEF EndsWith
      <4>3. rows[i][1] # "user" /\ rows[i][2] = turn
        BY <4>2 DEF ReplyRow, ToolRow
      <4> QED
        BY <3>3, <4>2, <4>3 DEF Follows
    <3> QED
      BY <1>2, <3>1, <3>2, <3>3 DEF Writes
  <2>4. InOrder(rows') /\ \A K : r \in K => EndsWith(rows', K)
    BY <1>2, <1>z, <2>2, <2>3, AppendNext DEF Talk
  <2>5. CASE r = UserRow(turn) /\ consumer' \in {"thinking", "dead", "cancelled"}
    BY <1>2, <2>4, <2>5 DEF Talk
  <2>6. CASE /\ r \in {ReplyRow(turn), ToolRow(turn)}
             /\ consumer' \in {"saving_tools", "replying", "dead", "cancelled"}
    BY <1>2, <2>1, <2>4, <2>6 DEF Talk, EndsWithTurn
  <2> QED
    BY <1>2, <2>5, <2>6 DEF Writes
<1> QED
  BY <1>1, <1>2, RowStep

-----------------------------------------------------------------------------
(* The queue *)

\* The finals in the queue stay those after the present one.
LEMMA HeardKeeps == OInv /\ [Next]_vars => Heard'
<1> SUFFICES ASSUME OInv, [Next]_vars, consumer' \in Alive PROVE Heard'
  BY DEF Heard
<1>z. /\ Shape /\ Untouched /\ Heard /\ queue \in Seq(Transcripts)
      /\ turn \in Nat /\ said \in Nat /\ Len(queue) \in Nat
      /\ \A i \in 1..Len(queue) : queue[i] \in Transcripts
  BY Halves DEF OInv, Shape
<1>1. CASE StartCreate
  BY <1>1, <1>z DEF StartCreate, sttVars, spokenVars, Untouched, Heard
<1>a. CASE ~StartCreate
  <2>1. consumer \in Alive
    BY <1>a DEF Next, HandlerStep, ConsumerStep, vars, HangUp,
       FrameFails, StartConnect, StartFails, Stopping, StopJoined,
       StopClose, StopMarkEnded, HearPartial, HearFinal, HearNothing,
       SaveUser, RunTool, TurnDone, SaveReply, SaveTool, Reply, TurnFails,
       ConsumerCancelled, Goes, PlaybackStep, PersistGreeting, Recognise,
       ReaderStops, handlerVars, consumerVars, Alive, Working
  <2>z. /\ turn <= said
        /\ \A i \in 1..Len(queue) : queue[i].final =>
             queue[i].n > turn /\ queue[i].n <= said
        /\ \A i, j \in 1..Len(queue) :
             queue[i].final /\ queue[j].final /\ i < j => queue[i].n < queue[j].n
        /\ \A m \in 1..said : m > turn =>
             \E i \in 1..Len(queue) : queue[i] = Final(m)
    BY <2>1, <1>z DEF Heard
  <2>2. CASE Recognise
    <3>1. PICK text \in Transcripts :
             /\ Stt!Put(text)
             /\ \/ text = Final(said + 1) /\ said' = said + 1
                \/ ~text.final /\ said' = said
      BY <2>2, Recognised, <1>z
    <3>2. /\ queue' = Append(queue, text) /\ turn' = turn
      BY <2>2, <3>1 DEF Recognise, Stt!Put, consumerVars
    <3>3. /\ Len(queue') = Len(queue) + 1 /\ queue'[Len(queue) + 1] = text
          /\ \A i \in 1..Len(queue) : queue'[i] = queue[i]
      BY <3>2, <1>z
    <3>4. CASE text = Final(said + 1) /\ said' = said + 1
      <4>1. text.final /\ text.n = said + 1
        BY <3>4 DEF Final
      <4>2. \A i \in 1..Len(queue') : queue'[i].final =>
               queue'[i].n > turn /\ queue'[i].n <= said + 1
        <5> SUFFICES ASSUME NEW i \in 1..Len(queue'), queue'[i].final
                     PROVE  queue'[i].n > turn /\ queue'[i].n <= said + 1
          OBVIOUS
        <5>1. CASE i = Len(queue) + 1
          BY <5>1, <3>3, <4>1, <2>z, <1>z
        <5>2. CASE i \in 1..Len(queue)
          <6>1. queue[i].final /\ queue'[i] = queue[i]
            BY <5>2, <3>3
          <6>2. queue[i].n > turn /\ queue[i].n <= said
            BY <5>2, <6>1, <2>z
          <6>3. queue[i].n \in Nat
            BY <5>2, <1>z DEF Transcripts, Final, Partial
          <6> QED
            BY <6>1, <6>2, <6>3, <1>z
        <5> QED
          BY <5>1, <5>2, <3>3, <1>z
      <4>3. \A i, j \in 1..Len(queue') :
               queue'[i].final /\ queue'[j].final /\ i < j
                 => queue'[i].n < queue'[j].n
        <5> SUFFICES ASSUME NEW i \in 1..Len(queue'), NEW j \in 1..Len(queue'),
                            queue'[i].final, queue'[j].final, i < j
                     PROVE  queue'[i].n < queue'[j].n
          OBVIOUS
        <5>1. i \in 1..Len(queue) /\ queue'[i] = queue[i]
          BY <3>3, <1>z
        <5>2. CASE j \in 1..Len(queue)
          BY <5>1, <5>2, <3>3, <2>z
        <5>3. CASE j = Len(queue) + 1
          <6>1. queue[i].n <= said /\ queue[i].n \in Nat
            BY <5>1, <2>z, <1>z DEF Transcripts, Final, Partial
          <6> QED
            BY <5>1, <5>3, <6>1, <3>3, <4>1, <1>z
        <5> QED
          BY <5>2, <5>3, <3>3, <1>z
      <4>4. \A m \in 1..(said + 1) : m > turn =>
               \E i \in 1..Len(queue') : queue'[i] = Final(m)
        <5> SUFFICES ASSUME NEW m \in 1..(said + 1), m > turn
                     PROVE  \E i \in 1..Len(queue') : queue'[i] = Final(m)
          OBVIOUS
        <5>1. CASE m = said + 1
          BY <5>1, <3>3, <3>4, <1>z
        <5>2. CASE m \in 1..said
          <6>1. PICK i \in 1..Len(queue) : queue[i] = Final(m)
            BY <5>2, <2>z
          <6> QED
            BY <6>1, <3>3, <1>z
        <5> QED
          BY <5>1, <5>2, <1>z
      <4>5. turn <= said + 1
        BY <2>z, <1>z
      <4> QED
        BY <3>2, <3>4, <4>2, <4>3, <4>4, <4>5 DEF Heard
    <3>5. CASE ~text.final /\ said' = said
      <4>1. \A i \in 1..Len(queue') : queue'[i].final =>
               i \in 1..Len(queue) /\ queue'[i] = queue[i]
        BY <3>3, <3>5, <1>z
      <4>2. \A m \in 1..said : m > turn =>
               \E i \in 1..Len(queue') : queue'[i] = Final(m)
        <5> SUFFICES ASSUME NEW m \in 1..said, m > turn
                     PROVE  \E i \in 1..Len(queue') : queue'[i] = Final(m)
          OBVIOUS
        <5>1. PICK i \in 1..Len(queue) : queue[i] = Final(m)
          BY <2>z
        <5> QED
          BY <5>1, <3>3, <1>z
      <4>3. \A i \in 1..Len(queue') : queue'[i].final =>
               queue'[i].n > turn /\ queue'[i].n <= said
        BY <4>1, <2>z
      <4>4. \A i, j \in 1..Len(queue') :
               queue'[i].final /\ queue'[j].final /\ i < j
                 => queue'[i].n < queue'[j].n
        BY <4>1, <2>z
      <4> QED
        BY <3>2, <3>5, <4>2, <4>3, <4>4, <2>z DEF Heard
    <3> QED
      BY <3>1, <3>4, <3>5
  <2>3. CASE HearPartial \/ HearFinal
    <3>1. /\ queue' = Tail(queue) /\ Len(queue) > 0 /\ said' = said
          /\ Head(queue) = queue[1]
      BY <2>3, <1>z DEF HearPartial, HearFinal, Stt!Yield, spokenVars
    <3>2. /\ Len(queue') = Len(queue) - 1
          /\ \A i \in 1..Len(queue') :
               queue'[i] = queue[i + 1] /\ i + 1 \in 1..Len(queue)
      BY <3>1, <1>z
    <3>3. \A i, j \in 1..Len(queue') :
             queue'[i].final /\ queue'[j].final /\ i < j
               => queue'[i].n < queue'[j].n
      <4> SUFFICES ASSUME NEW i \in 1..Len(queue'), NEW j \in 1..Len(queue'),
                          queue'[i].final, queue'[j].final, i < j
                   PROVE  queue'[i].n < queue'[j].n
        OBVIOUS
      <4>1. i + 1 < j + 1
        OBVIOUS
      <4> QED
        BY <4>1, <3>2, <2>z
    <3>4. ASSUME NEW m \in 1..said, m > turn, queue[1] # Final(m)
          PROVE  \E i \in 1..Len(queue') : queue'[i] = Final(m)
      <4>1. PICK i \in 1..Len(queue) : queue[i] = Final(m)
        BY <3>4, <2>z
      <4>2. i # 1 /\ i - 1 \in 1..Len(queue')
        BY <4>1, <3>2, <3>4, <1>z
      <4>3. queue'[i - 1] = queue[i]
        BY <4>2, <3>2
      <4> QED
        BY <4>1, <4>2, <4>3
    <3>5. CASE HearPartial
      <4>1. ~queue[1].final /\ turn' = turn
        BY <3>5, <3>1 DEF HearPartial, consumerVars
      <4>2. \A m \in 1..said : queue[1] # Final(m)
        BY <4>1 DEF Final
      <4>3. \A m \in 1..said : m > turn =>
               \E i \in 1..Len(queue') : queue'[i] = Final(m)
        BY <3>4, <4>2
      <4>4. \A i \in 1..Len(queue') : queue'[i].final =>
               queue'[i].n > turn /\ queue'[i].n <= said
        BY <3>2, <2>z
      <4> QED
        BY <3>1, <3>3, <4>1, <4>3, <4>4, <2>z DEF Heard
    <3>6. CASE HearFinal
      <4>1. queue[1] = Final(turn + 1) /\ turn' = turn + 1 /\ turn + 1 <= said
        BY <3>6, <3>1, NextFinal
      <4>2. queue[1].final /\ queue[1].n = turn + 1
        BY <4>1 DEF Final
      <4>3. \A m \in 1..said : m > turn + 1 =>
               \E i \in 1..Len(queue') : queue'[i] = Final(m)
        <5> SUFFICES ASSUME NEW m \in 1..said, m > turn + 1
                     PROVE  \E i \in 1..Len(queue') : queue'[i] = Final(m)
          OBVIOUS
        <5>1. queue[1] # Final(m)
          BY <4>2, <1>z DEF Final
        <5>2. m > turn
          BY <1>z
        <5> QED
          BY <3>4, <5>1, <5>2
      <4>4. \A i \in 1..Len(queue') : queue'[i].final =>
               queue'[i].n > turn + 1 /\ queue'[i].n <= said
        <5> SUFFICES ASSUME NEW i \in 1..Len(queue'), queue'[i].final
                     PROVE  queue'[i].n > turn + 1 /\ queue'[i].n <= said
          OBVIOUS
        <5>1. /\ queue'[i] = queue[i + 1] /\ i + 1 \in 1..Len(queue)
              /\ 1 \in 1..Len(queue) /\ 1 < i + 1
          BY <3>1, <3>2, <1>z
        <5>2. queue[1].n < queue[i + 1].n /\ queue[i + 1].n <= said
          BY <5>1, <4>2, <2>z
        <5> QED
          BY <5>1, <5>2, <4>2
      <4> QED
        BY <3>1, <3>3, <4>1, <4>3, <4>4 DEF Heard
    <3> QED
      BY <2>3, <3>5, <3>6
  <2>4. CASE ~Recognise /\ ~HearPartial /\ ~HearFinal
    <3>1. UNCHANGED <<queue, said, turn>>
      BY <1>a, <2>4 DEF Next, HandlerStep, ConsumerStep, vars, HangUp,
         FrameFails, StartConnect, StartFails, Stopping, StopJoined,
         StopClose, StopMarkEnded, HearNothing, SaveUser, RunTool, TurnDone,
         SaveReply, SaveTool, Reply, TurnFails, ConsumerCancelled, Goes,
         PlaybackStep, PersistGreeting, ReaderStops, consumerVars, sttVars,
         spokenVars, Stt!Connect, Stt!CloseStart, Stt!CloseEnd, Stt!Suspend,
         Stt!End, Stt!Abandon, Stt!ReaderDropped, Stt!ReaderCrashes
    <3> QED
      BY <3>1, <2>z DEF Heard
  <2> QED
    BY <2>2, <2>3, <2>4
<1> QED
  BY <1>1, <1>a

-----------------------------------------------------------------------------
(* What holds of every call *)

\* Every step keeps the invariant.
LEMMA NextOInv == OInv /\ [Next]_vars => OInv'
  BY HalvesKeep, ShapeKeeps, UntouchedKeeps, ControlKeeps, SpeechKeeps,
     TalkKeeps, HeardKeeps DEF OInv

\* The inductive invariant holds in every reachable state of a call.
THEOREM Invariance == Spec => []OInv
  BY InitOInv, NextOInv, PTL DEF Spec

\* The types of the call's state, its halves' included
\* (orchestrator.py:49-80).
THEOREM TypeCorrect == Spec => []TypeOK
<1>1. OInv => TypeOK
  BY Halves DEF OInv, Shape, TypeOK, RowTypes
<1> QED
  BY <1>1, Invariance, PTL

\* In the call, the stream only ever does what DeepgramStream says: what is
\* proved of it alone holds of it in every call (orchestrator.py:82-159).
THEOREM StreamImplemented == Spec => ImplementsStream
<1>1. Init => Stt!Init
  BY DEF Init
<1>2. OInv /\ [Next]_vars => [Stt!Next]_(Stt!vars)
  BY SttStep DEF sttVars, Stt!vars
<1> QED
  BY <1>1, <1>2, Invariance, PTL DEF Spec, ImplementsStream, Stt!Spec

\* And its playback tasks only what Playback says: no handler or consumer
\* step speaks out of turn (orchestrator.py:161-209).
THEOREM PlaybackImplemented == Spec => ImplementsPlayback
<1>1. Init => Tts!Init
  BY DEF Init
<1>2. OInv /\ [Next]_vars => [Tts!Next]_(Tts!vars)
  BY TtsStep DEF ttsVars, Tts!vars
<1> QED
  BY <1>1, <1>2, Invariance, PTL DEF Spec, ImplementsPlayback, Tts!Spec

\* The transcript of any call has its turns in the order they were spoken,
\* with none skipped (orchestrator.py:137-161).
THEOREM TurnsStayInOrder == Spec => []TurnsInOrder
<1>1. OInv => TurnsInOrder
  BY SameOrder DEF OInv, Talk
<1> QED
  BY <1>1, Invariance, PTL

\* No reply is spoken that the transcript does not have
\* (orchestrator.py:148-161).
THEOREM SpokenIsAlwaysSaved == Spec => []SpokenIsSaved
<1>1. OInv => SpokenIsSaved
  BY DEF OInv, Speech
<1> QED
  BY <1>1, Invariance, PTL

\* A greeting that was spoken is in the transcript, unless the database
\* fails or a cancellation meets the write (orchestrator.py:203-209).
THEOREM GreetingIsSaved == Spec => []GreetingSavedUnlessCut
<1>1. OInv => GreetingSavedUnlessCut
  BY DEF OInv, Speech
<1> QED
  BY <1>1, Invariance, PTL

\* Nothing that could act is left of a call that is done
\* (orchestrator.py:107-120).
THEOREM NothingOutlives == Spec => []NothingOutlivesStop
<1>1. OInv => NothingOutlivesStop
  <2> SUFFICES ASSUME OInv, call = "done" PROVE NothingOutlivesStop
    BY DEF NothingOutlivesStop
  <2>1. Control /\ call \notin Started
    BY DEF OInv, Started
  <2>2. Tts!Utterances = Utterances
    BY DEF Tts!Utterances, Utterances
  <2>3. ws = "none" /\ reader # "running"
    BY <2>1, Halves DEF OInv, Control
  <2> QED
    BY <2>1, <2>2, <2>3 DEF Control, NothingOutlivesStop
<1> QED
  BY <1>1, Invariance, PTL

\* After stop() has begun no audio leaves, no turn, tool or playback starts
\* (orchestrator.py:106-119).
THEOREM NothingStarts == Spec => NothingStartsAfterStop
<1> DEFINE Still == call \notin Started =>
                      /\ chunks' = chunks
                      /\ turn' = turn
                      /\ tools' <= tools
                      /\ current' = current
<1>1. OInv /\ [Next]_vars => [Still]_vars
  <2> SUFFICES ASSUME OInv, [Next]_vars, call \notin Started PROVE Still
    OBVIOUS
  <2>1. tools \in Nat /\ Control /\ Tts!Utterances = Utterances
    BY OrchestratorAssumption DEF OInv, Shape, Tts!Utterances, Utterances
  <2>2. consumer \in Alive => cut
    BY <2>1 DEF Control, Started
  <2>3. ASSUME NEW u \in Tts!Utterances, PlaybackStep(u)
        PROVE  UNCHANGED <<chunks, current, turn, tools>>
    <3>1. ~Tts!SendChunk(u)
      BY <2>1 DEF Control, Tts!SendChunk, Tts!Running
    <3> QED
      BY <2>3, <3>1 DEF PlaybackStep, Tts!Begin, Tts!Finish, Tts!Interrupt,
         Tts!PlaybackFails, Tts!Leave, consumerVars
  <2>4. CASE HandlerStep \/ HangUp \/ FrameFails
    BY <2>1, <2>4 DEF HandlerStep, HangUp, FrameFails, StartConnect,
       StartCreate, StartFails, Stopping, StopJoined, StopClose,
       StopMarkEnded, consumerVars, ttsVars, Started
  <2>5. CASE ConsumerStep
    BY <2>1, <2>2, <2>5 DEF ConsumerStep, HearPartial, HearFinal, HearNothing,
       SaveUser, RunTool, TurnDone, SaveReply, SaveTool, Reply, TurnFails,
       ConsumerCancelled, Goes, ttsVars, Alive, Working
  <2>6. CASE PersistGreeting \/ Recognise \/ ReaderStops \/ UNCHANGED vars
    BY <2>1, <2>6 DEF PersistGreeting, Recognise, ReaderStops, vars,
       Tts!PersistEnds, ttsVars, consumerVars
  <2> QED
    BY <2>1, <2>3, <2>4, <2>5, <2>6 DEF Next
<1> QED
  BY <1>1, Invariance, PTL DEF Spec, NothingStartsAfterStop

\* Rows are written into an open session, a cancelled greeting excepted
\* (orchestrator.py:107-122, 177-182).
THEOREM RowsBelong == Spec => RowsBelongToTheCall
<1> DEFINE Belong == rows' # rows =>
                       \/ session = "open"
                       \/ session = "ended" /\ Tts!Greeting \in doomed
                             /\ rows' = Append(rows, GreetingRow)
<1>1. OInv /\ [Next]_vars => [Belong]_vars
  <2> SUFFICES ASSUME OInv, [Next]_vars, rows' # rows PROVE Belong
    OBVIOUS
  <2>1. Control /\ session \in {"none", "open", "ended"}
    BY DEF OInv, Shape
  <2>2. CASE rows' = Append(rows, GreetingRow) /\ PersistGreeting
    <3>1. 0 \in Utterances /\ play[0] = "persisting" /\ Tts!Greeting = 0
      BY <2>2, OrchestratorAssumption DEF PersistGreeting, Tts!PersistEnds,
         Tts!Greeting, Utterances
    <3>2. session # "none"
      BY <2>1, <3>1 DEF Control
    <3>3. session = "ended" => 0 \in doomed
      BY <2>1, <3>1 DEF Control, Started, Tts!Running
    <3> QED
      BY <2>1, <2>2, <3>1, <3>2, <3>3
  <2>3. ASSUME NEW r \in RowTypes, Writes(r) PROVE session = "open"
    BY <2>1, <2>3 DEF Writes, Control, Alive, Working
  <2> QED
    BY <2>2, <2>3, RowStep
<1> QED
  BY <1>1, Invariance, PTL DEF Spec, RowsBelongToTheCall

-----------------------------------------------------------------------------
(* The life of the call *)

\* What CallLife's phases stand on: there is no playback before there is a
\* consumer, and none that self._speak_task holds once the tasks are joined.
Standing ==
    /\ consumer = "none" => \A u \in Utterances : play[u] = "none"
    /\ call = "live" => consumer # "none"
    /\ call \in {"closing", "done"} => ~Tts!IsSpeaking

\* Every step keeps what the phases stand on.
LEMMA StandingKeeps == OInv /\ Standing /\ [Next]_vars => Standing'
<1> SUFFICES ASSUME OInv, Standing, [Next]_vars PROVE Standing'
  OBVIOUS
<1>z. /\ Shape /\ Control /\ Untouched /\ current \in Utterances \cup {-1}
  BY Halves DEF OInv
<1>1. consumer' = "none" => \A u \in Utterances : play'[u] = "none"
  <2> SUFFICES ASSUME consumer' = "none"
               PROVE  \A u \in Utterances : play'[u] = "none"
    OBVIOUS
  <2>1. consumer = "none" /\ ~StartCreate /\ ~Reply
    BY DEF Next, HandlerStep, ConsumerStep, vars, HangUp, StartCreate,
       FrameFails, StartConnect, StartFails, Stopping, StopJoined,
       StopClose, StopMarkEnded, HearPartial, HearFinal, HearNothing,
       SaveUser, RunTool, TurnDone, SaveReply, SaveTool, Reply, TurnFails,
       ConsumerCancelled, Goes, PlaybackStep, PersistGreeting, Recognise,
       ReaderStops, consumerVars
  <2> QED
    BY <2>1, NoneCreated DEF Standing, NoNewTask
<1>2. call' = "live" => consumer' # "none"
  BY <1>z DEF Standing, Next, HandlerStep, ConsumerStep, vars, HangUp, StartCreate,
     FrameFails, StartConnect, StartFails, Stopping, StopJoined,
     StopClose, StopMarkEnded, HearPartial, HearFinal, HearNothing,
     SaveUser, RunTool, TurnDone, SaveReply, SaveTool, Reply, TurnFails,
     ConsumerCancelled, Goes, PlaybackStep, PersistGreeting, Recognise,
     ReaderStops, consumerVars, handlerVars
<1>3. call' \in {"closing", "done"} => ~Tts!IsSpeaking'
  <2> SUFFICES ASSUME call' \in {"closing", "done"} PROVE ~Tts!IsSpeaking'
    OBVIOUS
  <2>1. ~StartCreate
    BY DEF StartCreate
  <2>2. ~Reply
    BY <1>z DEF Reply, Goes, handlerVars, Control, Gone
  <2>3. ~Tts!IsSpeaking
    BY <2>1, <2>2 DEF Standing, Next, HandlerStep, ConsumerStep, vars, HangUp,
       FrameFails, StartConnect, StartFails, Stopping, StopJoined,
       StopClose, StopMarkEnded, HearPartial, HearFinal, HearNothing,
       SaveUser, RunTool, TurnDone, SaveReply, SaveTool, TurnFails,
       ConsumerCancelled, Goes, PlaybackStep, PersistGreeting, Recognise,
       ReaderStops, handlerVars
  <2>4. NoNewTask
    BY <2>1, <2>2, NoneCreated
  <2>5. current' = current
    BY <2>1, <2>2 DEF Next, HandlerStep, ConsumerStep, vars, HangUp,
       FrameFails, StartConnect, StartFails, Stopping, StopJoined,
       StopClose, StopMarkEnded, HearPartial, HearFinal, HearNothing,
       SaveUser, RunTool, TurnDone, SaveReply, SaveTool, TurnFails,
       ConsumerCancelled, Goes, PlaybackStep, PersistGreeting, Recognise,
       ReaderStops, ttsVars, Tts!CancelSpeak, Tts!Begin, Tts!SendChunk,
       Tts!Finish, Tts!Leave, Tts!PlaybackFails, Tts!Interrupt,
       Tts!PersistEnds
  <2>6. current # -1 => current \in Utterances
    BY <1>z
  <2> QED
    BY <2>3, <2>4, <2>5, <2>6 DEF Tts!IsSpeaking, Tts!NoTask, NoNewTask
<1> QED
  BY <1>1, <1>2, <1>3 DEF Standing

\* How many rows of some kinds a conversation has.
Count(s, kinds) == Cardinality({i \in Places(s) : s[i][1] \in kinds})

\* A row of the conversation adds one to the count of its kind.
LEMMA AppendCounts ==
    ASSUME NEW s \in Seq(RowTypes), NEW r \in RowTypes, r # GreetingRow,
           NEW kinds
    PROVE  Count(Append(s, r), kinds) =
              IF r[1] \in kinds THEN Count(s, kinds) + 1 ELSE Count(s, kinds)
<1> DEFINE t == Append(s, r)
           last == Len(s) + 1
           S == {i \in Places(s) : s[i][1] \in kinds}
           T == {i \in Places(t) : t[i][1] \in kinds}
<1>1. /\ Len(t) = Len(s) + 1 /\ t[last] = r
      /\ \A i \in 1..Len(s) : t[i] = s[i]
  BY AppendRow
<1>2. Len(s) \in Nat
  OBVIOUS
<1> HIDE DEF t
<1>3. Places(t) = Places(s) \cup {last}
  BY <1>1, <1>2 DEF Places
<1>4. \A i \in Places(s) : t[i] = s[i] /\ i # last
  BY <1>1, <1>2 DEF Places
<1>5. IsFiniteSet(S) /\ last \notin S
  <2>1. S \subseteq 1..Len(s)
    BY DEF Places
  <2>2. IsFiniteSet(1..Len(s))
    BY <1>2, FS_Interval
  <2> QED
    BY <1>4, <2>1, <2>2, FS_Subset
<1>6. T = IF r[1] \in kinds THEN S \cup {last} ELSE S
  BY <1>1, <1>3, <1>4
<1>7. Cardinality(S \cup {last}) = Cardinality(S) + 1
  BY <1>5, FS_AddElement
<1> QED
  BY <1>6, <1>7 DEF Count, t

\* What the refinement maps a call to.
Phase == IF call = "joining" /\ consumer = "none" THEN "aborting" ELSE call
GreetingIs ==
    IF GreetingRow \in RowsSet THEN "written"
    ELSE IF play[Tts!Greeting] = "persisting" /\ current # Tts!Greeting
    THEN "loose" ELSE "unwritten"

\* What CallLife counts are the rows of the conversation, by their kind.
LEMMA LifeOf ==
    /\ Rows({"user", "assistant"}) = Count(rows, {"user", "assistant"})
    /\ Rows({"tool"}) = Count(rows, {"tool"})
    /\ Rows({"user", "assistant"})' = Count(rows', {"user", "assistant"})
    /\ Rows({"tool"})' = Count(rows', {"tool"})
  BY DEF Rows, Count, Conversation, Places

\* Where no row of the conversation is written the counts stay.
LEMMA CountsStay ==
    ASSUME OInv, rows' = rows \/ rows' = Append(rows, GreetingRow)
    PROVE  \A K : Count(rows', K) = Count(rows, K)
<1>1. rows \in Seq(RowTypes)
  BY DEF OInv, Shape
<1>2. /\ Places(rows') = Places(rows)
      /\ \A i \in Places(rows) : rows'[i] = rows[i]
  BY <1>1, AppendGreeting
<1> QED
  BY <1>2 DEF Count

\* A row that is appended joins the rows written.
LEMMA RowsSetGrows ==
    ASSUME OInv, NEW r \in RowTypes, rows' = Append(rows, r)
    PROVE  RowsSet' = RowsSet \cup {r}
<1>1. rows \in Seq(RowTypes) /\ Len(rows) \in Nat
  BY DEF OInv, Shape
<1>2. /\ Len(rows') = Len(rows) + 1 /\ rows'[Len(rows) + 1] = r
      /\ \A i \in 1..Len(rows) : rows'[i] = rows[i]
  BY <1>1, AppendRow
<1> QED
  BY <1>1, <1>2 DEF RowsSet

\* Every step of the call is a step of its life, or none.
LEMMA LifeStep == OInv /\ Standing /\ [Next]_vars => [Life!Next]_(Life!vars)
<1> SUFFICES ASSUME OInv, Standing, [Next]_vars
             PROVE  [Life!Next]_(Life!vars)
  OBVIOUS
<1> DEFINE spoken == Count(rows, {"user", "assistant"})
           used   == Count(rows, {"tool"})
<1>z. /\ Shape /\ Control /\ Untouched /\ rows \in Seq(RowTypes)
      /\ 0 \in Utterances /\ Tts!Greeting = 0 /\ Tts!Utterances = Utterances
      /\ GreetingRow \in RowTypes
  BY OrchestratorAssumption DEF OInv, Shape, Utterances, Tts!Greeting,
     Tts!Utterances, GreetingRow, ReplyRow, RowTypes
<1>x. /\ play \in [Utterances -> Tts!PlayStatus]
      /\ \A u \in Utterances :
           play[u] \in Tts!Running /\ u \notin doomed => u = current
  BY Halves DEF OInv
\* What has to be shown of each step.
<1>a. ASSUME UNCHANGED <<Phase, GreetingIs, spoken, used>>
      PROVE  [Life!Next]_(Life!vars)
  BY <1>a, LifeOf DEF Life!vars, Phase, GreetingIs
<1>b. ASSUME UNCHANGED <<GreetingIs, spoken, used>>,
             \/ Phase = "starting" /\ Phase' \in {"creating", "aborting"}
             \/ Phase = "creating" /\ Phase' \in {"live", "aborting"}
             \/ Phase = "live"     /\ Phase' = "joining"
             \/ Phase \in {"aborting", "joining"} /\ Phase' = "closing"
             \/ Phase = "closing"  /\ Phase' = "done"
      PROVE  [Life!Next]_(Life!vars)
  BY <1>b, LifeOf DEF Life!Next, Life!Progress, Phase, GreetingIs
<1>c. ASSUME UNCHANGED <<Phase, GreetingIs>>, Phase \in {"live", "joining"},
             \/ spoken' = spoken + 1 /\ used' = used
             \/ used' = used + 1 /\ spoken' = spoken
      PROVE  [Life!Next]_(Life!vars)
  BY <1>c, LifeOf DEF Life!Next, Life!WriteRow, Life!Talking, Phase, GreetingIs
<1>d. ASSUME UNCHANGED <<Phase, spoken, used>>,
             Phase = "live", GreetingIs = "unwritten", GreetingIs' = "loose"
      PROVE  [Life!Next]_(Life!vars)
  BY <1>d, LifeOf DEF Life!Next, Life!CutGreeting, Phase, GreetingIs
<1>e. ASSUME UNCHANGED <<Phase, spoken, used>>,
             \/ /\ Phase \in {"live", "joining"} /\ GreetingIs = "unwritten"
                /\ GreetingIs' = "written"
             \/ GreetingIs = "loose" /\ GreetingIs' \in {"written", "unwritten"}
      PROVE  [Life!Next]_(Life!vars)
  BY <1>e, LifeOf DEF Life!Next, Life!SettleGreeting, Life!Talking, Phase,
     GreetingIs
<1> HIDE DEF spoken, used
\* A row of the conversation.
<1>1. ASSUME NEW r \in RowTypes, rows' = Append(rows, r), Writes(r),
             UNCHANGED <<turn, call, ttsVars>>
      PROVE  [Life!Next]_(Life!vars)
  <2>1. consumer \in Working /\ consumer' # "none" /\ turn > 0
    BY <1>1, <1>z DEF Writes, Working, Control
  <2>2. Phase' = Phase /\ Phase \in {"live", "joining"}
    BY <1>1, <2>1, <1>z DEF Phase, Control, Alive, Working
  <2>3. r # GreetingRow
    BY <1>1, <2>1 DEF Writes, UserRow, ReplyRow, ToolRow, GreetingRow,
       Tts!Greeting
  <2>4. GreetingRow \in RowsSet' <=> GreetingRow \in RowsSet
    BY <1>1, <2>3, RowsSetGrows
  <2>5. GreetingIs' = GreetingIs
    BY <1>1, <2>4 DEF GreetingIs, ttsVars
  <2>6. r[1] \in {"user", "assistant", "tool"}
    BY <1>1 DEF Writes, UserRow, ReplyRow, ToolRow
  <2>7. \A K : Count(rows', K) = IF r[1] \in K THEN Count(rows, K) + 1
                                              ELSE Count(rows, K)
    BY <1>1, <2>3, AppendCounts, <1>z
  <2>8. \/ spoken' = spoken + 1 /\ used' = used
        \/ used' = used + 1 /\ spoken' = spoken
    BY <2>6, <2>7 DEF spoken, used
  <2> QED
    BY <1>c, <2>2, <2>5, <2>8
\* The greeting's.
<1>2. CASE PersistGreeting
  <2>1. /\ play[0] = "persisting" /\ play'[0] # "persisting"
        /\ current' = current /\ UNCHANGED <<call, consumer>>
    BY <1>2, <1>z, <1>x DEF PersistGreeting, Tts!PersistEnds, handlerVars,
       consumerVars
  <2>2. Phase' = Phase
    BY <2>1 DEF Phase
  <2>3. UNCHANGED <<spoken, used>>
    BY <1>2, CountsStay DEF PersistGreeting, spoken, used
  <2>4. CASE rows' = rows
    <3>1. RowsSet' = RowsSet
      BY <2>4 DEF RowsSet
    <3> QED
      BY <1>a, <1>e, <2>1, <2>2, <2>3, <3>1, <1>z DEF GreetingIs
  <2>5. CASE rows' = Append(rows, GreetingRow)
    <3>1. GreetingRow \in RowsSet'
      BY <2>5, RowsSetGrows, <1>z
    <3>2. GreetingIs' = "written"
      BY <3>1 DEF GreetingIs
    <3>3. CASE GreetingIs = "unwritten"
      <4>1. current = 0
        BY <3>3, <2>1, <1>z DEF GreetingIs
      <4>2. Tts!IsSpeaking
        BY <4>1, <2>1 DEF Tts!IsSpeaking, Tts!NoTask, Tts!Running
      <4>3. call \in {"live", "joining"}
        BY <4>2, <2>1, <1>z DEF Standing, Untouched, Shape, Started
      <4>4. consumer # "none"
        BY <2>1, <1>z DEF Standing
      <4> QED
        BY <1>e, <2>2, <2>3, <3>2, <3>3, <4>3, <4>4 DEF Phase
    <3>4. CASE GreetingIs # "unwritten"
      BY <1>a, <1>e, <2>2, <2>3, <3>2, <3>4 DEF GreetingIs
    <3> QED
      BY <3>3, <3>4
  <2> QED
    BY <1>2, <2>4, <2>5 DEF PersistGreeting
\* Anything else.
<1>3. CASE rows' = rows /\ ~PersistGreeting
  <2>1. RowsSet' = RowsSet /\ UNCHANGED <<spoken, used>>
    BY <1>3, CountsStay DEF RowsSet, spoken, used
  <2>2. CASE UNCHANGED <<play, current>>
    <3>1. GreetingIs' = GreetingIs
      BY <2>1, <2>2 DEF GreetingIs
    <3>2. CASE UNCHANGED Phase
      BY <1>a, <2>1, <3>1, <3>2
    <3>3. CASE StartConnect \/ StopMarkEnded
      BY <1>b, <2>1, <3>1, <3>3 DEF StartConnect, StopMarkEnded, Phase
    <3>4. CASE StartFails \/ HangUp \/ FrameFails
      <4>1. /\ call' = "joining" /\ consumer' = consumer
            /\ \/ call \in {"starting", "creating"} /\ consumer = "none"
               \/ call = "live" /\ consumer # "none"
        BY <3>4, <1>z DEF StartFails, HangUp, FrameFails, Stopping, Standing,
           Untouched
      <4> QED
        BY <1>b, <2>1, <3>1, <4>1 DEF Phase
    <3>5. CASE StopJoined
      BY <1>b, <2>1, <3>1, <3>5 DEF StopJoined, Phase
    <3>6. CASE ConsumerStep
      <4>1. consumer # "none" /\ consumer' # "none" /\ call' = call
        BY <3>6 DEF ConsumerStep, HearPartial, HearFinal, HearNothing,
           SaveUser, RunTool, TurnDone, SaveReply, SaveTool, Reply,
           TurnFails, ConsumerCancelled, Goes, Alive, Working, handlerVars,
           consumerVars
      <4> QED
        BY <3>2, <4>1 DEF Phase
    <3>7. CASE \/ StopClose \/ Recognise \/ ReaderStops \/ UNCHANGED vars
               \/ \E u \in Tts!Utterances : PlaybackStep(u)
      BY <3>2, <3>7 DEF StopClose, PlaybackStep, Recognise, ReaderStops, vars,
         handlerVars, consumerVars, Phase
    <3>8. ~StartCreate
      BY <2>2, <1>x, <1>z DEF StartCreate, Tts!Speak
    <3> QED
      BY <1>3, <3>3, <3>4, <3>5, <3>6, <3>7, <3>8 DEF Next, HandlerStep
  <2>3. CASE StartCreate
    <3>1. /\ call = "creating" /\ call' = "live" /\ play'[0] # "persisting"
          /\ play[0] = "none"
      BY <2>3, <1>x, <1>z DEF StartCreate, Tts!Speak
    <3>2. GreetingIs' = GreetingIs
      BY <2>1, <3>1, <1>z DEF GreetingIs
    <3> QED
      BY <1>b, <2>1, <3>1, <3>2 DEF Phase
  <2>4. CASE Reply /\ Tts!Speak(turn)
    <3>1. /\ consumer = "replying" /\ consumer' = "listening" /\ ~cut
          /\ call' = call /\ current' = turn
          /\ play' = [play EXCEPT ![turn] = "scheduled"]
      BY <2>4 DEF Reply, Goes, handlerVars, Tts!Speak
    <3>2. call = "live" /\ turn > 0
      BY <3>1, <1>z DEF Control, Alive, Working
    <3>3. Phase = "live" /\ Phase' = Phase
      BY <3>1, <3>2 DEF Phase
    <3>4. play'[0] = play[0] /\ current' # 0
      BY <3>1, <3>2, <1>x, <1>z
    <3>5. \/ GreetingIs' = GreetingIs
          \/ GreetingIs = "unwritten" /\ GreetingIs' = "loose"
      <4>1. CASE GreetingRow \in RowsSet
        BY <2>1, <4>1 DEF GreetingIs
      <4>2. CASE GreetingRow \notin RowsSet /\ play[0] = "persisting"
        <5>1. GreetingIs' = "loose"
          BY <2>1, <3>4, <4>2, <1>z DEF GreetingIs
        <5>2. GreetingIs \in {"loose", "unwritten"}
          BY <4>2 DEF GreetingIs
        <5> QED
          BY <5>1, <5>2
      <4>3. CASE GreetingRow \notin RowsSet /\ play[0] # "persisting"
        BY <2>1, <3>4, <4>3, <1>z DEF GreetingIs
      <4> QED
        BY <4>1, <4>2, <4>3
    <3> QED
      BY <1>a, <1>d, <2>1, <3>3, <3>5
  <2>5. ASSUME NEW u \in Tts!Utterances, PlaybackStep(u)
        PROVE  [Life!Next]_(Life!vars)
    <3>1. Phase' = Phase /\ current' = current
      BY <2>5 DEF PlaybackStep, handlerVars, consumerVars, Phase, Tts!Begin,
         Tts!SendChunk, Tts!Finish, Tts!PlaybackFails, Tts!Interrupt, Tts!Leave
    <3>2. \/ (play'[0] = "persisting") <=> (play[0] = "persisting")
          \/ current = 0
      <4>1. CASE Tts!SendChunk(u)
        BY <4>1 DEF Tts!SendChunk
      <4>2. CASE Tts!Begin(u) \/ Tts!Interrupt(u)
        BY <4>2, <1>x, <1>z DEF Tts!Begin, Tts!Interrupt
      <4>3. CASE Tts!Finish(u) \/ Tts!PlaybackFails(u)
        <5>1. /\ play[u] = "sending" /\ u \notin doomed
              /\ play' = [play EXCEPT ![u] = IF u = 0 THEN "persisting"
                                                      ELSE "done"]
          BY <4>3, <1>z DEF Tts!Finish, Tts!PlaybackFails, Tts!Leave
        <5>2. u = current
          BY <5>1, <1>x, <1>z DEF Tts!Running
        <5> QED
          BY <5>1, <5>2, <1>x, <1>z
      <4> QED
        BY <2>5, <4>1, <4>2, <4>3 DEF PlaybackStep
    <3>3. GreetingIs' = GreetingIs
      BY <2>1, <3>1, <3>2, <1>z DEF GreetingIs
    <3> QED
      BY <1>a, <2>1, <3>1, <3>3
  <2> QED
    BY <1>3, <2>2, <2>3, <2>4, <2>5 DEF Next, HandlerStep, ConsumerStep, vars,
       HangUp, FrameFails, StartConnect, StartFails, Stopping, StopJoined,
       StopClose, StopMarkEnded, HearPartial, HearFinal, HearNothing,
       SaveUser, RunTool, TurnDone, SaveReply, SaveTool, Reply, TurnFails,
       ConsumerCancelled, Recognise, ReaderStops, ttsVars, Tts!CancelSpeak
<1> QED
  BY <1>1, <1>2, <1>3, RowStep

\* A call has the life that CallLife states, which is all that MediaCalls
\* assumes of it (orchestrator.py:82-122, 177-182, 206-209).
THEOREM LifeImplemented == Spec => ImplementsCallLife
<1>1. Init => Life!Init
  <2> SUFFICES ASSUME Init PROVE Life!Init
    OBVIOUS
  <2>1. /\ call = "starting" /\ rows = <<>> /\ consumer = "none"
        /\ play[Tts!Greeting] = "none"
    BY OrchestratorAssumption DEF Init, Tts!Init, Tts!Greeting, Tts!Utterances
  <2>2. Conversation = {} /\ RowsSet = {}
    BY <2>1 DEF Conversation, RowsSet
  <2>3. \A K : Rows(K) = 0
    BY <2>2, FS_EmptySet DEF Rows
  <2> QED
    BY <2>1, <2>2, <2>3 DEF Life!Init
<1>2. Init => Standing
  BY DEF Init, Standing, Tts!Init, Tts!Utterances, Utterances
<1>3. OInv /\ [Next]_vars /\ Standing => Standing'
  BY StandingKeeps
<1>4. Spec => []Standing
  BY <1>2, <1>3, Invariance, PTL DEF Spec
<1> QED
  BY <1>1, <1>4, LifeStep, Invariance, PTL DEF Spec, ImplementsCallLife, Life!Spec
-----------------------------------------------------------------------------
(* What was proved of the halves, in the call *)

\* In a call, too, at most one playback may go on talking, whoever created or
\* cancelled the others: start(), a turn, a barge-in or stop()
\* (orchestrator.py:99, 115, 134, 161, 177-188).
THEOREM CallHasOneVoice == Spec => []OneVoice
<1>1. OInv => OneVoice
  BY DEF OneVoice, OInv, TtsProofs!IInv, TtsProofs!OneVoice, Tts!OneVoice,
     TtsProofs!Utterances, Tts!Utterances, TtsProofs!Running, Tts!Running
<1> QED
  BY <1>1, Invariance, PTL

\* The caller of a whole call never hears two utterances interleaved, nor an
\* old one after a newer one (orchestrator.py:161-188).
THEOREM CallNeverTalksOver == Spec => NoTalkOver
<1> DEFINE Latest == \A u \in Tts!Utterances : chunks'[u] # chunks[u] =>
                        \A v \in Tts!Utterances : v > u => play[v] = "none"
<1>1. OInv /\ [Next]_vars => Latest
  <2> SUFFICES ASSUME OInv, [Next]_vars PROVE Latest
    OBVIOUS
  <2>1. TtsProofs!BoundsAssumption
    BY OrchestratorAssumption DEF TtsProofs!BoundsAssumption
  <2>2. TtsProofs!IInv /\ [TtsProofs!Next]_(TtsProofs!vars)
    BY TtsStep, SameTts DEF OInv
  <2> QED
    BY <2>1, <2>2, TtsProofs!SendsLatest
       DEF Tts!Utterances, TtsProofs!Utterances
<1>2. OInv /\ [Next]_vars => [Latest]_(Tts!vars)
  BY <1>1
<1> QED
  BY <1>2, Invariance, PTL DEF Spec, NoTalkOver, Tts!NoTalkOver

\* Once a step of any task has cancelled an utterance, not one more chunk of
\* it reaches the caller (orchestrator.py:115, 134, 184-188).
THEOREM CancelledStaysSilent == Spec => SilentOnceCancelled
<1> DEFINE Silent == \A u \in doomed :
                        /\ chunks'[u] = chunks[u]
                        /\ u \in doomed'
                        /\ play[u] \notin Tts!Running => play'[u] = play[u]
<1>1. OInv /\ [Next]_vars => Silent
  <2> SUFFICES ASSUME OInv, [Next]_vars PROVE Silent
    OBVIOUS
  <2>1. TtsProofs!BoundsAssumption
    BY OrchestratorAssumption DEF TtsProofs!BoundsAssumption
  <2>2. TtsProofs!IInv /\ [TtsProofs!Next]_(TtsProofs!vars)
    BY TtsStep, SameTts DEF OInv
  <2> QED
    BY <2>1, <2>2, TtsProofs!StaysSilent DEF Tts!Running, TtsProofs!Running
<1>2. OInv /\ [Next]_vars => [Silent]_(Tts!vars)
  BY <1>1
<1> QED
  BY <1>2, Invariance, PTL DEF Spec, SilentOnceCancelled, Tts!SilentOnceCancelled

\* However a call ends, its stream leaves neither reader nor socket, and the
\* consumer is told (orchestrator.py:119, stt_deepgram.py:90-109, 127-130).
THEOREM CallLeavesNoStream == Spec => []Stt!NothingLeftBehind
<1>1. OInv => Stt!NothingLeftBehind
  BY DEF OInv, SttProofs!Inv, Stt!NothingLeftBehind
<1> QED
  BY <1>1, Invariance, PTL

\* Of the texts that are queued when the stream closes, or the call, the
\* consumer gets one at the most, and none when it is in the middle of a turn:
\* no turn starts from the rest (orchestrator.py:119, 128-135,
\* stt_deepgram.py:81-88).
THEOREM CallTakesOneMore == Spec => Stt!OneMoreAfterClose
<1>1. ASSUME NEW n \in 0..(MaxFinals + MaxPartials)
      PROVE  Spec => /\ [](closed /\ Len(queue) = n => [](Len(queue) + 1 >= n))
                     /\ [](closed /\ Len(queue) = n /\ poll # "waiting"
                             => [](Len(queue) >= n))
  <2> DEFINE Most == SttProofs!AllButOne(n)
             Rest == SttProofs!All(n)
  <2>0. n \in Nat
    BY OrchestratorAssumption
  <2>1. OInv /\ [Next]_vars => (Most => Most') /\ (Rest => Rest')
    BY <2>0, SttStep, SameStt, SttProofs!KeepsAllButOne DEF OInv
  <2>2. closed /\ Len(queue) = n => Most
    BY <2>0 DEF SttProofs!AllButOne
  <2>3. OInv /\ Most => Len(queue) + 1 >= n
    BY <2>0 DEF SttProofs!AllButOne, OInv, SttProofs!Inv, SttProofs!TypeOK
  <2>4. closed /\ Len(queue) = n /\ poll # "waiting" => Rest
    BY <2>0 DEF SttProofs!All
  <2>5. Rest => Len(queue) >= n
    BY DEF SttProofs!All
  <2> HIDE DEF Most, Rest
  <2> QED
    BY <2>1, <2>2, <2>3, <2>4, <2>5, Invariance, PTL DEF Spec
<1> QED
  BY <1>1 DEF Stt!OneMoreAfterClose

-----------------------------------------------------------------------------
(* stop() comes to its end *)

\* The stream and the call agree on how far close() is, a consumer that is
\* alive has not left transcripts(), only the greeting is ever written by its
\* playback, and a consumer that was cancelled does not have the event loop.
InStep ==
    /\ call \notin Started => LoopIsFree
    /\ closing = "no" <=> call \notin {"closing", "done"}
    /\ call \in {"starting", "creating"} => poll = "fresh"
    /\ consumer \in Alive => poll \in {"fresh", "waiting", "yielded"}
    /\ \A u \in Utterances : play[u] = "persisting" => u = Tts!Greeting

\* Nobody waits for somebody who waits: until stop() has returned, either it
\* can go on itself, or a task that it awaits can, and the event loop is free
\* for it.  Each disjunct is the guard of a step: StopJoined,
\* ConsumerCancelled, Begin or Interrupt, PersistGreeting, StopClose,
\* StopMarkEnded (orchestrator.py:106-122).
StopGoesOn ==
    /\ call \notin Started => LoopIsFree
    /\ call = "joining" =>
         \/ closing = "no" /\ consumer \in Gone /\ ~Tts!IsSpeaking
         \/ consumer \in Alive /\ cut /\ poll \in {"fresh", "waiting", "yielded"}
         \/ \E u \in doomed : play[u] \in {"scheduled", "sending"}
         \/ play[Tts!Greeting] = "persisting"
    /\ call = "closing" => closing \in {"socket", "done"}

\* What is left to do once stop() has begun: its own steps, the consumer's
\* end, and the end of each playback that is still there.
Stage == CASE call = "joining"                      -> 3
           [] call = "closing" /\ closing # "done" -> 2
           [] call = "closing" /\ closing = "done" -> 1
           [] OTHER                                -> 0

Left == {u \in Utterances : play[u] \in Tts!Running}

StepsLeft ==
    Stage + (IF consumer \in Alive THEN 1 ELSE 0) + Cardinality(Left)

\* And nobody goes round in circles: from then on every step of the call is
\* one of those that were left, except that the recogniser may go on putting
\* texts into a queue that nobody reads, or stop (orchestrator.py:106-122).
StopUnwinds ==
    [][ call \notin Started =>
            \/ (Recognise \/ ReaderStops) /\ StepsLeft' = StepsLeft
            \/ StepsLeft' < StepsLeft ]_vars

\* A step of one playback task leaves the others alone and begins the write
\* of the greeting only.
LEMMA PersistsGreetingOnly ==
    ASSUME OInv, InStep, NEW u \in Utterances,
           PlaybackStep(u) \/ PersistGreeting
    PROVE  \A v \in Utterances : play'[v] = "persisting" => v = Tts!Greeting
<1>1. play \in [Utterances -> Tts!PlayStatus]
  BY Halves DEF OInv
<1> QED
  BY <1>1 DEF PlaybackStep, PersistGreeting, InStep, Tts!Begin, Tts!SendChunk,
     Tts!Finish, Tts!PlaybackFails, Tts!Leave, Tts!Interrupt, Tts!PersistEnds

\* Every step keeps stream and call in step.
LEMMA InStepKeeps == OInv /\ InStep /\ [Next]_vars => InStep'
<1> SUFFICES ASSUME OInv, InStep, [Next]_vars PROVE InStep'
  OBVIOUS
<1>z. /\ Control /\ 0 \in Utterances /\ Tts!Greeting = 0
      /\ Tts!Utterances = Utterances
      /\ play \in [Utterances -> Tts!PlayStatus]
  BY Halves, OrchestratorAssumption
     DEF OInv, Utterances, Tts!Greeting, Tts!Utterances
<1>a. ASSUME call \notin Started PROVE LoopIsFree
  BY <1>a DEF InStep
<1>b. ASSUME UNCHANGED <<call, consumer, poll>>
      PROVE  call' \notin Started => LoopIsFree'
  BY <1>a, <1>b DEF LoopIsFree
<1> USE DEF InStep
<1>1. CASE StartConnect
  BY <1>1 DEF StartConnect, Stt!Connect, ttsVars, consumerVars, Started
<1>2. CASE StartCreate
  BY <1>2, <1>z DEF StartCreate, Tts!Speak, sttVars, Started
<1>3. CASE StartFails \/ HangUp \/ FrameFails
  <2>1. LoopIsFree
    BY <1>3 DEF StartFails, HangUp, FrameFails, OInv, Untouched, LoopIsFree
  <2>2. LoopIsFree'
    BY <1>3, <2>1 DEF StartFails, HangUp, FrameFails, Stopping, sttVars,
       LoopIsFree
  <2> QED
    BY <1>3, <1>z, <2>2 DEF StartFails, HangUp, FrameFails, Stopping,
       Tts!CancelSpeak, sttVars
<1>4. CASE StopJoined
  <2>1. LoopIsFree'
    BY <1>4 DEF StopJoined, Gone, consumerVars, LoopIsFree
  <2> QED
    BY <1>4, <2>1 DEF StopJoined, Stt!CloseStart, ttsVars, consumerVars
<1>5. CASE StopClose
  BY <1>5, <1>b DEF StopClose, Stt!CloseEnd, ttsVars, handlerVars, consumerVars
<1>6. CASE StopMarkEnded
  <2>1. LoopIsFree'
    BY <1>6, <1>z DEF StopMarkEnded, Control, Gone, sttVars, consumerVars,
       LoopIsFree
  <2> QED
    BY <1>6, <2>1 DEF StopMarkEnded, sttVars, ttsVars, consumerVars
<1>7. CASE ConsumerStep
  <2>1. consumer \in Alive /\ call' = call /\ closing' = closing
    BY <1>7 DEF ConsumerStep, HearPartial, HearFinal, HearNothing, SaveUser,
       RunTool, TurnDone, SaveReply, SaveTool, Reply, TurnFails,
       ConsumerCancelled, Goes, Alive, Working, handlerVars, sttVars,
       Stt!Yield, Stt!Suspend, Stt!End, Stt!Abandon
  <2>2. call \notin {"starting", "creating"}
    BY <2>1, <1>z DEF Control
  <2>3. consumer' \in Alive => poll' \in {"fresh", "waiting", "yielded"}
    <3>1. CASE HearPartial \/ HearFinal \/ HearNothing
      BY <3>1, <2>1 DEF HearPartial, HearFinal, HearNothing, Alive, Working,
         Stt!Yield, Stt!Suspend, Stt!End
    <3>2. CASE TurnFails \/ ConsumerCancelled
      BY <3>2 DEF TurnFails, ConsumerCancelled, Alive, Working
    <3>3. CASE SaveUser \/ RunTool \/ TurnDone \/ SaveReply \/ SaveTool \/ Reply
      BY <3>3, <2>1 DEF SaveUser, RunTool, TurnDone, SaveReply, SaveTool,
         Reply, Goes, sttVars
    <3> QED
      BY <1>7, <3>1, <3>2, <3>3 DEF ConsumerStep
  <2>4. \A u \in Utterances : play'[u] = "persisting" => play[u] = "persisting"
    <3>1. CASE Reply /\ Tts!Speak(turn)
      BY <3>1, <1>z DEF Tts!Speak
    <3>2. CASE UNCHANGED play
      BY <3>2
    <3> QED
      BY <1>7, <3>1, <3>2 DEF ConsumerStep, HearPartial, HearFinal,
         HearNothing, SaveUser, RunTool, TurnDone, SaveReply, SaveTool, Reply,
         TurnFails, ConsumerCancelled, Tts!CancelSpeak, ttsVars
  <2>5. call' \notin Started => LoopIsFree'
    <3> SUFFICES ASSUME call \notin Started PROVE consumer' # "listening"
      BY <2>1 DEF LoopIsFree
    <3>1. cut
      BY <2>1, <1>z DEF Control, Started
    <3>2. ConsumerCancelled
      BY <1>7, <3>1 DEF ConsumerStep, HearPartial, HearFinal, HearNothing,
         SaveUser, RunTool, TurnDone, SaveReply, SaveTool, Reply, TurnFails,
         Goes
    <3> QED
      BY <3>2 DEF ConsumerCancelled
  <2> QED
    BY <2>1, <2>2, <2>3, <2>4, <2>5
<1>8. ASSUME NEW u \in Utterances, PlaybackStep(u) \/ PersistGreeting
      PROVE  InStep'
  <2>1. \A v \in Utterances : play'[v] = "persisting" => v = Tts!Greeting
    BY <1>8, PersistsGreetingOnly
  <2>2. UNCHANGED <<closing, poll, call, consumer>>
    BY <1>8 DEF PlaybackStep, PersistGreeting, sttVars, handlerVars,
       consumerVars
  <2> QED
    BY <2>1, <2>2, <1>b, <1>z
<1>9. CASE Recognise \/ ReaderStops \/ UNCHANGED vars
  BY <1>9, <1>b DEF Recognise, ReaderStops, vars, Stt!Put, Stt!ReaderDropped,
     Stt!ReaderCrashes, sttVars, ttsVars, handlerVars, consumerVars
<1> QED
  BY <1>1, <1>2, <1>3, <1>4, <1>5, <1>6, <1>7, <1>8, <1>9, <1>z
     DEF Next, HandlerStep

\* Stream and call are in step in every reachable state.
LEMMA AlwaysInStep == Spec => []InStep
<1>1. Init => InStep
  BY DEF Init, InStep, Started, Stt!Init, Tts!Init, Tts!Utterances, Utterances, Alive,
     Working
<1>2. OInv /\ [Next]_vars /\ InStep => InStep'
  BY InStepKeeps
<1> QED
  BY <1>1, <1>2, Invariance, PTL DEF Spec

\* stop() is never stuck: at every point of it some step that it needs can be
\* taken, whatever failed, was cancelled or was replaced before
\* (orchestrator.py:106-122).
THEOREM StopAlwaysGoesOn == Spec => []StopGoesOn
<1>1. OInv /\ InStep => StopGoesOn
  <2> SUFFICES ASSUME OInv, InStep PROVE StopGoesOn
    OBVIOUS
  <2>1. Stt!TypeOK /\ Tts!TypeOK /\ Control /\ Shape
    BY Halves DEF OInv
  <2>2. Tts!Utterances = Utterances
    BY DEF Tts!Utterances, Utterances
  <2>3. call = "closing" => closing \in {"socket", "done"}
    BY <2>1 DEF InStep, Stt!TypeOK
  <2>4. ASSUME call = "joining", Tts!IsSpeaking
        PROVE  \/ \E u \in doomed : play[u] \in {"scheduled", "sending"}
               \/ play[Tts!Greeting] = "persisting"
    <3>1. current \in Utterances /\ play[current] \in Tts!Running
      BY <2>1, <2>2, <2>4 DEF Tts!IsSpeaking, Tts!TypeOK
    <3>2. current \in doomed
      BY <2>1, <2>4, <3>1 DEF Control, Started
    <3>3. play[current] = "persisting" => current = Tts!Greeting
      BY <3>1 DEF InStep
    <3> QED
      BY <3>1, <3>2, <3>3 DEF Tts!Running
  <2>5. ASSUME call = "joining", ~Tts!IsSpeaking
        PROVE  \/ closing = "no" /\ consumer \in Gone
               \/ /\ consumer \in Alive /\ cut
                  /\ poll \in {"fresh", "waiting", "yielded"}
    BY <2>1, <2>5 DEF Control, Shape, InStep
  <2> QED
    BY <2>3, <2>4, <2>5 DEF StopGoesOn, InStep
<1> QED
  BY <1>1, Invariance, AlwaysInStep, PTL

\* The playbacks that are left can be counted.
LEMMA LeftCounted ==
    IsFiniteSet(Left) /\ Cardinality(Left) \in Nat
<1>1. IsFiniteSet(Utterances) /\ Left \subseteq Utterances
  BY OrchestratorAssumption, FS_Interval DEF Utterances, Left
<1> QED
  BY <1>1, FS_Subset, FS_CardinalityType

\* A playback that stop() has cancelled takes one step, which is its last.
LEMMA PlaybackUnwinds ==
    ASSUME OInv, call \notin Started, NEW u \in Utterances,
           PlaybackStep(u) \/ PersistGreeting
    PROVE  Cardinality(Left') = Cardinality(Left) - 1
<1>1. play \in [Utterances -> Tts!PlayStatus]
  BY Halves DEF OInv
<1>2. \A v \in Utterances : play[v] \in Tts!Running => v \in doomed
  BY DEF OInv, Control
<1>3. 0 \in Utterances /\ Tts!Greeting = 0
  BY OrchestratorAssumption DEF Utterances, Tts!Greeting
<1>4. PICK w \in Utterances :
         /\ play[w] \in Tts!Running
         /\ play' = [play EXCEPT ![w] = "silenced"]
  BY <1>2, <1>3 DEF PlaybackStep, PersistGreeting, Tts!Begin, Tts!SendChunk,
     Tts!Finish, Tts!PlaybackFails, Tts!Interrupt, Tts!PersistEnds,
     Tts!Running
<1>5. w \in Left /\ Left' = Left \ {w}
  BY <1>1, <1>4 DEF Left, Tts!Running
<1> QED
  BY <1>5, LeftCounted, FS_RemoveElement

\* From the call of stop() on the call only unwinds: the tasks together take
\* no more steps than StepsLeft counts, so with StopAlwaysGoesOn stop()
\* returns as soon as each of them has run (orchestrator.py:106-122).
THEOREM StopOnlyUnwinds == Spec => StopUnwinds
<1> DEFINE Unwinds == call \notin Started =>
                        \/ (Recognise \/ ReaderStops) /\ StepsLeft' = StepsLeft
                        \/ StepsLeft' < StepsLeft
<1>1. OInv /\ InStep /\ [Next]_vars => [Unwinds]_vars
  <2> SUFFICES ASSUME OInv, InStep, Next, call \notin Started
               PROVE  Unwinds
    BY DEF Unwinds
  <2> DEFINE Consuming == IF consumer \in Alive THEN 1 ELSE 0
  <2>z. /\ Control /\ call \in {"joining", "closing", "done"}
        /\ closing \in {"no", "socket", "done"}
        /\ Utterances = Tts!Utterances
        /\ Cardinality(Left) \in Nat
    BY Halves, LeftCounted
       DEF OInv, Shape, Started, Stt!TypeOK, Utterances, Tts!Utterances
  <2>a. /\ StepsLeft = Stage + Consuming + Cardinality(Left)
        /\ StepsLeft' = Stage' + Consuming' + Cardinality(Left')
        /\ Stage \in 0..3 /\ Stage' \in 0..3
        /\ Consuming \in 0..1 /\ Consuming' \in 0..1
    BY DEF StepsLeft, Stage
  <2>b. play' = play => Left' = Left
    BY DEF Left
  <2>1. CASE HandlerStep
    <3>1. UNCHANGED <<play, consumer>> /\ Stage' < Stage
      BY <2>1, <2>z DEF HandlerStep, StartConnect, StartCreate, StartFails,
         StopJoined, StopClose, StopMarkEnded, Stt!CloseStart, Stt!CloseEnd,
         ttsVars, handlerVars, sttVars, consumerVars, Stage
    <3>2. Consuming' = Consuming
      BY <3>1
    <3> QED
      BY <2>z, <2>a, <2>b, <3>1, <3>2
  <2>2. CASE ConsumerStep
    <3>1. cut
      BY <2>2, <2>z DEF Control, ConsumerStep, HearPartial, HearFinal,
         HearNothing, SaveUser, RunTool, TurnDone, SaveReply, SaveTool, Reply,
         TurnFails, ConsumerCancelled, Goes, Alive, Working
    <3>2. ConsumerCancelled
      BY <2>2, <3>1 DEF ConsumerStep, HearPartial, HearFinal, HearNothing,
         SaveUser, RunTool, TurnDone, SaveReply, SaveTool, Reply, TurnFails,
         Goes
    <3>3. Consuming = 1 /\ Consuming' = 0
      BY <3>2 DEF ConsumerCancelled, Alive, Working
    <3>4. UNCHANGED <<play, call, closing>>
      BY <3>2 DEF ConsumerCancelled, Stt!Abandon, ttsVars, handlerVars
    <3>5. Stage' = Stage
      BY <3>4 DEF Stage
    <3> QED
      BY <2>z, <2>a, <2>b, <3>3, <3>4, <3>5
  <2>3. ASSUME NEW u \in Utterances, PlaybackStep(u) \/ PersistGreeting
        PROVE  StepsLeft' < StepsLeft
    <3>1. UNCHANGED <<call, closing, consumer>>
      BY <2>3 DEF PlaybackStep, PersistGreeting, sttVars, handlerVars,
         consumerVars
    <3>2. Stage' = Stage /\ Consuming' = Consuming
      BY <3>1 DEF Stage
    <3>3. Cardinality(Left') = Cardinality(Left) - 1
      BY <2>3, PlaybackUnwinds
    <3> QED
      BY <2>z, <2>a, <3>2, <3>3
  <2>4. CASE Recognise \/ ReaderStops
    <3>1. UNCHANGED <<call, closing, consumer, play>>
      BY <2>4 DEF Recognise, ReaderStops, Stt!Put, Stt!ReaderDropped,
         Stt!ReaderCrashes, ttsVars, handlerVars, consumerVars
    <3>2. Stage' = Stage /\ Consuming' = Consuming
      BY <3>1 DEF Stage
    <3> QED
      BY <2>4, <2>a, <2>b, <3>1, <3>2
  <2>5. ~HangUp /\ ~FrameFails
    BY <2>z DEF HangUp, FrameFails
  <2>6. 0 \in Utterances
    BY OrchestratorAssumption DEF Utterances
  <2> QED
    BY <2>1, <2>2, <2>3, <2>4, <2>5, <2>6, <2>z DEF Next
<1> QED
  BY <1>1, Invariance, AlwaysInStep, PTL DEF Spec, StopUnwinds

-----------------------------------------------------------------------------
(* No final transcript is dropped *)

\* Before the reply of the turn is written.
Unanswered == {"saving_user", "thinking", "saving_reply"}

\* While the consumer lives, what the caller has said is answered, being
\* answered, or in the queue: barge-in, partials and a reply that is still
\* spoken make it skip nothing (orchestrator.py:125-161).
NoFinalDropped ==
    consumer \in Alive =>
        \A n \in 1..said :
            \/ ReplyRow(n) \in RowsSet
            \/ n = turn /\ consumer \in Unanswered
            \/ \E i \in 1..Len(queue) : queue[i] = Final(n)

\* All turns but the present one have been answered.
Answered ==
    consumer \in Alive =>
        \A n \in 1..turn :
            ReplyRow(n) \in RowsSet \/ (n = turn /\ consumer \in Unanswered)

\* Every step keeps that.
LEMMA AnsweredKeeps == OInv /\ Answered /\ [Next]_vars => Answered'
<1> SUFFICES ASSUME OInv, Answered, [Next]_vars, consumer' \in Alive
             PROVE  \A n \in 1..turn' :
                       \/ ReplyRow(n) \in RowsSet'
                       \/ n = turn' /\ consumer' \in Unanswered
  BY Zenon DEF Answered, ReplyRow
<1> TAKE n \in 1..turn'
<1>1. /\ RowsSet \subseteq RowsSet' /\ turn \in Nat
      /\ \A r : rows' = Append(rows, r) => r \in RowsSet'
  BY RowsStay DEF OInv, Shape
<1> USE DEF Answered
<1>2. CASE StartCreate
  BY <1>1, <1>2 DEF StartCreate, OInv, Untouched
<1>3. CASE HearFinal
  <2>1. turn' = turn + 1 /\ consumer = "listening" /\ consumer' = "saving_user"
    BY <1>3, NextFinal DEF HearFinal
  <2>2. n \in 1..turn => ReplyRow(n) \in RowsSet
    BY <2>1 DEF Alive, Unanswered
  <2> QED
    BY <1>1, <2>1, <2>2 DEF Unanswered
<1>4. CASE SaveUser \/ RunTool \/ TurnDone
  <2>1. /\ consumer \in Unanswered /\ consumer \in Alive
        /\ consumer' \in Unanswered /\ turn' = turn
    BY <1>4 DEF SaveUser, RunTool, TurnDone, Goes, Unanswered, Alive, Working
  <2> QED
    BY <1>1, <2>1
<1>5. CASE SaveReply
  <2>1. consumer \in Alive /\ turn' = turn /\ ReplyRow(turn) \in RowsSet'
    BY <1>1, <1>5 DEF SaveReply, Goes, Alive, Working
  <2> QED
    BY <1>1, <2>1
<1>6. CASE HearPartial \/ HearNothing \/ SaveTool \/ Reply
  <2>1. consumer \in Alive \ Unanswered /\ turn' = turn
    BY <1>6 DEF HearPartial, HearNothing, SaveTool, Reply, Goes, Unanswered,
       Alive, Working, consumerVars
  <2> QED
    BY <1>1, <2>1
<1>7. CASE TurnFails \/ ConsumerCancelled
  BY <1>7 DEF TurnFails, ConsumerCancelled, Alive, Working
<1>8. CASE UNCHANGED <<consumer, turn>>
  BY <1>1, <1>8
<1> QED
  BY <1>2, <1>3, <1>4, <1>5, <1>6, <1>7, <1>8
     DEF Next, HandlerStep, ConsumerStep, HangUp, FrameFails, StartConnect,
         StartFails, Stopping, StopJoined, StopClose, StopMarkEnded,
         PlaybackStep, PersistGreeting, Recognise, ReaderStops, vars,
         consumerVars

\* No final transcript is skipped or forgotten, however long the call and
\* however the caller talks over the replies: until the consumer ends, each
\* has its reply or is still on its way to it (orchestrator.py:125-161).
THEOREM NoFinalIsDropped == Spec => []NoFinalDropped
<1>1. Init => Answered
  BY DEF Init, Answered, Alive, Working
<1>2. Spec => []Answered
  BY <1>1, AnsweredKeeps, Invariance, PTL DEF Spec
<1>3. OInv /\ Answered => NoFinalDropped
  <2> SUFFICES ASSUME OInv, Answered, consumer \in Alive, NEW n \in 1..said,
                      ReplyRow(n) \notin RowsSet,
                      ~(n = turn /\ consumer \in Unanswered)
               PROVE  \E i \in 1..Len(queue) : queue[i] = Final(n)
    BY DEF NoFinalDropped
  <2>1. turn \in Nat /\ said \in Nat
    BY DEF OInv, Shape
  <2>2. n > turn
    BY <2>1 DEF Answered
  <2> QED
    BY <2>2 DEF OInv, Heard
<1> QED
  BY <1>2, <1>3, Invariance, PTL
=============================================================================
