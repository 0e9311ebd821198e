------------------------------- MODULE Playback -------------------------------
(***************************************************************************)
(* The cancellable playback tasks of app/pipeline/orchestrator.py: _speak, *)
(* _cancel_speak, _is_speaking and the task body _run_playback.            *)
(*                                                                         *)
(* Utterance 0 is the greeting, utterance n the reply to the n-th turn.    *)
(* Only the latest task is in self._speak_task; a task it replaced was     *)
(* cancelled and unwinds on its own.  Task.cancel() only takes effect when *)
(* the event loop next runs the task: until then it is `doomed`.           *)
(***************************************************************************)
EXTENDS CallBounds

Greeting   == 0
Utterances == 0..MaxFinals
NoTask     == -1

VARIABLES current,   \* the utterance of self._speak_task, or NoTask
          play,      \* the state of each task
          doomed,    \* tasks cancelled, the cancellation not yet delivered
          chunks     \* chunks of each utterance on the caller's socket

vars == <<current, play, doomed, chunks>>

(***************************************************************************)
(* none        not created                                                 *)
(* scheduled   create_task() was called, the body has not started          *)
(* sending     in the `async for` over the synthesised audio               *)
(* persisting  in the finally block, writing the greeting to the database  *)
(* done        returned or raised                                          *)
(* silenced    ended because it was cancelled                              *)
(***************************************************************************)
Running == {"scheduled", "sending", "persisting"}
PlayStatus == Running \cup {"none", "done", "silenced"}

\* Fault: a task whose body has not started does not count as speaking.
IsSending == current # NoTask /\ play[current] = "sending"

IsSpeaking == current # NoTask /\ play[current] \in Running

Init ==
    /\ current = NoTask
    /\ play = [u \in Utterances |-> "none"]
    /\ doomed = {}
    /\ chunks = [u \in Utterances |-> 0]

-----------------------------------------------------------------------------
\* What task.cancel() on self._speak_task adds, when it is not done.
Cancelled == doomed \cup (IF IsSpeaking THEN {current} ELSE {})

\* Fault: the prior task is replaced and not cancelled.
SpeakOver(u) ==
    /\ play[u] = "none"
    /\ current' = u
    /\ play' = [play EXCEPT ![u] = "scheduled"]
    /\ UNCHANGED <<doomed, chunks>>

\* _speak: the prior task is cancelled, not awaited, and replaced.
Speak(u) ==
    /\ play[u] = "none"
    /\ doomed' = Cancelled
    /\ current' = u
    /\ play' = [play EXCEPT ![u] = "scheduled"]
    /\ UNCHANGED chunks

\* _cancel_speak.
CancelSpeak ==
    /\ doomed' = Cancelled
    /\ UNCHANGED <<current, play, chunks>>

\* The event loop starts the body; a task cancelled before that never runs.
Begin(u) ==
    /\ play[u] = "scheduled"
    /\ play' = [play EXCEPT ![u] = IF u \in doomed THEN "silenced"
                                                   ELSE "sending"]
    /\ UNCHANGED <<current, doomed, chunks>>

\* Fault: the cancellation is swallowed inside the loop.
SendChunkAnyway(u) ==
    /\ play[u] = "sending"
    /\ chunks[u] < Chunks
    /\ chunks' = [chunks EXCEPT ![u] = @ + 1]
    /\ UNCHANGED <<current, play, doomed>>

SendChunk(u) ==
    /\ play[u] = "sending"
    /\ u \notin doomed
    /\ chunks[u] < Chunks
    /\ chunks' = [chunks EXCEPT ![u] = @ + 1]
    /\ UNCHANGED <<current, play, doomed>>

\* Fault: a greeting is written only by _speak's caller, like a reply.
LeaveWithoutPersist(u) ==
    /\ play' = [play EXCEPT ![u] = "done"]
    /\ UNCHANGED <<current, doomed, chunks>>

\* The finally block is entered without a cancellation: the greeting is
\* written, a reply has been written before it was spoken.
Leave(u) ==
    /\ play' = [play EXCEPT ![u] = IF u = Greeting THEN "persisting"
                                                   ELSE "done"]
    /\ UNCHANGED <<current, doomed, chunks>>

\* The last chunk and the mark are out.
Finish(u) ==
    /\ play[u] = "sending"
    /\ u \notin doomed
    /\ chunks[u] = Chunks
    /\ Leave(u)

\* Fault: synthesis that raises is started again, without a limit.
PlaybackFailsRetries(u) ==
    /\ play[u] = "sending"
    /\ u \notin doomed
    /\ play' = [play EXCEPT ![u] = "scheduled"]
    /\ UNCHANGED <<current, doomed, chunks>>

\* Synthesis, or the caller's socket, raises in mid-utterance.
PlaybackFails(u) ==
    /\ play[u] = "sending"
    /\ u \notin doomed
    /\ Leave(u)

\* The CancelledError arrives, is swallowed, and nothing is written.
Interrupt(u) ==
    /\ play[u] = "sending"
    /\ u \in doomed
    /\ play' = [play EXCEPT ![u] = "silenced"]
    /\ UNCHANGED <<current, doomed, chunks>>

\* The task leaves the database write: it returns, the write raised, or a
\* cancellation cut it short.
PersistEnds(u) ==
    /\ play[u] = "persisting"
    /\ play' = [play EXCEPT ![u] = IF u \in doomed THEN "silenced"
                                                   ELSE "done"]
    /\ UNCHANGED <<current, doomed, chunks>>

\* The greeting comes first, then replies in order; a blank reply is skipped.
InTurn(u) ==
    /\ u # Greeting => play[Greeting] # "none"
    /\ \A v \in Utterances : v > u => play[v] = "none"

Next ==
    \/ \E u \in Utterances :
          \/ InTurn(u) /\ Speak(u)
          \/ Begin(u) \/ SendChunk(u) \/ Finish(u) \/ PlaybackFails(u)
          \/ Interrupt(u) \/ PersistEnds(u)
    \/ CancelSpeak

Spec == Init /\ [][Next]_vars

Fairness ==
    \A u \in Utterances :
        WF_vars( \/ Begin(u) \/ SendChunk(u) \/ Finish(u)
                 \/ PlaybackFails(u) \/ Interrupt(u) \/ PersistEnds(u) )

FairSpec == Spec /\ Fairness

-----------------------------------------------------------------------------
TypeOK ==
    /\ current \in Utterances \cup {NoTask}
    /\ play \in [Utterances -> PlayStatus]
    /\ doomed \subseteq Utterances
    /\ chunks \in [Utterances -> 0..Chunks]

\* However many tasks are still unwinding, at most one may go on talking,
\* and it is the one self._speak_task can cancel (orchestrator.py:177-188).
OneVoice ==
    \A u \in Utterances :
        play[u] \in Running /\ u \notin doomed => u = current

\* The caller never hears two utterances interleaved, nor an old one after
\* a newer one: audio is only sent for the latest (orchestrator.py:168-182).
NoTalkOver ==
    [][ \A u \in Utterances : chunks'[u] # chunks[u] =>
            \A v \in Utterances : v > u => play[v] = "none" ]_vars

\* Barge-in: from the call of task.cancel() on not one more chunk of that
\* utterance leaves, and it is never restarted (orchestrator.py:184-188).
SilentOnceCancelled ==
    [][ \A u \in doomed :
            /\ chunks'[u] = chunks[u]
            /\ u \in doomed'
            /\ play[u] \notin Running => play'[u] = play[u] ]_vars

\* Every playback task ends: cancelled, failed or spoken to the end.
PlaybackEnds ==
    \A u \in Utterances : play[u] \in Running ~> play[u] \notin Running
=============================================================================
