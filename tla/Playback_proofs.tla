---------------------------- MODULE Playback_proofs ----------------------------
(***************************************************************************)
(* Proofs about Playback, for any number of replies and of chunks.         *)
(*                                                                         *)
(* The inductive invariant adds to OneVoice where the tasks stand: only a  *)
(* task that exists can have been cancelled, and no task is newer than the *)
(* one in self._speak_task.                                                *)
(***************************************************************************)
EXTENDS Playback, TLAPS

\* task.cancel() is only ever called on a task that was created.
DoomedExist == \A u \in doomed : play[u] # "none"

\* self._speak_task is the latest task, and there is none without one.
CurrentIsLatest ==
    /\ \A u \in Utterances : play[u] # "none" => u \leq current
    /\ current # NoTask => play[current] # "none"

IInv == TypeOK /\ OneVoice /\ DoomedExist /\ CurrentIsLatest

-----------------------------------------------------------------------------
\* Before the call starts no task exists, so the invariant holds.
LEMMA InitIInv == Init => IInv
  BY BoundsAssumption
     DEF Init, IInv, TypeOK, OneVoice, DoomedExist, CurrentIsLatest,
         Utterances, NoTask, PlayStatus, Running

\* _speak keeps the invariant: the task it replaces, the only one that could
\* go on talking, is cancelled in the same step (orchestrator.py:177-182).
LEMMA SpeakKeeps ==
    ASSUME IInv, NEW u \in Utterances, InTurn(u), Speak(u)
    PROVE  IInv'
<1>1. TypeOK'
  BY DEF IInv, TypeOK, Speak, Cancelled, IsSpeaking, NoTask, Utterances,
         PlayStatus, Running
<1>2. OneVoice'
  <2> SUFFICES ASSUME NEW v \in Utterances, play'[v] \in Running,
                      v \notin doomed', v # u
               PROVE  FALSE
    BY DEF OneVoice, Speak
  <2>1. play[v] \in Running /\ v \notin doomed
    BY DEF IInv, TypeOK, Speak, Cancelled
  <2>2. v = current
    BY <2>1 DEF IInv, OneVoice
  <2>3. IsSpeaking
    BY <2>1, <2>2, BoundsAssumption DEF IsSpeaking, NoTask, Utterances
  <2> QED
    BY <2>2, <2>3 DEF Speak, Cancelled
<1>3. DoomedExist'
  BY DEF IInv, TypeOK, DoomedExist, Speak, Cancelled, IsSpeaking, Running
<1>4. CurrentIsLatest'
  BY BoundsAssumption
     DEF IInv, TypeOK, CurrentIsLatest, Speak, InTurn, Utterances, NoTask
<1> QED
  BY <1>1, <1>2, <1>3, <1>4 DEF IInv

\* _cancel_speak keeps the invariant.
LEMMA CancelSpeakKeeps == IInv /\ CancelSpeak => IInv'
  BY DEF IInv, TypeOK, OneVoice, DoomedExist, CurrentIsLatest, CancelSpeak,
         Cancelled, IsSpeaking, Running

\* A task that goes on, ends or fails changes nothing but its own state and
\* its own chunks, and only a running one does.
Moves(u) ==
    /\ play[u] \in Running
    /\ \E s \in Running \cup {"done", "silenced"} :
          play' = [play EXCEPT ![u] = s]
    /\ chunks' \in [Utterances -> 0..Chunks]
    /\ UNCHANGED <<current, doomed>>

\* The whole body of _run_playback is made of such moves.
LEMMA BodyMoves ==
    ASSUME TypeOK, NEW u \in Utterances,
           \/ Begin(u) \/ SendChunk(u) \/ Finish(u) \/ PlaybackFails(u)
           \/ Interrupt(u) \/ PersistEnds(u)
    PROVE  Moves(u)
<1>1. CASE Begin(u)
  BY <1>1 DEF Begin, Moves, TypeOK, Running
<1>2. CASE SendChunk(u)
  <2>1. play' = [play EXCEPT ![u] = "sending"]
    BY <1>2 DEF SendChunk, TypeOK
  <2>2. chunks[u] + 1 \in 0..Chunks
    BY <1>2, BoundsAssumption DEF SendChunk, TypeOK
  <2> QED
    BY <1>2, <2>1, <2>2 DEF SendChunk, Moves, TypeOK, Running
<1>3. CASE Finish(u)
  BY <1>3 DEF Finish, Leave, Moves, TypeOK, Running
<1>4. CASE PlaybackFails(u)
  BY <1>4 DEF PlaybackFails, Leave, Moves, TypeOK, Running
<1>5. CASE Interrupt(u)
  BY <1>5 DEF Interrupt, Moves, TypeOK, Running
<1>6. CASE PersistEnds(u)
  BY <1>6 DEF PersistEnds, Moves, TypeOK, Running
<1> QED
  BY <1>1, <1>2, <1>3, <1>4, <1>5, <1>6

\* A move of one task keeps the invariant.
LEMMA MovesKeep ==
    ASSUME IInv, NEW u \in Utterances, Moves(u)
    PROVE  IInv'
<1>1. TypeOK'
  BY DEF IInv, TypeOK, Moves, PlayStatus
<1>2. OneVoice' /\ DoomedExist' /\ CurrentIsLatest'
  BY DEF IInv, TypeOK, OneVoice, DoomedExist, CurrentIsLatest, Moves, Running,
         Utterances, NoTask
<1> QED
  BY <1>1, <1>2 DEF IInv

\* Every step keeps the invariant.
LEMMA NextKeeps == IInv /\ [Next]_vars => IInv'
<1> SUFFICES ASSUME IInv, [Next]_vars
             PROVE  IInv'
  OBVIOUS
<1>1. ASSUME NEW u \in Utterances, InTurn(u), Speak(u)
      PROVE  IInv'
  BY <1>1, SpeakKeeps
<1>2. ASSUME NEW u \in Utterances,
             \/ Begin(u) \/ SendChunk(u) \/ Finish(u) \/ PlaybackFails(u)
             \/ Interrupt(u) \/ PersistEnds(u)
      PROVE  IInv'
  BY <1>2, BodyMoves, MovesKeep DEF IInv
<1>3. CASE CancelSpeak
  BY <1>3, CancelSpeakKeeps
<1>4. CASE UNCHANGED vars
  BY <1>4 DEF IInv, TypeOK, OneVoice, DoomedExist, CurrentIsLatest, vars
<1> QED
  BY <1>1, <1>2, <1>3, <1>4 DEF Next

\* The inductive invariant holds in every reachable state.
THEOREM Invariance == Spec => []IInv
  BY InitIInv, NextKeeps, PTL DEF Spec

\* The variables of the playback tasks keep their types (orchestrator.py:168-188).
THEOREM TypeCorrect == Spec => []TypeOK
  BY Invariance, PTL DEF IInv

\* At most one playback task may go on talking, and it is the one that
\* self._speak_task can cancel, whatever tasks are still unwinding
\* (orchestrator.py:177-188).
THEOREM OneVoiceHolds == Spec => []OneVoice
  BY Invariance, PTL DEF IInv

-----------------------------------------------------------------------------
\* A step that sends audio sends it for the latest utterance.
LEMMA SendsLatest ==
    ASSUME IInv, [Next]_vars,
           NEW u \in Utterances, chunks'[u] # chunks[u],
           NEW v \in Utterances, v > u
    PROVE  play[v] = "none"
<1>1. SendChunk(u)
  BY DEF IInv, TypeOK, Next, vars, Speak, CancelSpeak, Begin, SendChunk, Finish,
         PlaybackFails, Leave, Interrupt, PersistEnds
<1>2. u = current
  BY <1>1 DEF SendChunk, IInv, OneVoice, Running
<1> QED
  BY <1>2, BoundsAssumption DEF IInv, CurrentIsLatest, Utterances

\* Audio is never sent for an utterance once a later one exists: the caller
\* hears no two of them interleaved (orchestrator.py:168-182).
THEOREM NoTalkOverHolds == Spec => NoTalkOver
<1>1. IInv /\ [Next]_vars =>
        [ \A u \in Utterances : chunks'[u] # chunks[u] =>
            \A v \in Utterances : v > u => play[v] = "none" ]_vars
  BY SendsLatest
<1> QED
  BY <1>1, Invariance, PTL DEF Spec, NoTalkOver

\* Once cancelled, a task sends nothing more, stays cancelled and, when it has
\* ended, is not started again.
LEMMA StaysSilent ==
    ASSUME IInv, [Next]_vars, NEW u \in doomed
    PROVE  /\ chunks'[u] = chunks[u]
           /\ u \in doomed'
           /\ play[u] \notin Running => play'[u] = play[u]
<1>0. u \in Utterances /\ play[u] # "none"
  BY DEF IInv, TypeOK, DoomedExist
<1>1. ASSUME NEW w \in Utterances, Speak(w)
      PROVE  w # u
  BY <1>0, <1>1 DEF Speak
<1>2. CASE \E w \in Utterances : Speak(w)
  BY <1>0, <1>1, <1>2 DEF Speak, Cancelled, IInv, TypeOK
<1>3. ASSUME NEW w \in Utterances, SendChunk(w)
      PROVE  w # u
  BY <1>3 DEF SendChunk
<1>4. CASE \E w \in Utterances : SendChunk(w)
  BY <1>0, <1>3, <1>4 DEF SendChunk, IInv, TypeOK
<1>5. ASSUME NEW w \in Utterances,
             \/ Begin(w) \/ Finish(w) \/ PlaybackFails(w) \/ Interrupt(w)
             \/ PersistEnds(w)
      PROVE  /\ play[w] \in Running
             /\ \A v \in Utterances : v # w => play'[v] = play[v]
             /\ UNCHANGED <<doomed, chunks>>
  BY <1>5 DEF Begin, Finish, PlaybackFails, Leave, Interrupt, PersistEnds,
              IInv, TypeOK, Running
<1>6. CASE \E w \in Utterances :
             \/ Begin(w) \/ Finish(w) \/ PlaybackFails(w) \/ Interrupt(w)
             \/ PersistEnds(w)
  BY <1>0, <1>5, <1>6
<1>7. CASE CancelSpeak \/ UNCHANGED vars
  BY <1>7 DEF CancelSpeak, Cancelled, vars
<1> QED
  BY <1>2, <1>4, <1>6, <1>7 DEF Next

\* Barge-in is effective at once: from task.cancel() on not one more chunk of
\* that utterance is sent (orchestrator.py:184-188).
THEOREM SilentOnceCancelledHolds == Spec => SilentOnceCancelled
<1>1. IInv /\ [Next]_vars =>
        [ \A u \in doomed :
            /\ chunks'[u] = chunks[u]
            /\ u \in doomed'
            /\ play[u] \notin Running => play'[u] = play[u] ]_vars
  BY StaysSilent
<1> QED
  BY <1>1, Invariance, PTL DEF Spec, SilentOnceCancelled

-----------------------------------------------------------------------------
\* The steps a playback task has at most before it: one to begin, one for
\* each chunk, one to leave the loop, and one for the greeting's write.
StepsBefore(u) ==
    CASE play[u] = "scheduled"  -> Chunks + 3
      [] play[u] = "sending"    -> Chunks - chunks[u] + 2
      [] play[u] = "persisting" -> 1
      [] OTHER                  -> 0

\* Each step of a running task leaves it fewer steps, and no other task, no
\* new utterance and no cancellation gives it more or sends it back: a task
\* that is run ends (orchestrator.py:168-209).
PlaybackRunsOut ==
    [][ \A u \in Utterances : play[u] \in Running =>
            \/ UNCHANGED <<play[u], chunks[u]>>
            \/ StepsBefore(u)' \in Nat /\ StepsBefore(u)' < StepsBefore(u) ]_vars

\* What a step does to a task that runs.
LEMMA RunsOutStep ==
    ASSUME IInv, [Next]_vars, NEW u \in Utterances, play[u] \in Running
    PROVE  \/ UNCHANGED <<play[u], chunks[u]>>
           \/ StepsBefore(u)' \in Nat /\ StepsBefore(u)' < StepsBefore(u)
<1>1. /\ play \in [Utterances -> PlayStatus] /\ Chunks \in Nat
      /\ chunks \in [Utterances -> Nat] /\ chunks[u] \in 0..Chunks
  BY BoundsAssumption DEF IInv, TypeOK
<1>2. ASSUME NEW w \in Utterances, Speak(w)
      PROVE  UNCHANGED <<play[u], chunks[u]>>
  <2>1. w # u
    BY <1>2 DEF Speak, Running
  <2> QED
    BY <1>1, <1>2, <2>1 DEF Speak
<1>3. CASE CancelSpeak \/ UNCHANGED vars
  BY <1>3 DEF CancelSpeak, vars
<1>4. ASSUME NEW w \in Utterances, w # u,
             \/ Begin(w) \/ SendChunk(w) \/ Finish(w) \/ PlaybackFails(w)
             \/ Interrupt(w) \/ PersistEnds(w)
      PROVE  UNCHANGED <<play[u], chunks[u]>>
  BY <1>1, <1>4 DEF Begin, SendChunk, Finish, PlaybackFails, Leave, Interrupt,
     PersistEnds
<1>5. CASE Begin(u)
  <2>1. /\ play[u] = "scheduled" /\ play'[u] \in {"sending", "silenced"}
        /\ chunks' = chunks
    BY <1>1, <1>5 DEF Begin
  <2> QED
    BY <1>1, <2>1 DEF StepsBefore
<1>6. CASE SendChunk(u)
  <2>1. /\ play[u] = "sending" /\ play'[u] = "sending"
        /\ chunks'[u] = chunks[u] + 1 /\ chunks[u] < Chunks
    BY <1>1, <1>6 DEF SendChunk
  <2> QED
    BY <1>1, <2>1 DEF StepsBefore
<1>7. CASE Finish(u) \/ PlaybackFails(u) \/ Interrupt(u)
  <2>1. /\ play[u] = "sending" /\ play'[u] \in {"persisting", "done", "silenced"}
    BY <1>1, <1>7 DEF Finish, PlaybackFails, Leave, Interrupt
  <2> QED
    BY <1>1, <2>1 DEF StepsBefore
<1>8. CASE PersistEnds(u)
  <2>1. play[u] = "persisting" /\ play'[u] \in {"done", "silenced"}
    BY <1>1, <1>8 DEF PersistEnds
  <2> QED
    BY <2>1 DEF StepsBefore
<1> QED
  BY <1>2, <1>3, <1>4, <1>5, <1>6, <1>7, <1>8 DEF Next

\* A playback task that the event loop runs comes to its end: every step it
\* takes is one fewer, and nothing restarts it (orchestrator.py:168-209).
THEOREM PlaybackAlwaysRunsOut == Spec => PlaybackRunsOut
<1>1. IInv /\ [Next]_vars =>
        [ \A u \in Utterances : play[u] \in Running =>
            \/ UNCHANGED <<play[u], chunks[u]>>
            \/ StepsBefore(u)' \in Nat /\ StepsBefore(u)' < StepsBefore(u) ]_vars
  BY RunsOutStep
<1> QED
  BY <1>1, Invariance, PTL DEF Spec, PlaybackRunsOut
=============================================================================
