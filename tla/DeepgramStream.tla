---------------------------- MODULE DeepgramStream ----------------------------
(***************************************************************************)
(* app/pipeline/stt_deepgram.py: one speech-to-text connection.  The       *)
(* reader task moves recognised texts from the socket to a queue, the      *)
(* caller of transcripts() takes them out, and close() tears both down.    *)
(* The `closed` event is all that joins the three.                         *)
(***************************************************************************)
EXTENDS Integers, Sequences

CONSTANTS Texts,     \* the (text, is_final) pairs that can arrive
          QueueBound \* bound on the queue for TLC: the code's has none

VARIABLES ws,        \* self._ws: "none", "open", or "dropped" by the far end
          reader,    \* self._recv_task: "none", "running", "done"
          closed,    \* self._closed
          queue,     \* self._queue
          poll,      \* transcripts(): "fresh", "waiting" in queue.get,
                     \* "yielded" (its caller has an item), "ended",
                     \* "abandoned" (its caller is gone)
          closing    \* close(): "no", "socket" (awaiting the socket), "done"

vars == <<ws, reader, closed, queue, poll, closing>>

Init ==
    /\ ws = "none"
    /\ reader = "none"
    /\ closed = FALSE
    /\ queue = <<>>
    /\ poll = "fresh"
    /\ closing = "no"

-----------------------------------------------------------------------------
\* connect() within its timeout; when it raises, nothing has changed.
Connect ==
    /\ ws = "none"
    /\ reader = "none"
    /\ closing = "no"
    /\ ws' = "open"
    /\ reader' = "running"
    /\ UNCHANGED <<closed, queue, poll, closing>>

\* send_pcm() raises unless the socket is open.
CanSend == ws = "open"

\* The reader queues a Results message with a non-blank transcript.  Other
\* messages are skipped and change nothing.
Put(text) ==
    /\ reader = "running"
    /\ ws = "open"
    /\ queue' = Append(queue, text)
    /\ UNCHANGED <<ws, reader, closed, poll, closing>>

\* Deepgram, or the network, closes the connection: the reader's loop ends.
ReaderDropped ==
    /\ reader = "running"
    /\ ws = "open"
    /\ ws' = "dropped"
    /\ reader' = "done"
    /\ closed' = TRUE
    /\ UNCHANGED <<queue, poll, closing>>

\* The reader dies on a message it cannot take apart (no JSON, no
\* alternatives).  The socket stays open and still accepts audio.
ReaderCrashes ==
    /\ reader = "running"
    /\ ws = "open"
    /\ reader' = "done"
    /\ closed' = TRUE
    /\ UNCHANGED <<ws, queue, poll, closing>>

-----------------------------------------------------------------------------
\* Fault: the closed event is not looked at before queue.get.
YieldUnchecked ==
    /\ queue # <<>>
    /\ poll \in {"fresh", "waiting", "yielded"}
    /\ queue' = Tail(queue)
    /\ poll' = "yielded"
    /\ UNCHANGED <<ws, reader, closed, closing>>

\* transcripts() hands out the oldest text.  The closed event is looked at
\* only before queue.get is called: a get that already waits still returns.
Yield ==
    /\ queue # <<>>
    /\ \/ poll = "waiting"
       \/ poll \in {"fresh", "yielded"} /\ ~closed
    /\ queue' = Tail(queue)
    /\ poll' = "yielded"
    /\ UNCHANGED <<ws, reader, closed, closing>>

\* queue.get suspends.  Its one-second timeout starts it again.
Suspend ==
    /\ poll \in {"fresh", "yielded"}
    /\ ~closed
    /\ queue = <<>>
    /\ poll' = "waiting"
    /\ UNCHANGED <<ws, reader, closed, queue, closing>>

\* Fault: queue.get has no timeout.
EndAtLoopTest ==
    /\ closed
    /\ poll \in {"fresh", "yielded"}
    /\ poll' = "ended"
    /\ UNCHANGED <<ws, reader, closed, queue, closing>>

\* The generator ends at its loop test, or when the timeout of queue.get
\* fires, whatever the queue still holds.
End ==
    /\ closed
    /\ poll \in {"fresh", "yielded", "waiting"}
    /\ poll' = "ended"
    /\ UNCHANGED <<ws, reader, closed, queue, closing>>

\* The consumer's task is cancelled, or raises, in the `async for` body.
Abandon ==
    /\ poll \in {"fresh", "yielded", "waiting"}
    /\ poll' = "abandoned"
    /\ UNCHANGED <<ws, reader, closed, queue, closing>>

-----------------------------------------------------------------------------
\* close() up to its first await; without a connection it has none.
CloseStart ==
    /\ closing = "no"
    /\ closed' = TRUE
    /\ closing' = IF ws = "none" THEN "done" ELSE "socket"
    /\ UNCHANGED <<ws, reader, queue, poll>>

\* Fault: the reader is not cancelled.
CloseEndKeepsReader ==
    /\ closing = "socket"
    /\ ws' = "none"
    /\ closing' = "done"
    /\ UNCHANGED <<reader, closed, queue, poll>>

\* The socket is closed, forgotten, and the reader cancelled and awaited.
CloseEnd ==
    /\ closing = "socket"
    /\ ws' = "none"
    /\ reader' = "done"
    /\ closing' = "done"
    /\ UNCHANGED <<closed, queue, poll>>

Next ==
    \/ Connect
    \/ Len(queue) < QueueBound /\ \E text \in Texts : Put(text)
    \/ ReaderDropped \/ ReaderCrashes
    \/ Yield \/ Suspend \/ End \/ Abandon
    \/ CloseStart \/ CloseEnd

Spec == Init /\ [][Next]_vars

\* The timeout of queue.get, the close handshake (bounded by the library's
\* close_timeout) and a caller that comes back for the next text.
Fairness == WF_vars(Yield \/ Suspend \/ End) /\ WF_vars(CloseEnd)

FairSpec == Spec /\ Fairness

-----------------------------------------------------------------------------
TypeOK ==
    /\ ws \in {"none", "open", "dropped"}
    /\ reader \in {"none", "running", "done"}
    /\ closed \in BOOLEAN
    /\ queue \in Seq(Texts)
    /\ poll \in {"fresh", "waiting", "yielded", "ended",
                "abandoned"}
    /\ closing \in {"no", "socket", "done"}

\* A reader never stops without telling transcripts(), on any of its ways
\* out, and after close() neither the task nor the socket is left behind
\* (stt_deepgram.py:101-110, 129-130).
NothingLeftBehind ==
    /\ reader = "done" => closed
    /\ closing = "done" => ws = "none" /\ reader # "running"

\* Of what the queue holds when the stream closes, or gets after that, all
\* but one text is lost: a get that waited at the close still returns one, and
\* from then on the queue is never read again (stt_deepgram.py:81-88).
OneMoreAfterClose ==
    \A n \in 0..QueueBound :
        /\ [](closed /\ Len(queue) = n => [](Len(queue) + 1 >= n))
        /\ [](closed /\ Len(queue) = n /\ poll # "waiting"
                 => [](Len(queue) >= n))

\* When the stream closes, for whatever reason, transcripts() ends: the
\* consumer is not left polling a dead connection (stt_deepgram.py:83-88).
TranscriptsEnd == closed ~> poll \in {"ended", "abandoned"}
=============================================================================
