----------------------------- MODULE ClaudeAgent -----------------------------
(***************************************************************************)
(* app/pipeline/llm_claude.py: the message history of a call and the       *)
(* manual tool loop of run_turn().                                         *)
(*                                                                         *)
(* A message is known by its role and by the tool_use blocks it holds or   *)
(* answers; the blocks are numbered in the order the model emits them.     *)
(* The consumer of the orchestrator is the only caller, and makes no call  *)
(* after run_turn() raised or was cancelled.                               *)
(***************************************************************************)
EXTENDS Integers, Sequences, FiniteSets

CONSTANTS MaxMessages, \* length of the history (bound for TLC: the code's
                       \* turns and its tool loop have none)
          MaxUses      \* tool_use blocks of a response (bound for TLC)

ASSUME AgentAssumption == MaxMessages \in Nat /\ MaxUses \in Nat

VARIABLES messages,  \* self._messages
          pc,        \* idle, streaming, executing, returned, failed, cancelled
          pending,   \* tool_use blocks of the response not executed yet
          answered,  \* tool_results of the response so far
          calls,     \* result.tool_calls of the turn
          emitted    \* tool_use blocks emitted by the model so far

vars == <<messages, pc, pending, answered, calls, emitted>>

StopReasons == {"end_turn", "tool_use", "max_tokens", "refusal"}

UserText == [role |-> "user", blocks |-> {}, stop |-> "none"]

\* Fault: results go under a role of their own.
ToolResults(blocks) == [role |-> "tool", blocks |-> blocks, stop |-> "none"]

Results(blocks) == [role |-> "user", blocks |-> blocks, stop |-> "none"]
Response(blocks, stop) ==
    [role |-> "assistant", blocks |-> blocks, stop |-> stop]

Init ==
    /\ messages = <<>>
    /\ pc = "idle"
    /\ pending = <<>>
    /\ answered = {}
    /\ calls = <<>>
    /\ emitted = 0

-----------------------------------------------------------------------------
\* add_user_text() and run_turn() up to its first request.
UserTurn ==
    /\ pc \in {"idle", "returned"}
    /\ Len(messages) < MaxMessages
    /\ messages' = Append(messages, UserText)
    /\ pc' = "streaming"
    /\ calls' = <<>>
    /\ UNCHANGED <<pending, answered, emitted>>

\* What the model may answer: tool_use blocks come with stop_reason tool_use,
\* or with a response that max_tokens or a refusal has cut short.
Answers(n, stop) ==
    /\ stop = "tool_use" => n > 0
    /\ stop = "end_turn" => n = 0

\* The loop ends on a refusal, else when no tool_use block came: the other
\* stop reasons are not looked at.
Returns(n, stop) == stop = "refusal" \/ n = 0

\* Fault: the next round's blocks are only queued.
RespondUnrecorded(n, stop) ==
    /\ pc = "streaming"
    /\ Answers(n, stop)
    /\ emitted' = emitted + n
    /\ pending' = [i \in 1..n |-> emitted + i]
    /\ answered' = {}
    /\ pc' = IF Returns(n, stop) THEN "returned" ELSE "executing"
    /\ UNCHANGED <<messages, calls>>

\* A response with n tool_use blocks is complete and goes into the history.
Respond(n, stop) ==
    /\ pc = "streaming"
    /\ Answers(n, stop)
    /\ emitted' = emitted + n
    /\ messages' =
         Append(messages, Response((emitted + 1)..(emitted + n), stop))
    /\ answered' = {}
    /\ IF Returns(n, stop)
         THEN pc' = "returned" /\ pending' = <<>>
         ELSE pc' = "executing" /\ pending' = [i \in 1..n |-> emitted + i]
    /\ UNCHANGED calls

\* Fault: the results go out after the first tool.
ExecuteFirstOnly ==
    /\ pc = "executing"
    /\ calls' = Append(calls, Head(pending))
    /\ pending' = <<>>
    /\ answered' = {Head(pending)}
    /\ messages' = Append(messages, Results(answered'))
    /\ pc' = "streaming"
    /\ UNCHANGED emitted

\* Fault: only the last tool of a round is recorded.
ExecuteRecordsLast ==
    /\ pc = "executing"
    /\ pending' = Tail(pending)
    /\ answered' = answered \cup {Head(pending)}
    /\ IF Tail(pending) = <<>>
         THEN /\ messages' = Append(messages, Results(answered'))
              /\ calls' = Append(calls, Head(pending))
              /\ pc' = "streaming"
         ELSE UNCHANGED <<messages, calls, pc>>
    /\ UNCHANGED emitted

\* The next tool has run, with an output or an error, which registry.execute
\* turns into an output; it is recorded and becomes a tool_result.  After the
\* last one the results go into the history and the next request is made.
Execute ==
    /\ pc = "executing"
    /\ calls' = Append(calls, Head(pending))
    /\ pending' = Tail(pending)
    /\ answered' = answered \cup {Head(pending)}
    /\ IF Tail(pending) = <<>>
         THEN /\ messages' = Append(messages, Results(answered'))
              /\ pc' = "streaming"
         ELSE UNCHANGED <<messages, pc>>
    /\ UNCHANGED emitted

\* The request fails after the client's own retries.
RequestFails ==
    /\ pc = "streaming"
    /\ pc' = "failed"
    /\ UNCHANGED <<messages, pending, answered, calls, emitted>>

\* The call ends while the turn awaits the model or a tool.
TurnCancelled ==
    /\ pc \in {"streaming", "executing"}
    /\ pc' = "cancelled"
    /\ UNCHANGED <<messages, pending, answered, calls, emitted>>

Next ==
    \/ UserTurn
    \/ \E n \in 0..MaxUses, stop \in StopReasons :
          Len(messages) < MaxMessages /\ Respond(n, stop)
    \/ Execute
    \/ RequestFails
    \/ TurnCancelled

Spec == Init /\ [][Next]_vars

-----------------------------------------------------------------------------
(* Properties *)

Messages == [role: {"user", "assistant"}, blocks: SUBSET Nat,
             stop: StopReasons \cup {"none"}]

TypeOK ==
    /\ messages \in Seq(Messages)
    /\ pc \in {"idle", "streaming", "executing", "returned", "failed",
               "cancelled"}
    /\ pending \in Seq(Nat)
    /\ answered \subseteq Nat
    /\ calls \in Seq(Nat)
    /\ emitted \in Nat

\* The history starts with the user and alternates, over any number of turns
\* and tool rounds, and a request is always the user's turn to have spoken
\* (llm_claude.py:143-144, 168, 209).
RolesAlternate ==
    /\ \A i \in 1..Len(messages) :
          messages[i].role = (IF i % 2 = 1 THEN "user" ELSE "assistant")
    /\ pc = "streaming" => Len(messages) % 2 = 1

\* In every request each tool_use block of an earlier response is answered by
\* the very next message, with exactly the results of that response, and no
\* result answers anything else.  A refusal is the exception: its blocks stay
\* unanswered in the history that the next turn sends (llm_claude.py:170-209).
EveryUseAnswered ==
    pc = "streaming" =>
        \A i \in 1..Len(messages) - 1 :
            messages[i].role = "assistant" =>
                messages[i + 1].blocks =
                    IF messages[i].stop = "refusal" THEN {}
                                                    ELSE messages[i].blocks

\* A turn that returns hands over one record for every tool_use block that
\* the history says was answered since the user spoke, none twice, in the
\* order the model asked for them: those records are all the database will
\* ever get (llm_claude.py:188-195, orchestrator.py:151-158).
TurnRecordsItsTools ==
    pc = "returned" =>
        LET start == CHOOSE i \in 1..Len(messages) :
                       /\ messages[i] = UserText
                       /\ \A j \in i + 1..Len(messages) : messages[j] # UserText
            asked == UNION {messages[i].blocks : i \in
                       {j \in start..Len(messages) : messages[j].role = "user"}}
        IN /\ {calls[i] : i \in 1..Len(calls)} = asked
           /\ \A i, j \in 1..Len(calls) : i < j => calls[i] < calls[j]
=============================================================================
