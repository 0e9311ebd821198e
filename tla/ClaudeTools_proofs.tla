-------------------------- MODULE ClaudeTools_proofs --------------------------
(***************************************************************************)
(* Proofs about ClaudeTools.  With its tools the agent still takes only    *)
(* the steps of ClaudeAgent, so that everything proved there holds here.   *)
(* What went out by SMS agrees with the records: an SMS is accounted for   *)
(* by the turn that runs from the moment Twilio accepts it until the turn  *)
(* returns, fails or is cancelled.                                         *)
(***************************************************************************)
EXTENDS ClaudeTools, ClaudeAgent_proofs, FiniteSetTheorems,
        WellFoundedInduction

Words == {"sent", "error", "nothing"}
Outcomes == {"sent", "error"}

ToolTypeOK ==
    /\ threads \subseteq Nat
    /\ reply \in Outcomes \cup {"none"}
    /\ outputs \in Seq(Words)
    /\ Len(outputs) = Len(calls)

\* Who may have a thread, a reply or an output.
Awaits ==
    /\ pc = "executing" => threads \subseteq {Head(pending)}
    /\ pc \notin {"executing", "cancelled"} => threads = {} /\ reply = "none"
    /\ \A a, b \in threads : a = b
    /\ reply # "none" => threads = {}
    /\ output # NoOutput => /\ pc = "executing"
                            /\ threads = {} /\ reply = "none"

\* Nothing that the thread, the handler or a record says is untrue.
NothingLies ==
    /\ pc = "executing" /\ reply = "sent" => Head(pending) \in sent
    /\ output.kind = "sent" => Head(pending) \in sent
    /\ \A i \in 1..Len(outputs) : outputs[i] = "sent" => calls[i] \in sent
    /\ \A r \in filed : r.says = "sent" => r.use \in sent

OnFile(use) == \E r \in filed : r.use = use /\ r.says \in Outcomes

InTurn(use) ==
    \/ \E i \in 1..Len(outputs) : calls[i] = use /\ outputs[i] \in Outcomes
    \/ /\ pc = "executing" /\ Head(pending) = use
       /\ reply # "none" \/ output.kind \in Outcomes

\* Every SMS is on file, or in the turn that runs, unless that was cut short.
Accounted ==
    \A use \in sent :
        \/ OnFile(use)
        \/ pc \in {"streaming", "executing"} /\ InTurn(use)
        \/ pc \in {"failed", "cancelled"}

ToolInv == IInv /\ ToolTypeOK /\ Awaits /\ NothingLies /\ Accounted

-----------------------------------------------------------------------------
\* Every step of the tools is a step of the agent, or changes nothing of it.
LEMMA ToolStepIsAgentStep == ASSUME ToolNext PROVE [Next]_vars
<1>1. CASE \/ AnswerError \/ BookSlot \/ SendSkipped \/ SendBegins
           \/ \E from, to \in Dates, duration \in Durations :
                 CheckAvailability(from, to, duration)
           \/ \E use \in threads : ThreadEnds(use)
           \/ SendReturns
  BY <1>1 DEF AnswerError, BookSlot, SendSkipped, SendBegins,
     CheckAvailability, ThreadEnds, SendReturns
<1>2. CASE ToolReturns
  BY <1>2 DEF ToolReturns, Next
<1>3. CASE ToolUserTurn
  BY <1>3 DEF ToolUserTurn, Next
<1>4. CASE \E n \in 0..MaxUses, stop \in StopReasons : ToolRespond(n, stop)
  BY <1>4 DEF ToolRespond, Next
<1>5. CASE ToolRequestFails
  BY <1>5 DEF ToolRequestFails, Next
<1>6. CASE ToolTurnCancelled
  BY <1>6 DEF ToolTurnCancelled, Next
<1> QED
  BY <1>1, <1>2, <1>3, <1>4, <1>5, <1>6 DEF ToolNext

\* The agent with its tools is the agent of ClaudeAgent (llm_claude.py,
\* tools/registry.py).
THEOREM ToolsImplementAgent == ToolSpec => Spec
<1>1. ToolInit => Init
  BY DEF ToolInit
<1>2. [ToolNext]_allVars => [Next]_vars
  BY ToolStepIsAgentStep DEF allVars
<1> QED
  BY <1>1, <1>2, PTL DEF ToolSpec, Spec

-----------------------------------------------------------------------------
\* A new agent has sent nothing and filed nothing.
LEMMA InitToolInv == ToolInit => ToolInv
  BY InitIInv DEF ToolInit, ToolInv, ToolTypeOK, Awaits, NothingLies,
     Accounted, Init, NoOutput, Outcomes, Words

\* A handler that answers at once says nothing of an SMS.
LEMMA AnswerKeeps ==
    ASSUME ToolInv, Calling, NEW kind \in {"error", "confirmed", "skipped", "offer"},
           output'.kind = kind, output' # NoOutput,
           UNCHANGED <<vars, configured, threads, reply, sent, outputs, filed>>
    PROVE  ToolTypeOK' /\ Awaits' /\ NothingLies' /\ Accounted'
<1> USE DEF ToolInv, vars
<1>1. ToolTypeOK'
  BY DEF ToolTypeOK
<1>2. Awaits'
  BY DEF Awaits, Calling
<1>3. NothingLies'
  BY DEF NothingLies
<1>4. output = NoOutput /\ pc = "executing"
  BY DEF Calling
<1>5. ASSUME NEW use, InTurn(use) PROVE InTurn(use)'
  BY <1>4, <1>5 DEF InTurn, NoOutput, Outcomes
<1>6. Accounted'
  BY <1>5 DEF Accounted, OnFile
<1> QED
  BY <1>1, <1>2, <1>3, <1>6

\* The thread that is started is the one the turn awaits.
LEMMA SendBeginsKeeps ==
    ASSUME ToolInv, SendBegins
    PROVE  ToolTypeOK' /\ Awaits' /\ NothingLies' /\ Accounted'
<1> USE DEF ToolInv, vars, SendBegins, Calling
<1>1. ToolTypeOK'
  <2>1. Head(pending) \in Nat
    BY DEF IInv, TypeOK, Stands
  <2> QED
    BY <2>1 DEF ToolTypeOK
<1>2. Awaits'
  BY DEF Awaits
<1>3. NothingLies'
  BY DEF NothingLies
<1>4. Accounted'
  BY DEF Accounted, OnFile, InTurn
<1> QED
  BY <1>1, <1>2, <1>3, <1>4

\* A thread that nobody awaits belongs to a turn that was cancelled.
LEMMA ThreadEndsKeeps ==
    ASSUME ToolInv, NEW use \in threads, ThreadEnds(use)
    PROVE  ToolTypeOK' /\ Awaits' /\ NothingLies' /\ Accounted'
<1> USE DEF ToolInv, vars
<1>1. PICK accepted \in BOOLEAN, result \in Outcomes :
         /\ result = "sent" => accepted
         /\ sent' = IF accepted THEN sent \cup {use} ELSE sent
         /\ reply' = IF Awaited(use) THEN result ELSE reply
  BY DEF ThreadEnds, Outcomes
<1>2. /\ threads' = threads \ {use}
      /\ UNCHANGED <<vars, configured, output, outputs, filed>>
  BY DEF ThreadEnds
<1>3. /\ pc \in {"executing", "cancelled"}
      /\ pc = "executing" => use = Head(pending) /\ output = NoOutput
      /\ threads' = {}
      /\ reply = "none"
  BY <1>2 DEF Awaits
<1>4. ToolTypeOK'
  BY <1>1, <1>2 DEF ToolTypeOK
<1>5. Awaits'
  BY <1>1, <1>2, <1>3 DEF Awaits, Awaited
<1>6. sent \subseteq sent'
  BY <1>1
<1>7. NothingLies'
  <2>1. pc' = "executing" /\ reply' = "sent" => Head(pending)' \in sent'
    BY <1>1, <1>2, <1>3 DEF Awaited
  <2> QED
    BY <1>2, <1>6, <2>1 DEF NothingLies
<1>8. ASSUME NEW u, InTurn(u) PROVE InTurn(u)'
  BY <1>1, <1>2, <1>3, <1>8 DEF InTurn, Awaited, Outcomes
<1>9. pc = "executing" => InTurn(use)'
  BY <1>1, <1>2, <1>3 DEF InTurn, Awaited, Outcomes
<1>10. \A u \in sent' : u \in sent \/ u = use
  BY <1>1
<1>11. Accounted'
  BY <1>2, <1>3, <1>8, <1>9, <1>10 DEF Accounted, OnFile
<1> QED
  BY <1>4, <1>5, <1>7, <1>11

\* The output of the handler says what the thread came back with.
LEMMA SendReturnsKeeps ==
    ASSUME ToolInv, SendReturns
    PROVE  ToolTypeOK' /\ Awaits' /\ NothingLies' /\ Accounted'
<1> USE DEF ToolInv, vars, SendReturns
<1>1. ToolTypeOK'
  BY DEF ToolTypeOK
<1>2. Awaits'
  BY DEF Awaits
<1>3. NothingLies'
  BY DEF NothingLies, Plain
<1>4. ASSUME NEW use, InTurn(use) PROVE InTurn(use)'
  BY <1>4 DEF InTurn, Plain, ToolTypeOK
<1>5. Accounted'
  BY <1>4 DEF Accounted, OnFile
<1> QED
  BY <1>1, <1>2, <1>3, <1>5

\* The record says of the SMS what the output says.
LEMMA ToolReturnsKeeps ==
    ASSUME ToolInv, ToolReturns
    PROVE  ToolTypeOK' /\ Awaits' /\ NothingLies' /\ Accounted'
<1> USE DEF ToolInv, vars
<1>1. /\ pc = "executing" /\ threads = {} /\ reply = "none"
      /\ UNCHANGED <<threads, reply, sent, filed>>
      /\ output' = NoOutput
  BY DEF ToolReturns, Awaits
<1>2. /\ pc' \in {"executing", "streaming"}
      /\ calls' = Append(calls, Head(pending))
      /\ outputs' = Append(outputs, Says(output.kind))
  BY <1>1 DEF ToolReturns, Execute
<1>3. /\ outputs \in Seq(Words) /\ calls \in Seq(Nat)
      /\ Len(outputs) = Len(calls)
      /\ Says(output.kind) \in Words
      /\ Head(pending) \in Nat
  BY <1>1 DEF ToolTypeOK, IInv, TypeOK, Stands, Says, Words
<1>4. /\ outputs' \in Seq(Words)
      /\ Len(outputs') = Len(outputs) + 1 /\ Len(calls') = Len(outputs) + 1
      /\ outputs'[Len(outputs) + 1] = Says(output.kind)
      /\ calls'[Len(outputs) + 1] = Head(pending)
  BY <1>2, <1>3
<1>5. \A i \in 1..Len(outputs) : outputs'[i] = outputs[i] /\ calls'[i] = calls[i]
  BY <1>2, <1>3
<1>6. Len(outputs) \in Nat
  BY <1>3
<1>7. ToolTypeOK'
  BY <1>1, <1>4 DEF ToolTypeOK
<1>8. Awaits'
  BY <1>1, <1>2 DEF Awaits
<1>9. NothingLies'
  <2>1. Says(output.kind) = "sent" => Head(pending) \in sent
    BY DEF Says, NothingLies
  <2>2. \A i \in 1..Len(outputs') : outputs'[i] = "sent" => calls'[i] \in sent
    <3> TAKE i \in 1..Len(outputs')
    <3>1. CASE i = Len(outputs) + 1
      BY <2>1, <3>1, <1>4
    <3>2. CASE i \in 1..Len(outputs)
      BY <3>2, <1>5 DEF NothingLies
    <3> QED
      BY <3>1, <3>2, <1>4, <1>6
  <2> QED
    BY <1>1, <2>2 DEF NothingLies, NoOutput
<1>10. ASSUME NEW use, InTurn(use) PROVE InTurn(use)'
  <2>1. CASE \E i \in 1..Len(outputs) :
               calls[i] = use /\ outputs[i] \in Outcomes
    BY <2>1, <1>4, <1>5, <1>6 DEF InTurn
  <2>2. CASE Head(pending) = use /\ output.kind \in Outcomes
    <3>1. outputs'[Len(outputs) + 1] \in Outcomes
      BY <2>2, <1>4 DEF Says, Outcomes
    <3> QED
      BY <2>2, <3>1, <1>4, <1>6 DEF InTurn
  <2> QED
    BY <1>1, <1>10, <2>1, <2>2 DEF InTurn
<1>11. Accounted'
  BY <1>1, <1>2, <1>10 DEF Accounted, OnFile
<1> QED
  BY <1>7, <1>8, <1>9, <1>11

\* A turn begins when every SMS is on file.
LEMMA ToolUserTurnKeeps ==
    ASSUME ToolInv, ToolUserTurn
    PROVE  ToolTypeOK' /\ Awaits' /\ NothingLies' /\ Accounted'
<1> USE DEF ToolInv, vars, ToolUserTurn, UserTurn
<1>1. ToolTypeOK'
  BY DEF ToolTypeOK
<1>2. Awaits'
  BY DEF Awaits
<1>3. NothingLies'
  BY DEF NothingLies, Awaits
<1>4. Accounted'
  BY DEF Accounted, OnFile
<1> QED
  BY <1>1, <1>2, <1>3, <1>4

\* A turn that returns puts on file what it had in hand.
LEMMA ToolRespondKeeps ==
    ASSUME ToolInv, NEW n \in 0..MaxUses, NEW stop \in StopReasons,
           ToolRespond(n, stop)
    PROVE  ToolTypeOK' /\ Awaits' /\ NothingLies' /\ Accounted'
<1> USE DEF ToolInv, vars
<1>1. /\ pc = "streaming" /\ threads = {} /\ reply = "none"
      /\ output = NoOutput
      /\ UNCHANGED <<calls, configured, output, threads, reply, sent, outputs>>
  BY DEF ToolRespond, Respond, Awaits
<1>2. ToolTypeOK'
  BY <1>1 DEF ToolTypeOK
<1>3. Awaits'
  BY <1>1 DEF Awaits
<1>4. Len(outputs) = Len(calls)
  BY DEF ToolTypeOK
<1>5. CASE Returns(n, stop)
  <2>1. /\ pc' = "returned"
        /\ filed' = filed \cup {Record(calls[i], outputs[i]) :
                                   i \in 1..Len(calls)}
    BY <1>5 DEF ToolRespond, Respond
  <2>2. ASSUME NEW r \in filed', r.says = "sent" PROVE r.use \in sent
    <3>1. CASE r \in filed
      BY <2>2, <3>1 DEF NothingLies
    <3>2. CASE r \notin filed
      <4>1. PICK i \in 1..Len(outputs) : r = Record(calls[i], outputs[i])
        BY <2>1, <3>2, <1>4
      <4> QED
        BY <2>2, <4>1 DEF Record, NothingLies
    <3> QED
      BY <3>1, <3>2
  <2>3. NothingLies'
    BY <1>1, <2>1, <2>2 DEF NothingLies, NoOutput
  <2>4. ASSUME NEW use \in sent PROVE OnFile(use)'
    <3>1. CASE OnFile(use)
      BY <2>1, <3>1 DEF OnFile
    <3>2. CASE ~OnFile(use)
      <4>1. PICK i \in 1..Len(outputs) :
                calls[i] = use /\ outputs[i] \in Outcomes
        BY <1>1, <3>2 DEF Accounted, InTurn
      <4>2. Record(calls[i], outputs[i]) \in filed'
        BY <1>4, <2>1
      <4> QED
        BY <4>1, <4>2 DEF OnFile, Record
    <3> QED
      BY <3>1, <3>2
  <2> QED
    BY <1>1, <1>2, <1>3, <2>3, <2>4 DEF Accounted
<1>6. CASE ~Returns(n, stop)
  <2>1. pc' = "executing" /\ filed' = filed
    BY <1>6 DEF ToolRespond, Respond
  <2>2. NothingLies'
    BY <1>1, <2>1 DEF NothingLies, NoOutput
  <2>3. Accounted'
    BY <1>1, <2>1 DEF Accounted, OnFile, InTurn
  <2> QED
    BY <1>2, <1>3, <2>2, <2>3
<1> QED
  BY <1>5, <1>6

\* A turn is cut short: its SMS are nobody's any more.
LEMMA CutShortKeeps ==
    ASSUME ToolInv, ToolRequestFails \/ ToolTurnCancelled
    PROVE  ToolTypeOK' /\ Awaits' /\ NothingLies' /\ Accounted'
<1> USE DEF ToolInv, toolVars
<1>1. /\ pc' \in {"failed", "cancelled"} /\ output = NoOutput
      /\ pc' = "failed" => pc = "streaming"
      /\ UNCHANGED <<calls, toolVars>>
  BY DEF ToolRequestFails, ToolTurnCancelled, RequestFails, TurnCancelled,
     Awaits
<1>2. ToolTypeOK'
  BY <1>1 DEF ToolTypeOK
<1>3. Awaits'
  BY <1>1 DEF Awaits
<1>4. NothingLies'
  BY <1>1 DEF NothingLies, NoOutput
<1>5. Accounted'
  BY <1>1 DEF Accounted
<1> QED
  BY <1>2, <1>3, <1>4, <1>5

\* Every step keeps the invariant.
LEMMA ToolNextKeeps == ToolInv /\ [ToolNext]_allVars => ToolInv'
<1> SUFFICES ASSUME ToolInv, [ToolNext]_allVars
             PROVE  ToolInv'
  OBVIOUS
<1>1. IInv'
  <2>1. [Next]_vars
    BY ToolStepIsAgentStep DEF allVars
  <2> QED
    BY <2>1, NextKeeps DEF ToolInv
<1>2. CASE AnswerError \/ BookSlot \/ SendSkipped
  <2>1. PICK kind \in {"error", "confirmed", "skipped", "offer"} :
           output'.kind = kind /\ output' # NoOutput
    BY <1>2 DEF AnswerError, BookSlot, SendSkipped, Plain, NoOutput
  <2> QED
    BY <1>1, <1>2, <2>1, AnswerKeeps
    DEF ToolInv, AnswerError, BookSlot, SendSkipped
<1>3. CASE \E from, to \in Dates, duration \in Durations :
              CheckAvailability(from, to, duration)
  <2>1. PICK kind \in {"error", "confirmed", "skipped", "offer"} :
           output'.kind = kind /\ output' # NoOutput
    BY <1>3 DEF CheckAvailability, Plain, NoOutput
  <2> QED
    BY <1>1, <1>3, <2>1, AnswerKeeps DEF ToolInv, CheckAvailability
<1>4. CASE SendBegins
  BY <1>1, <1>4, SendBeginsKeeps DEF ToolInv
<1>5. CASE \E use \in threads : ThreadEnds(use)
  BY <1>1, <1>5, ThreadEndsKeeps DEF ToolInv
<1>6. CASE SendReturns
  BY <1>1, <1>6, SendReturnsKeeps DEF ToolInv
<1>7. CASE ToolReturns
  BY <1>1, <1>7, ToolReturnsKeeps DEF ToolInv
<1>8. CASE ToolUserTurn
  BY <1>1, <1>8, ToolUserTurnKeeps DEF ToolInv
<1>9. CASE \E n \in 0..MaxUses, stop \in StopReasons : ToolRespond(n, stop)
  BY <1>1, <1>9, ToolRespondKeeps DEF ToolInv
<1>10. CASE ToolRequestFails \/ ToolTurnCancelled
  BY <1>1, <1>10, CutShortKeeps DEF ToolInv
<1>11. CASE UNCHANGED allVars
  BY <1>1, <1>11 DEF ToolInv, ToolTypeOK, Awaits, NothingLies, Accounted,
     OnFile, InTurn, allVars, toolVars, vars
<1> QED
  BY <1>2, <1>3, <1>4, <1>5, <1>6, <1>7, <1>8, <1>9, <1>10, <1>11
  DEF ToolNext

\* The inductive invariant holds in every reachable state.
THEOREM ToolInvariance == ToolSpec => []ToolInv
  BY InitToolInv, ToolNextKeeps, PTL DEF ToolSpec

\* The SMS that went out and the records that reach the database agree, over
\* any number of turns and tools (send_confirmation.py:54-64,
\* llm_claude.py:185-195).
THEOREM SentAgreesAlways == ToolSpec => []SentAgreesWithRecords
<1>1. ToolInv => SentAgreesWithRecords
  <2> SUFFICES ASSUME ToolInv PROVE SentAgreesWithRecords
    OBVIOUS
  <2> QED
    BY DEF ToolInv, Awaits, NothingLies, Accounted, OnFile, Outcomes,
       SentAgreesWithRecords
<1> QED
  BY <1>1, ToolInvariance, PTL
-----------------------------------------------------------------------------
(* What was proved of the agent holds of the agent with its tools. *)

\* The messages, the turn and its records keep their types under the tools
\* (llm_claude.py:130-211).
THEOREM AgentTypeCorrect == ToolSpec => []TypeOK
  BY ToolsImplementAgent, TypeCorrect, PTL

\* With its tools the agent sends a history that the model accepts: user and
\* assistant alternate (llm_claude.py:143-144, 168, 209).
THEOREM ToolsKeepRoles == ToolSpec => []RolesAlternate
  BY ToolsImplementAgent, RolesAlternateAlways, PTL

\* Whatever a tool does, raises or has to wait for, its result follows its
\* tool_use block in the history (llm_claude.py:170-209).
THEOREM ToolsAnswerEveryUse == ToolSpec => []EveryUseAnswered
  BY ToolsImplementAgent, EveryUseIsAnswered, PTL

\* A turn with tools hands over one record for each (llm_claude.py:188-195).
THEOREM ToolsAreRecorded == ToolSpec => []TurnRecordsItsTools
  BY ToolsImplementAgent, TurnAlwaysRecordsItsTools, PTL

-----------------------------------------------------------------------------
(* One SMS for one request *)

\* An SMS that is being sent has not gone out before: no round, no turn and no
\* fault makes a tool_use block send twice (send_confirmation.py:55-62,
\* llm_claude.py:185-187).
SmsAtMostOnce == threads \cap sent = {}

\* A block that has sent its SMS is behind the agent, or is the one whose
\* result is on the way.
SentIsBehind ==
    /\ \A use \in sent \cup threads : use \in Nat /\ use <= emitted
    /\ pc = "executing" =>
         \A use \in Elements(pending) \cap sent :
            /\ use = Head(pending)
            /\ reply # "none" \/ output # NoOutput

OnceInv == SmsAtMostOnce /\ SentIsBehind

\* The next block to execute is one of those asked for, and less than the
\* ones after it.
LEMMA NextBlock ==
    ASSUME IInv, RInv, pc = "executing"
    PROVE  /\ Head(pending) \in Elements(pending)
           /\ Head(pending) \in Nat /\ Head(pending) <= emitted
           /\ \A use \in Elements(Tail(pending)) :
                 use \in Elements(pending) /\ use # Head(pending)
<1>1. /\ pending \in Seq(Nat) /\ pending # <<>> /\ Len(pending) \in Nat
      /\ emitted \in Nat
  BY DEF IInv, TypeOK, Stands
<1>2. 1 \in 1..Len(pending) /\ Head(pending) = pending[1]
  BY <1>1
<1>3. \A x \in Elements(pending) : x <= emitted
  BY DEF RInv, InTurnOrder
<1>4. ASSUME NEW use \in Elements(Tail(pending))
      PROVE  use \in Elements(pending) /\ use # Head(pending)
  <2>1. PICK i \in 1..Len(Tail(pending)) : use = Tail(pending)[i]
    BY <1>4 DEF Elements
  <2>2. i + 1 \in 1..Len(pending) /\ use = pending[i + 1] /\ 1 < i + 1
    BY <1>1, <2>1
  <2>3. pending[1] < pending[i + 1]
    BY <1>2, <2>2 DEF RInv, InTurnOrder, Increasing
  <2> QED
    BY <1>1, <1>2, <2>2, <2>3 DEF Elements
<1> QED
  BY <1>1, <1>2, <1>3, <1>4 DEF Elements

\* No step makes a block send again.
LEMMA OnceKept ==
    ASSUME ToolInv, RInv, OnceInv, [ToolNext]_allVars
    PROVE  OnceInv'
<1> USE DEF OnceInv, SmsAtMostOnce, SentIsBehind, vars
<1>0. IInv /\ emitted \in Nat
  BY DEF ToolInv, IInv, TypeOK
<1>1. CASE \/ AnswerError \/ BookSlot \/ SendSkipped
           \/ \E from, to \in Dates, duration \in Durations :
                 CheckAvailability(from, to, duration)
  <2>1. output' # NoOutput /\ UNCHANGED <<vars, threads, reply, sent>>
    BY <1>1 DEF AnswerError, BookSlot, SendSkipped, CheckAvailability, Plain,
       NoOutput
  <2> QED
    BY <2>1 DEF Elements
<1>2. CASE SendBegins
  <2>1. /\ threads' = threads \cup {Head(pending)}
        /\ reply = "none" /\ output = NoOutput /\ pc = "executing"
        /\ UNCHANGED <<vars, output, reply, sent>>
    BY <1>2 DEF SendBegins, Calling
  <2>2. /\ Head(pending) \notin sent
        /\ Head(pending) \in Nat /\ Head(pending) <= emitted
    BY <1>0, <2>1, NextBlock
  <2> QED
    BY <2>1, <2>2 DEF Elements
<1>3. ASSUME NEW use \in threads, ThreadEnds(use) PROVE OnceInv'
  <2>1. /\ threads' = threads \ {use}
        /\ sent' \subseteq sent \cup {use}
        /\ UNCHANGED <<vars, output>>
    BY <1>3 DEF ThreadEnds
  <2>2. pc = "executing" => use = Head(pending) /\ reply' # "none"
    BY <1>3 DEF ThreadEnds, Awaited, ToolInv, Awaits
  <2> QED
    BY <1>3, <2>1, <2>2 DEF Elements
<1>4. CASE SendReturns
  <2>1. output' # NoOutput /\ UNCHANGED <<vars, threads, sent>>
    BY <1>4 DEF SendReturns, Plain, NoOutput, ToolInv, ToolTypeOK, Outcomes
  <2> QED
    BY <2>1 DEF Elements
<1>5. CASE ToolReturns
  <2>1. /\ pc = "executing" /\ pending' = Tail(pending)
        /\ UNCHANGED <<threads, reply, sent, emitted>>
    BY <1>5 DEF ToolReturns, Execute
  <2>2. Elements(pending') \cap sent = {}
    BY <1>0, <2>1, NextBlock
  <2> QED
    BY <2>1, <2>2 DEF Elements
<1>6. ASSUME NEW n \in 0..MaxUses, NEW stop \in StopReasons,
             ToolRespond(n, stop)
      PROVE  OnceInv'
  <2>1. /\ emitted' = emitted + n /\ UNCHANGED <<threads, sent>>
        /\ n \in Nat
    BY <1>6, AgentAssumption DEF ToolRespond, Respond
  <2>2. ASSUME pc' = "executing", NEW use \in Elements(pending'), use \in sent
        PROVE  FALSE
    <3>1. pending' = [i \in 1..n |-> emitted + i]
      BY <1>6, <2>2 DEF ToolRespond, Respond
    <3>2. PICK i \in 1..n : use = emitted + i
      BY <2>1, <2>2, <3>1 DEF Elements
    <3> QED
      BY <1>0, <2>2, <3>2
  <2>3. \A use \in sent \cup threads : use \in Nat /\ use <= emitted'
    BY <1>0, <2>1
  <2> QED
    BY <2>1, <2>2, <2>3 DEF Elements
<1>7. CASE ToolUserTurn \/ ToolRequestFails \/ ToolTurnCancelled
  <2>1. pc' # "executing" /\ UNCHANGED <<emitted, threads, sent>>
    BY <1>7 DEF ToolUserTurn, UserTurn, ToolRequestFails, RequestFails,
       ToolTurnCancelled, TurnCancelled, toolVars
  <2> QED
    BY <2>1
<1>8. CASE UNCHANGED allVars
  BY <1>8 DEF allVars, toolVars, Elements
<1> QED
  BY <1>1, <1>2, <1>3, <1>4, <1>5, <1>6, <1>7, <1>8 DEF ToolNext

\* One tool_use block sends at most one SMS (send_confirmation.py:55-62).
THEOREM SmsGoesOutOnce == ToolSpec => []SmsAtMostOnce
<1>1. ToolInit => OnceInv
  BY DEF ToolInit, Init, OnceInv, SmsAtMostOnce, SentIsBehind
<1>2. ToolInv /\ RInv /\ OnceInv /\ [ToolNext]_allVars => OnceInv'
  BY OnceKept
<1>3. OnceInv => SmsAtMostOnce
  BY DEF OnceInv
<1> QED
  BY <1>1, <1>2, <1>3, ToolInvariance, ToolsImplementAgent,
     RecordsInvariance, PTL DEF ToolSpec

-----------------------------------------------------------------------------
(***************************************************************************)
(* The calendar.  The window is walked by a recursive function, so what it *)
(* returns is shown by induction on the days that are left.  Induction is  *)
(* over a set of numbers: a set that has 0, and n + 1 with n, has them all.*)
(***************************************************************************)

\* A set of natural numbers has a least one: the intervals 0..n of its
\* members are finite, and one of them holds no other.
LEMMA LeastNatural ==
    ASSUME NEW T, T \subseteq Nat, T # {}
    PROVE  \E n \in T : \A m \in T : n <= m
<1> DEFINE U == {0..n : n \in T}
<1>1. U \subseteq FiniteSubsetsOf(Nat)
  <2> SUFFICES ASSUME NEW n \in T PROVE 0..n \in FiniteSubsetsOf(Nat)
    OBVIOUS
  <2>1. IsFiniteSet(0..n)
    BY FS_Interval
  <2> QED
    BY <2>1 DEF FiniteSubsetsOf
<1>2. IsWellFoundedOn(StrictSubsetOrdering(Nat), FiniteSubsetsOf(Nat))
  BY FS_StrictSubsetOrderingWellFounded
<1>3. U # {}
  OBVIOUS
<1>4. PICK I \in U : \A J \in U : <<J, I>> \notin StrictSubsetOrdering(Nat)
  <2> HIDE DEF U
  <2> QED
    BY <1>1, <1>2, <1>3, WFMin
<1>5. PICK n \in T : I = 0..n
  BY <1>4
<1>6. ASSUME NEW m \in T, m < n PROVE FALSE
  <2>1. 0..m \subseteq 0..n /\ 0..m # 0..n /\ 0..n \subseteq Nat
    BY <1>6
  <2>2. <<0..m, 0..n>> \in StrictSubsetOrdering(Nat)
    BY <2>1 DEF StrictSubsetOrdering
  <2> QED
    BY <1>4, <1>5, <2>2
<1> QED
  BY <1>6

\* Induction over a set of natural numbers.
LEMMA SetInduction ==
    ASSUME NEW S, 0 \in S, \A n \in Nat : n \in S => n + 1 \in S
    PROVE  Nat \subseteq S
<1> SUFFICES ASSUME Nat \ S # {} PROVE FALSE
  OBVIOUS
<1>1. PICK n \in Nat \ S : \A m \in Nat \ S : n <= m
  BY LeastNatural
<1>2. n # 0 /\ n - 1 \in Nat
  BY <1>1
<1>3. n - 1 \in S
  BY <1>1, <1>2
<1> QED
  BY <1>1, <1>2, <1>3

Slot == [day : Int, hour : Hours]

\* The list has the slots of the set, each one once, in the order of the
\* calendar.
Lists(list, slots) ==
    /\ list \in Seq(Slot)
    /\ {list[i] : i \in 1..Len(list)} = slots
    /\ \A i, j \in 1..Len(list) : i < j => Earlier(list[i], list[j])

\* Two lists make one if the first ends before the second begins.
LEMMA ListsJoin ==
    ASSUME NEW A, NEW B, \A a \in A, b \in B : Earlier(a, b),
           NEW first, Lists(first, A), NEW rest, Lists(rest, B)
    PROVE  Lists(first \o rest, A \cup B)
<1> DEFINE whole == first \o rest
           Members(list) == {list[i] : i \in 1..Len(list)}
<1>1. /\ first \in Seq(Slot) /\ rest \in Seq(Slot)
      /\ Members(first) = A /\ Members(rest) = B
  BY DEF Lists
<1>2. whole \in Seq(Slot)
  BY <1>1
<1>3. /\ Len(whole) = Len(first) + Len(rest)
      /\ \A i \in 1..Len(first) : whole[i] = first[i]
      /\ \A i \in 1..Len(rest) : whole[i + Len(first)] = rest[i]
      /\ Len(first) \in Nat /\ Len(rest) \in Nat
  BY <1>1
<1>4. \A i \in 1..Len(whole) :
         \/ i \in 1..Len(first)
         \/ i - Len(first) \in 1..Len(rest) /\ whole[i] = rest[i - Len(first)]
  BY <1>1, <1>3
<1> HIDE DEF whole
<1>5. ASSUME NEW x PROVE x \in Members(whole) <=> x \in A \cup B
  <2>1. ASSUME NEW i \in 1..Len(whole) PROVE whole[i] \in A \cup B
    BY <1>1, <1>3, <1>4
  <2>2. ASSUME NEW i \in 1..Len(first) PROVE first[i] \in Members(whole)
    <3>1. i \in 1..Len(whole)
      BY <1>3
    <3> QED
      BY <1>3, <3>1
  <2>3. ASSUME NEW i \in 1..Len(rest) PROVE rest[i] \in Members(whole)
    <3>1. i + Len(first) \in 1..Len(whole)
      BY <1>3
    <3> QED
      BY <1>3, <3>1
  <2>4. x \in A \cup B => x \in Members(whole)
    BY <1>1, <2>2, <2>3
  <2> QED
    BY <2>1, <2>4
<1>6. ASSUME NEW i \in 1..Len(whole), NEW j \in 1..Len(whole), i < j
      PROVE  Earlier(whole[i], whole[j])
  <2>1. CASE j \in 1..Len(first)
    <3>1. i \in 1..Len(first)
      BY <1>6, <2>1, <1>3
    <3> QED
      BY <1>3, <1>6, <2>1, <3>1 DEF Lists
  <2>2. CASE i \in 1..Len(first) /\ j \notin 1..Len(first)
    <3>1. whole[i] \in A /\ whole[j] \in B
      BY <1>1, <1>3, <1>4, <2>2
    <3> QED
      BY <3>1
  <2>3. CASE i \notin 1..Len(first) /\ j \notin 1..Len(first)
    <3>1. /\ i - Len(first) \in 1..Len(rest) /\ whole[i] = rest[i - Len(first)]
          /\ j - Len(first) \in 1..Len(rest) /\ whole[j] = rest[j - Len(first)]
      BY <1>4, <2>3
    <3>2. i - Len(first) < j - Len(first)
      BY <1>3, <1>6
    <3> QED
      BY <3>1, <3>2 DEF Lists
  <2>4. i \in Nat /\ j \in Nat /\ Len(first) \in Nat
    BY <1>3
  <2> QED
    BY <1>6, <2>1, <2>2, <2>3, <2>4
<1> QED
  BY <1>2, <1>5, <1>6 DEF Lists, whole

\* No slot makes an empty list.
LEMMA ListsNothing == Lists(<<>>, {})
  BY DEF Lists

\* One slot makes a list of one.
LEMMA ListsOne ==
    ASSUME NEW s \in Slot
    PROVE  Lists(<<s>>, {s})
<1> DEFINE list == <<s>>
<1>1. list \in Seq(Slot) /\ Len(list) = 1 /\ list[1] = s
  OBVIOUS
<1> HIDE DEF list
<1> QED
  BY <1>1 DEF Lists, list

\* The appointment is over at closing time, whether the minutes are counted
\* or the hours it takes are rounded up.
LEMMA FitsRoundedUp ==
    ASSUME NEW h \in Hours, NEW duration \in Int
    PROVE  Fits(h, duration) <=> h + (duration + 59) \div 60 <= Closes
  BY DEF Hours, Fits, Closes

\* _fake_slots() lists what may be offered on its day.
LEMMA FakeSlotsListsDay ==
    ASSUME NEW d \in Int, NEW duration \in Int
    PROVE  Lists(FakeSlots(d, duration), Bookable(d, d, duration))
<1> DEFINE At(h) == [day |-> d, hour |-> h]
           Open(h) == IF Fits(h, duration) THEN {At(h)} ELSE {}
           K(h) == Kept(d, h, duration)
<1>1. \A s : s \in Bookable(d, d, duration) <=>
                /\ Weekday(d) \in 0..4
                /\ \E h \in Hours : s = At(h) /\ Fits(h, duration)
  BY FitsRoundedUp DEF Bookable
<1>2. CASE Weekday(d) >= 5
  <2>1. Bookable(d, d, duration) = {}
    BY <1>1, <1>2
  <2> QED
    BY <1>2, <2>1, ListsNothing DEF FakeSlots
<1>3. CASE Weekday(d) \in 0..4
  <2>1. ASSUME NEW h \in Hours PROVE Lists(K(h), Open(h))
    BY ListsNothing, ListsOne DEF Kept, Slot
  <2>2. ASSUME NEW g \in Hours, NEW h \in Hours, g < h,
               NEW a \in Open(g), NEW b \in Open(h)
        PROVE  Earlier(a, b)
    BY <2>2 DEF Earlier
  <2>3. Bookable(d, d, duration) = Open(9) \cup Open(11) \cup Open(14) \cup Open(16)
    BY <1>1, <1>3 DEF Hours
  <2>4. FakeSlots(d, duration) = K(9) \o K(11) \o K(14) \o K(16)
    BY <1>3 DEF FakeSlots
  <2>5. 9 \in Hours /\ 11 \in Hours /\ 14 \in Hours /\ 16 \in Hours
    BY DEF Hours
  <2> HIDE DEF Open, K
  <2>6. Lists(K(9) \o K(11), Open(9) \cup Open(11))
    BY <2>1, <2>2, <2>5, ListsJoin
  <2>7. Lists(K(9) \o K(11) \o K(14), Open(9) \cup Open(11) \cup Open(14))
    <3>1. \A a \in Open(9) \cup Open(11), b \in Open(14) : Earlier(a, b)
      BY <2>2, <2>5
    <3> QED
      BY <2>1, <2>5, <2>6, <3>1, ListsJoin
  <2>8. Lists(K(9) \o K(11) \o K(14) \o K(16),
              Open(9) \cup Open(11) \cup Open(14) \cup Open(16))
    <3>1. \A a \in Open(9) \cup Open(11) \cup Open(14), b \in Open(16) :
             Earlier(a, b)
      BY <2>2, <2>5
    <3> QED
      BY <2>1, <2>5, <2>7, <3>1, ListsJoin
  <2> QED
    BY <2>3, <2>4, <2>8
<1> QED
  BY <1>2, <1>3 DEF Weekday

\* The list of a day and that of the days after it.
LEMMA ListsOneMoreDay ==
    ASSUME NEW d \in Int, NEW to \in Int, d <= to, NEW duration \in Int,
           NEW rest, Lists(rest, Bookable(d + 1, to, duration))
    PROVE  Lists(FakeSlots(d, duration) \o rest, Bookable(d, to, duration))
<1>1. d..to = (d..d) \cup ((d + 1)..to)
  OBVIOUS
<1>2. Bookable(d, to, duration) =
        Bookable(d, d, duration) \cup Bookable(d + 1, to, duration)
  BY <1>1 DEF Bookable
<1>3. \A a \in Bookable(d, d, duration), b \in Bookable(d + 1, to, duration) :
         Earlier(a, b)
  BY DEF Bookable, Earlier
<1> QED
  BY <1>2, <1>3, FakeSlotsListsDay, ListsJoin

\* The function on the days from..to + 1 that the loop of Slots computes.
Extends(g, from, to, duration) ==
    g = [cur \in from..to + 1 |->
            IF cur > to THEN <<>> ELSE FakeSlots(cur, duration) \o g[cur + 1]]

\* Such a function exists: it is built from the last day backwards.
LEMMA ExtendsExists ==
    ASSUME NEW to \in Int, NEW duration, NEW n \in Nat
    PROVE  \E g : Extends(g, to + 1 - n, to, duration)
<1> DEFINE S == {k \in Nat : \E g : Extends(g, to + 1 - k, to, duration)}
<1>1. 0 \in S
  <2> DEFINE g == [cur \in to + 1 .. to + 1 |-> <<>>]
  <2>1. \A cur \in to + 1 .. to + 1 : cur > to
    OBVIOUS
  <2>2. Extends(g, to + 1, to, duration)
    BY <2>1 DEF Extends
  <2>3. to + 1 - 0 = to + 1
    OBVIOUS
  <2> QED
    BY <2>2, <2>3
<1>2. ASSUME NEW k \in Nat, k \in S PROVE k + 1 \in S
  <2> DEFINE d == to + 1 - (k + 1)
  <2>1. PICK g : Extends(g, to + 1 - k, to, duration)
    BY <1>2
  <2>2. /\ d + 1 = to + 1 - k /\ d <= to /\ d \in Int
        /\ d..to + 1 = {d} \cup (d + 1..to + 1)
        /\ d \notin d + 1 .. to + 1
    OBVIOUS
  <2> DEFINE h == [cur \in d..to + 1 |->
                      IF cur = d THEN FakeSlots(d, duration) \o g[d + 1]
                                 ELSE g[cur]]
  <2> HIDE DEF d
  <2>3. \A cur \in d + 1..to + 1 : h[cur] = g[cur]
    BY <2>2
  <2>4. \A cur \in d + 1..to + 1 :
           g[cur] = IF cur > to THEN <<>>
                                ELSE FakeSlots(cur, duration) \o g[cur + 1]
    BY <2>1, <2>2 DEF Extends
  <2>5. \A cur \in d..to + 1 :
           h[cur] = IF cur > to THEN <<>>
                                ELSE FakeSlots(cur, duration) \o h[cur + 1]
    <3> SUFFICES ASSUME NEW cur \in d..to + 1
                 PROVE  h[cur] = IF cur > to THEN <<>>
                                ELSE FakeSlots(cur, duration) \o h[cur + 1]
      OBVIOUS
    <3>1. cur <= to => cur + 1 \in d + 1 .. to + 1
      BY <2>2
    <3>2. CASE cur = d
      <4>1. h[cur] = FakeSlots(cur, duration) \o g[cur + 1]
        BY <3>2
      <4>2. h[cur + 1] = g[cur + 1]
        BY <2>2, <2>3, <3>1, <3>2
      <4> QED
        BY <2>2, <3>2, <4>1, <4>2
    <3>3. CASE cur # d
      <4>1. cur \in d + 1 .. to + 1
        BY <2>2, <3>3
      <4> HIDE DEF h
      <4> QED
        BY <2>2, <2>3, <2>4, <3>1, <4>1
    <3> QED
      BY <3>2, <3>3
  <2>6. h = [cur \in d..to + 1 |-> h[cur]]
    OBVIOUS
  <2>7. Extends(h, d, to, duration)
    <3> HIDE DEF h
    <3> QED
      BY <2>5, <2>6 DEF Extends
  <2> QED
    BY <2>7 DEF d
<1> QED
  BY <1>1, <1>2, SetInduction

\* What Slots() returns is the value of such a function.
LEMMA SlotsExtends ==
    ASSUME NEW from \in Int, NEW to \in Int, from <= to + 1, NEW duration
    PROVE  \E g : /\ Extends(g, from, to, duration)
                  /\ Slots(from, to, duration) = g[from]
<1> DEFINE G == CHOOSE g : Extends(g, from, to, duration)
<1>1. Slots(from, to, duration) = G[from]
  BY DEF Slots, Extends
<1>2. to + 1 - from \in Nat /\ to + 1 - (to + 1 - from) = from
  OBVIOUS
<1>3. \E g : Extends(g, from, to, duration)
  BY <1>2, ExtendsExists
<1>4. Extends(G, from, to, duration)
  BY <1>3
<1> QED
  BY <1>1, <1>4

\* From each of its days on the loop lists what may be offered.
LEMMA ExtendsLists ==
    ASSUME NEW from \in Int, NEW to \in Int, from <= to + 1,
           NEW duration \in Int, NEW g, Extends(g, from, to, duration)
    PROVE  Lists(g[from], Bookable(from, to, duration))
<1> DEFINE Right(d) == Lists(g[d], Bookable(d, to, duration))
           S == {k \in Nat : to + 1 - k >= from => Right(to + 1 - k)}
<1>1. \A d \in from..to + 1 :
         g[d] = IF d > to THEN <<>> ELSE FakeSlots(d, duration) \o g[d + 1]
  BY DEF Extends
<1>2. 0 \in S
  <2>1. (to + 1)..to = {}
    OBVIOUS
  <2>2. Bookable(to + 1, to, duration) = {}
    BY <2>1 DEF Bookable
  <2>3. g[to + 1] = <<>>
    BY <1>1
  <2>4. to + 1 - 0 = to + 1
    OBVIOUS
  <2>5. Right(to + 1)
    BY <2>2, <2>3, ListsNothing
  <2> HIDE DEF Right
  <2> QED
    BY <2>4, <2>5
<1>3. ASSUME NEW k \in Nat, k \in S PROVE k + 1 \in S
  <2> DEFINE d == to + 1 - (k + 1)
  <2>1. d \in Int /\ d <= to /\ d + 1 = to + 1 - k
    OBVIOUS
  <2> HIDE DEF d
  <2>2. ASSUME d >= from PROVE Right(d)
    <3>1. Right(d + 1)
      BY <1>3, <2>1, <2>2
    <3>2. d \in from..to + 1 /\ ~(d > to)
      BY <2>1, <2>2
    <3>3. g[d] = FakeSlots(d, duration) \o g[d + 1]
      BY <1>1, <3>2
    <3> QED
      BY <2>1, <3>1, <3>3, ListsOneMoreDay
  <2> QED
    BY <2>2 DEF d
<1>4. to + 1 - from \in S
  <2>1. to + 1 - from \in Nat
    OBVIOUS
  <2> HIDE DEF S
  <2> QED
    BY <1>2, <1>3, <2>1, SetInduction
<1>5. to + 1 - (to + 1 - from) = from
  OBVIOUS
<1> QED
  BY <1>4, <1>5


\* check_availability() lists, for every window and every duration, the slots
\* in which the appointment fits, in the order of the calendar
\* (check_availability.py:57-74).
THEOREM SlotsListTheWindow ==
    ASSUME NEW from \in Int, NEW to \in Int, from <= to,
           NEW duration \in Int
    PROVE  Lists(Slots(from, to, duration), Bookable(from, to, duration))
<1>1. PICK g : /\ Extends(g, from, to, duration)
               /\ Slots(from, to, duration) = g[from]
  BY SlotsExtends
<1> QED
  BY <1>1, ExtendsLists

\* Only check_availability makes an offer.
LEMMA OffersKept ==
    ASSUME ToolInv, OffersMatchCalendar, [ToolNext]_allVars
    PROVE  OffersMatchCalendar'
<1>1. CASE \E from, to \in Dates, duration \in Durations :
              CheckAvailability(from, to, duration)
  <2>1. PICK from \in Dates, to \in Dates, duration \in Durations :
           CheckAvailability(from, to, duration)
    BY <1>1
  <2>2. from \in Int /\ to \in Int /\ duration \in Int
    BY ToolsAssumption
  <2>3. CASE BadWindow(from, to)
    BY <2>1, <2>3 DEF CheckAvailability, OffersMatchCalendar, Plain
  <2>4. CASE ~BadWindow(from, to)
    <3>1. from <= to
      BY <2>2, <2>4 DEF BadWindow
    <3>2. Lists(Slots(from, to, duration), Bookable(from, to, duration))
      BY <2>2, <3>1, SlotsListTheWindow
    <3> DEFINE list == Slots(from, to, duration)
    <3>3. output' = [kind |-> "offer", from |-> from, to |-> to,
                     duration |-> duration, slots |-> list]
      BY <2>1, <2>4 DEF CheckAvailability
    <3> HIDE DEF list
    <3>4. /\ output'.from = from /\ output'.to = to
          /\ output'.duration = duration /\ output'.slots = list
      BY <3>3
    <3>5. Lists(list, Bookable(from, to, duration))
      BY <3>2 DEF list
    <3> QED
      BY <3>4, <3>5 DEF Lists, OffersMatchCalendar
  <2> QED
    BY <2>3, <2>4
<1>2. CASE AnswerError \/ BookSlot \/ SendSkipped \/ ToolReturns
  BY <1>2 DEF AnswerError, BookSlot, SendSkipped, ToolReturns, Plain,
     NoOutput, OffersMatchCalendar
<1>3. CASE SendReturns
  BY <1>3 DEF SendReturns, Plain, ToolInv, ToolTypeOK, Outcomes,
     OffersMatchCalendar
<1>4. CASE \/ SendBegins
           \/ \E use \in threads : ThreadEnds(use)
           \/ ToolUserTurn
           \/ \E n \in 0..MaxUses, stop \in StopReasons : ToolRespond(n, stop)
           \/ ToolRequestFails \/ ToolTurnCancelled
           \/ UNCHANGED allVars
  <2>1. UNCHANGED output
    BY <1>4 DEF SendBegins, ThreadEnds, ToolUserTurn, ToolRespond,
       ToolRequestFails, ToolTurnCancelled, toolVars, allVars
  <2> QED
    BY <2>1 DEF OffersMatchCalendar
<1> QED
  BY <1>1, <1>2, <1>3, <1>4 DEF ToolNext

\* Whatever window and duration the model asks for, the offer is the calendar's:
\* every slot of the window that fits, in order, and no other
\* (check_availability.py:47-74).
THEOREM OffersAlwaysMatch == ToolSpec => []OffersMatchCalendar
<1>1. ToolInit => OffersMatchCalendar
  BY DEF ToolInit, NoOutput, OffersMatchCalendar
<1>2. ToolInv /\ OffersMatchCalendar /\ [ToolNext]_allVars
         => OffersMatchCalendar'
  BY OffersKept
<1> QED
  BY <1>1, <1>2, ToolInvariance, PTL DEF ToolSpec
=============================================================================
