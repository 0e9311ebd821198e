-------------------------- MODULE ClaudeAgent_proofs --------------------------
(***************************************************************************)
(* Proofs about ClaudeAgent, for a history of any length and responses     *)
(* with any number of tool_use blocks.                                     *)
(*                                                                         *)
(* What a request contains is settled one or more steps before it is made. *)
(* The inductive invariant says, for each place the turn may stand at,     *)
(* what the last message is and what still has to follow it.               *)
(***************************************************************************)
EXTENDS ClaudeAgent, SequenceTheorems, TLAPS

Role(i) == IF i % 2 = 1 THEN "user" ELSE "assistant"

\* The history alternates, wherever the turn stands.
Alternates == \A i \in 1..Len(messages) : messages[i].role = Role(i)

\* The results that a response calls for.
Due(m) == IF m.stop = "refusal" THEN {} ELSE m.blocks

\* Every response that is not the last message has its results.
Settled ==
    \A i \in 1..Len(messages) - 1 :
        messages[i].role = "assistant" =>
            messages[i + 1].blocks = Due(messages[i])

Last == messages[Len(messages)]

\* The tool_use blocks that have not been executed.
Unexecuted == {pending[i] : i \in 1..Len(pending)}

\* Where the turn stands, and what the last message is.
Stands ==
    /\ pc = "idle" => messages = <<>>
    /\ pc = "streaming" => Len(messages) % 2 = 1
    /\ pc = "returned" => /\ Len(messages) > 0
                          /\ Len(messages) % 2 = 0
                          /\ Due(Last) = {}
    /\ pc = "executing" => /\ Len(messages) > 0
                           /\ Len(messages) % 2 = 0
                           /\ Due(Last) = answered \cup Unexecuted
                           /\ pending # <<>>

IInv == TypeOK /\ Alternates /\ Settled /\ Stands

-----------------------------------------------------------------------------
\* A new agent has an empty history.
LEMMA InitIInv == Init => IInv
  BY DEF Init, IInv, TypeOK, Alternates, Settled, Stands

\* A history with one message more, of the role whose turn it is, alternates;
\* and it is settled when the message carries the results that are due.
LEMMA AppendKeeps ==
    ASSUME messages \in Seq(Messages), Alternates, Settled,
           NEW m \in Messages, messages' = Append(messages, m),
           m.role = Role(Len(messages) + 1),
           Len(messages) > 0 /\ m.role = "user" => m.blocks = Due(Last)
    PROVE  /\ messages' \in Seq(Messages)
           /\ Len(messages') = Len(messages) + 1
           /\ Last' = m
           /\ Alternates'
           /\ Settled'
<1>1. /\ messages' \in Seq(Messages)
      /\ Len(messages) \in Nat
      /\ Len(messages') = Len(messages) + 1
      /\ messages'[Len(messages) + 1] = m
      /\ \A i \in 1..Len(messages) : messages'[i] = messages[i]
  OBVIOUS
<1>2. Last' = m
  BY <1>1 DEF Last
<1>3. \A i \in 1..Len(messages') : i \in 1..Len(messages) \/ i = Len(messages) + 1
  BY <1>1
<1>4. Alternates'
  BY <1>1, <1>3 DEF Alternates, Role
<1>5. Settled'
  <2> SUFFICES ASSUME NEW i \in 1..Len(messages') - 1,
                      messages'[i].role = "assistant"
               PROVE  messages'[i + 1].blocks = Due(messages'[i])
    BY DEF Settled, Due
  <2>1. i \in 1..Len(messages) /\ messages'[i] = messages[i]
    BY <1>1
  <2>2. CASE i = Len(messages)
    <3>1. m.role = "user"
      BY <1>1, <2>1, <2>2 DEF Alternates, Role
    <3> QED
      BY <1>1, <2>1, <2>2, <3>1 DEF Last
  <2>3. CASE i # Len(messages)
    <3>1. i \in 1..Len(messages) - 1 /\ i + 1 \in 1..Len(messages)
      BY <1>1, <2>1, <2>3
    <3> QED
      BY <1>1, <2>1, <3>1 DEF Settled
  <2> QED
    BY <2>2, <2>3
<1> QED
  BY <1>1, <1>2, <1>4, <1>5

\* add_user_text() follows a response that left nothing to answer.
LEMMA UserTurnKeeps == IInv /\ UserTurn => IInv'
<1> SUFFICES ASSUME IInv, UserTurn
             PROVE  IInv'
  OBVIOUS
<1>1. /\ UserText \in Messages /\ UserText.role = "user"
      /\ UserText.blocks = {}
  BY DEF UserText, Messages
<1>2. Len(messages) \in Nat /\ Len(messages) % 2 = 0
  <2>1. messages \in Seq(Messages)
    BY DEF IInv, TypeOK
  <2>2. messages = <<>> \/ Len(messages) % 2 = 0
    BY DEF IInv, Stands, UserTurn
  <2> QED
    BY <2>1, <2>2
<1>3. Len(messages) > 0 => Due(Last) = {}
  BY DEF IInv, Stands, UserTurn
<1>4. /\ messages' \in Seq(Messages)
      /\ Len(messages') = Len(messages) + 1
      /\ Alternates' /\ Settled'
  <2>1. UserText.role = Role(Len(messages) + 1)
    BY <1>1, <1>2 DEF Role
  <2>2. messages' = Append(messages, UserText)
    BY DEF UserTurn
  <2>3. messages \in Seq(Messages) /\ Alternates /\ Settled
    BY DEF IInv, TypeOK
  <2> QED
    BY <1>1, <1>3, <2>1, <2>2, <2>3, AppendKeeps
<1>5. TypeOK'
  BY <1>4 DEF IInv, TypeOK, UserTurn
<1>6. Stands'
  BY <1>2, <1>4 DEF Stands, UserTurn
<1> QED
  BY <1>4, <1>5, <1>6 DEF IInv

\* A response goes into the history before its tools run; whatever its blocks,
\* what they call for is what is pending, or nothing when the turn returns.
LEMMA RespondKeeps ==
    ASSUME IInv, NEW n \in Nat, NEW stop \in StopReasons, Respond(n, stop)
    PROVE  IInv'
<1> DEFINE blocks == (emitted + 1)..(emitted + n)
           m == Response(blocks, stop)
<1>1. /\ m \in Messages /\ m.role = "assistant"
      /\ m.blocks = blocks /\ m.stop = stop
  BY DEF Response, Messages, IInv, TypeOK
<1>2. Len(messages) \in Nat /\ Len(messages) % 2 = 1 /\ emitted \in Nat
  BY DEF IInv, TypeOK, Stands, Respond
<1>3. messages' = Append(messages, m)
  BY DEF Respond
<1> HIDE DEF m
<1>4. /\ messages' \in Seq(Messages)
      /\ Len(messages') = Len(messages) + 1
      /\ Last' = m
      /\ Alternates' /\ Settled'
  <2>1. m.role = Role(Len(messages) + 1)
    BY <1>1, <1>2 DEF Role
  <2> QED
    BY <1>1, <1>3, <2>1, AppendKeeps DEF IInv, TypeOK
<1>5. TypeOK'
  <2>1. pending' \in Seq(Nat)
    <3>1. [i \in 1..n |-> emitted + i] \in Seq(Nat)
      BY <1>2
    <3>2. pending' = <<>> \/ pending' = [i \in 1..n |-> emitted + i]
      BY DEF Respond
    <3>3. <<>> \in Seq(Nat)
      OBVIOUS
    <3> QED
      BY <3>1, <3>2, <3>3
  <2> QED
    BY <1>2, <1>4, <2>1 DEF IInv, TypeOK, Respond
<1>6. Len(messages') > 0 /\ Len(messages') % 2 = 0
  BY <1>2, <1>4
<1>7. CASE Returns(n, stop)
  <2>1. Due(Last)' = {}
    BY <1>1, <1>2, <1>4, <1>7 DEF Returns, Due
  <2> QED
    BY <1>4, <1>5, <1>6, <1>7, <2>1 DEF IInv, Stands, Respond
<1>8. CASE ~Returns(n, stop)
  <2>1. Due(Last)' = blocks /\ n > 0
    BY <1>1, <1>4, <1>8 DEF Returns, Due
  <2>2. pending' = [i \in 1..n |-> emitted + i] /\ answered' = {}
    BY <1>8 DEF Respond
  <2>3. Len(pending') = n /\ pending' # <<>>
    BY <2>1, <2>2
  <2>4. Unexecuted' = blocks
    <3>1. \A b \in blocks : b - emitted \in 1..n /\ emitted + (b - emitted) = b
      BY <1>2
    <3> QED
      BY <1>2, <2>2, <2>3, <3>1 DEF Unexecuted
  <2> QED
    BY <1>4, <1>5, <1>6, <1>8, <2>1, <2>2, <2>3, <2>4 DEF IInv, Stands, Respond
<1> QED
  BY <1>7, <1>8

\* Executing a tool moves its block from what is pending to what is answered;
\* the last one sends the results of the whole response.
LEMMA ExecuteKeeps == IInv /\ Execute => IInv'
<1> SUFFICES ASSUME IInv, Execute
             PROVE  IInv'
  OBVIOUS
<1>1. /\ pending \in Seq(Nat) /\ pending # <<>> /\ answered \subseteq Nat
      /\ Len(messages) \in Nat /\ Len(messages) > 0 /\ Len(messages) % 2 = 0
      /\ Due(Last) = answered \cup Unexecuted
  <2>1. pending \in Seq(Nat) /\ answered \subseteq Nat /\ messages \in Seq(Messages)
    BY DEF IInv, TypeOK
  <2>2. Len(messages) \in Nat
    BY <2>1
  <2>3. /\ pending # <<>> /\ Len(messages) > 0 /\ Len(messages) % 2 = 0
        /\ Due(Last) = answered \cup Unexecuted
    BY DEF IInv, Stands, Execute
  <2> QED
    BY <2>1, <2>2, <2>3
<1>2. /\ pending' = Tail(pending) /\ pending' \in Seq(Nat)
      /\ Head(pending) \in Nat
      /\ answered' = answered \cup {Head(pending)}
      /\ answered' \subseteq Nat
      /\ calls' \in Seq(Nat) /\ emitted' = emitted
  <2>1. Head(pending) \in Nat /\ Tail(pending) \in Seq(Nat)
    BY <1>1
  <2>2. Append(calls, Head(pending)) \in Seq(Nat)
    BY <2>1 DEF IInv, TypeOK
  <2> QED
    BY <1>1, <2>1, <2>2 DEF Execute
<1>3. Unexecuted = {Head(pending)} \cup Unexecuted'
  <2>1. /\ Len(pending) \in Nat /\ Len(pending) > 0
        /\ Len(pending') = Len(pending) - 1
        /\ Head(pending) = pending[1]
        /\ \A i \in 1..Len(pending') : pending'[i] = pending[i + 1]
    BY <1>1, <1>2, HeadTailProperties
  <2>2. \A i \in 1..Len(pending) :
           i = 1 \/ (i - 1 \in 1..Len(pending') /\ (i - 1) + 1 = i)
    BY <2>1
  <2>3. \A i \in 1..Len(pending') : i + 1 \in 1..Len(pending)
    BY <2>1
  <2>4. ASSUME NEW i \in 1..Len(pending)
        PROVE  pending[i] \in {Head(pending)} \cup Unexecuted'
    <3>1. CASE i = 1
      BY <2>1, <3>1
    <3>2. CASE i # 1
      <4>1. i - 1 \in 1..Len(pending') /\ pending'[i - 1] = pending[i]
        BY <2>1, <2>2, <3>2
      <4> QED
        BY <4>1 DEF Unexecuted
    <3> QED
      BY <3>1, <3>2
  <2>5. Unexecuted' \subseteq Unexecuted /\ Head(pending) \in Unexecuted
    BY <2>1, <2>3 DEF Unexecuted
  <2> QED
    BY <2>4, <2>5 DEF Unexecuted
<1>4. Due(Last) = answered' \cup Unexecuted'
  BY <1>1, <1>2, <1>3
<1>5. CASE pending' = <<>>
  <2>1. Unexecuted' = {}
    BY <1>5 DEF Unexecuted
  <2> DEFINE m == Results(answered')
  <2>2. /\ m \in Messages /\ m.role = "user" /\ m.blocks = Due(Last)
        /\ messages' = Append(messages, m) /\ pc' = "streaming"
    BY <1>1, <1>2, <1>4, <1>5, <2>1 DEF Execute, Results, Messages
  <2> HIDE DEF m
  <2>3. m.role = Role(Len(messages) + 1)
    BY <1>1, <2>2 DEF Role
  <2>4. /\ messages' \in Seq(Messages)
        /\ Len(messages') = Len(messages) + 1
        /\ Alternates' /\ Settled'
    BY <2>2, <2>3, AppendKeeps DEF IInv, TypeOK
  <2>5. TypeOK'
    BY <1>1, <1>2, <2>2, <2>4 DEF IInv, TypeOK
  <2>6. Len(messages') % 2 = 1
    BY <1>1, <2>4
  <2> QED
    BY <2>2, <2>4, <2>5, <2>6 DEF IInv, Stands
<1>6. CASE pending' # <<>>
  <2>1. UNCHANGED <<messages, pc>>
    BY <1>2, <1>6 DEF Execute
  <2>2. TypeOK'
    BY <1>1, <1>2, <2>1 DEF IInv, TypeOK
  <2>3. Alternates' /\ Settled' /\ Last' = Last
    BY <2>1 DEF IInv, Alternates, Settled, Last
  <2>4. Stands'
    BY <1>1, <1>4, <1>6, <2>1, <2>3 DEF Stands, Due, Execute
  <2> QED
    BY <2>2, <2>3, <2>4 DEF IInv
<1> QED
  BY <1>5, <1>6

\* Every step keeps the invariant.
LEMMA NextKeeps == IInv /\ [Next]_vars => IInv'
<1> SUFFICES ASSUME IInv, [Next]_vars
             PROVE  IInv'
  OBVIOUS
<1>1. CASE UserTurn
  BY <1>1, UserTurnKeeps
<1>2. ASSUME NEW n \in 0..MaxUses, NEW stop \in StopReasons, Respond(n, stop)
      PROVE  IInv'
  BY <1>2, RespondKeeps, AgentAssumption
<1>3. CASE Execute
  BY <1>3, ExecuteKeeps
<1>4. CASE RequestFails \/ TurnCancelled
  BY <1>4 DEF RequestFails, TurnCancelled, IInv, TypeOK, Alternates, Settled,
              Stands, Last
<1>5. CASE UNCHANGED vars
  BY <1>5 DEF vars, IInv, TypeOK, Alternates, Settled, Stands, Last, Unexecuted
<1> QED
  BY <1>1, <1>2, <1>3, <1>4, <1>5 DEF Next

-----------------------------------------------------------------------------
\* The inductive invariant holds in every reachable state.
THEOREM Invariance == Spec => []IInv
  BY InitIInv, NextKeeps, PTL DEF Spec

\* The history holds user and assistant messages only, and the records of a
\* turn are tool_use blocks (llm_claude.py:88-209).
THEOREM TypeCorrect == Spec => []TypeOK
  BY Invariance, PTL DEF IInv

\* User and assistant alternate in the history, from the user on, and every
\* request ends with the user (llm_claude.py:143-144, 168, 209).
THEOREM RolesAlternateAlways == Spec => []RolesAlternate
<1>1. IInv => RolesAlternate
  BY DEF IInv, Alternates, Role, Stands, RolesAlternate
<1> QED
  BY <1>1, Invariance, PTL

\* Each tool_use block of an earlier response is answered by the next message
\* of every request, a refused response excepted (llm_claude.py:170-209).
THEOREM EveryUseIsAnswered == Spec => []EveryUseAnswered
<1>1. IInv => EveryUseAnswered
  BY DEF IInv, Settled, Due, EveryUseAnswered
<1> QED
  BY <1>1, Invariance, PTL

-----------------------------------------------------------------------------
(* The records of a turn *)

\* The turn's user text is at place s.
Begins(s) ==
    /\ s \in 1..Len(messages)
    /\ messages[s] = UserText
    /\ \A j \in s + 1..Len(messages) : messages[j] # UserText

\* The blocks that the history has answered from place s on.
Asked(s) == UNION {messages[i].blocks : i \in
                     {j \in s..Len(messages) : messages[j].role = "user"}}

Elements(q)   == {q[i] : i \in 1..Len(q)}
Increasing(q) == \A i, j \in 1..Len(q) : i < j => q[i] < q[j]

\* The records follow the order of the blocks, and so does what is left of
\* the response that is being executed.
InTurnOrder ==
    /\ Increasing(calls)
    /\ \A x \in Elements(calls) : x <= emitted
    /\ pc = "executing" =>
         /\ Increasing(pending)
         /\ \A x \in Elements(pending) :
              x <= emitted /\ \A c \in Elements(calls) : c < x

\* The records are what the history has answered in this turn, and what is
\* about to be.
Complete ==
    pc \in {"streaming", "executing", "returned"} =>
        \E s \in Nat : Begins(s) /\
            Elements(calls) = Asked(s) \cup (IF pc = "executing" THEN answered
                                                                ELSE {})

RInv == InTurnOrder /\ Complete

\* A message that is not the user's text does not begin a turn.
LEMMA HistoryGrows ==
    ASSUME messages \in Seq(Messages), NEW m \in Messages, m # UserText,
           messages' = Append(messages, m), NEW s \in Nat, Begins(s)
    PROVE  /\ Begins(s)'
           /\ Asked(s)' = IF m.role = "user" THEN Asked(s) \cup m.blocks
                                             ELSE Asked(s)
<1>1. /\ Len(messages) \in Nat /\ Len(messages') = Len(messages) + 1
      /\ messages'[Len(messages) + 1] = m
      /\ \A i \in 1..Len(messages) : messages'[i] = messages[i]
      /\ s \in 1..Len(messages)
  BY DEF Begins
<1>2. Begins(s)'
  <2>1. messages'[s] = UserText /\ s \in 1..Len(messages')
    BY <1>1 DEF Begins
  <2>2. \A j \in s + 1..Len(messages') : messages'[j] # UserText
    BY <1>1 DEF Begins
  <2> QED
    BY <2>1, <2>2 DEF Begins
<1> DEFINE U == {j \in s..Len(messages) : messages[j].role = "user"}
           V == {j \in s..Len(messages') : messages'[j].role = "user"}
           last == Len(messages) + 1
<1>3. V = IF m.role = "user" THEN U \cup {last} ELSE U
  BY <1>1
<1>4. /\ \A i \in U : messages'[i] = messages[i]
      /\ Asked(s) = UNION {messages[i].blocks : i \in U}
      /\ Asked(s)' = UNION {messages'[i].blocks : i \in V}
  BY <1>1 DEF Asked
<1> HIDE DEF U, V
<1>5. /\ \A b : b \in Asked(s) <=> \E i \in U : b \in messages[i].blocks
      /\ \A b : b \in Asked(s)' <=> \E i \in V : b \in messages'[i].blocks
  BY <1>4
<1>6. ASSUME m.role = "user" PROVE Asked(s)' = Asked(s) \cup m.blocks
  <2>1. V = U \cup {last} /\ messages'[last].blocks = m.blocks
    BY <1>1, <1>3, <1>6
  <2>2. \A b : b \in Asked(s)' <=> b \in Asked(s) \/ b \in m.blocks
    BY <1>4, <1>5, <2>1
  <2> QED
    BY <2>2
<1>7. ASSUME m.role # "user" PROVE Asked(s)' = Asked(s)
  <2>1. V = U
    BY <1>3, <1>7
  <2>2. \A b : b \in Asked(s)' <=> b \in Asked(s)
    BY <1>4, <1>5, <2>1
  <2> QED
    BY <2>2
<1> QED
  BY <1>2, <1>6, <1>7

\* A new turn has no records, and nothing was asked in it yet.
LEMMA UserTurnRecords == IInv /\ RInv /\ UserTurn => RInv'
<1> SUFFICES ASSUME IInv, RInv, UserTurn PROVE RInv'
  OBVIOUS
<1>1. /\ messages' = Append(messages, UserText) /\ calls' = <<>>
      /\ pc' = "streaming" /\ messages \in Seq(Messages)
      /\ UserText \in Messages /\ UserText.blocks = {}
      /\ UserText.role = "user"
  BY DEF UserTurn, IInv, TypeOK, UserText, Messages
<1> DEFINE s == Len(messages) + 1
<1>2. /\ Len(messages) \in Nat /\ s \in Nat \ {0} /\ Len(messages') = s
      /\ messages'[s] = UserText
  BY <1>1
<1> HIDE DEF s
<1>3. \E x \in Nat : Begins(x)' /\ Asked(x)' = {}
  <2>1. PICK x \in Nat : x = s
    BY <1>2
  <2>2. Begins(x)'
    BY <1>2, <2>1 DEF Begins
  <2>3. Asked(x)' = {}
    BY <1>1, <1>2, <2>1 DEF Asked
  <2> QED
    BY <2>2, <2>3
<1>4. Elements(calls)' = {} /\ Elements(calls') = {}
  BY <1>1 DEF Elements
<1>5. Complete'
  BY <1>1, <1>3, <1>4 DEF Complete
<1>6. InTurnOrder'
  BY <1>1, <1>4 DEF InTurnOrder, Increasing
<1> QED
  BY <1>5, <1>6 DEF RInv

\* A response asks for tools that have no record yet.
LEMMA RespondRecords ==
    ASSUME IInv, RInv, NEW n \in Nat, NEW stop \in StopReasons, Respond(n, stop)
    PROVE  RInv'
<1> DEFINE m == Response((emitted + 1)..(emitted + n), stop)
<1>1. /\ pc = "streaming" /\ messages' = Append(messages, m)
      /\ emitted' = emitted + n /\ calls' = calls /\ answered' = {}
      /\ pc' \in {"returned", "executing"}
      /\ pc' = "executing" => pending' = [i \in 1..n |-> emitted + i]
  BY DEF Respond
<1>2. /\ messages \in Seq(Messages) /\ emitted \in Nat /\ calls \in Seq(Nat)
      /\ \A x \in Elements(calls) : x \in Nat
  BY DEF IInv, TypeOK, Elements
<1>3. m \in Messages /\ m # UserText /\ m.role # "user"
  BY <1>2 DEF Response, Messages, UserText
<1> HIDE DEF m
<1>4. PICK s \in Nat : Begins(s) /\ Elements(calls) = Asked(s)
  BY <1>1 DEF RInv, Complete
<1>5. Begins(s)' /\ Asked(s)' = Asked(s)
  BY <1>1, <1>2, <1>3, <1>4, HistoryGrows
<1>6. Complete'
  BY <1>1, <1>4, <1>5 DEF Complete, Elements
<1>7. \A x \in Elements(calls') : x <= emitted'
  BY <1>1, <1>2 DEF RInv, InTurnOrder
<1>8. CASE pc' = "executing"
  <2>1. pending' = [i \in 1..n |-> emitted + i] /\ Len(pending') = n
    BY <1>1, <1>8
  <2>2. Increasing(pending')
    BY <1>2, <2>1 DEF Increasing
  <2>3. \A x \in Elements(pending') :
           x <= emitted' /\ \A c \in Elements(calls') : c < x
    <3> SUFFICES ASSUME NEW i \in 1..n
                 PROVE  /\ emitted + i <= emitted'
                        /\ \A c \in Elements(calls') : c < emitted + i
      BY <2>1 DEF Elements
    <3> QED
      BY <1>1, <1>2 DEF RInv, InTurnOrder
  <2> QED
    BY <1>1, <1>6, <1>7, <2>2, <2>3 DEF RInv, InTurnOrder, Elements, Increasing
<1>9. CASE pc' # "executing"
  BY <1>1, <1>6, <1>7, <1>9 DEF RInv, InTurnOrder, Elements, Increasing
<1> QED
  BY <1>8, <1>9

\* A tool that has run is recorded; the last one of a round answers it.
LEMMA ExecuteRecords == IInv /\ RInv /\ Execute => RInv'
<1> SUFFICES ASSUME IInv, RInv, Execute PROVE RInv'
  OBVIOUS
<1> DEFINE use == Head(pending)
<1>1. /\ messages \in Seq(Messages) /\ calls \in Seq(Nat)
      /\ pending \in Seq(Nat) /\ pending # <<>> /\ pc = "executing"
      /\ answered \subseteq Nat /\ emitted \in Nat
  BY DEF IInv, TypeOK, Stands, Execute
<1>2. /\ use \in Nat /\ use = pending[1] /\ 1 \in 1..Len(pending)
      /\ Len(Tail(pending)) = Len(pending) - 1 /\ Len(pending) \in Nat
      /\ \A i \in 1..Len(Tail(pending)) :
           Tail(pending)[i] = pending[i + 1] /\ i + 1 \in 1..Len(pending)
  BY <1>1
<1>3. /\ calls' = Append(calls, use) /\ pending' = Tail(pending)
      /\ answered' = answered \cup {use} /\ emitted' = emitted
      /\ \/ messages' = Append(messages, Results(answered')) /\ pc' = "streaming"
         \/ messages' = messages /\ pc' = "executing"
  BY <1>1 DEF Execute
<1> HIDE DEF use
<1>4. /\ Len(calls) \in Nat /\ Len(calls') = Len(calls) + 1
      /\ calls'[Len(calls) + 1] = use
      /\ \A i \in 1..Len(calls) : calls'[i] = calls[i] /\ calls[i] \in Nat
  BY <1>1, <1>2, <1>3
<1>5. Elements(calls') = Elements(calls) \cup {use}
  BY <1>4 DEF Elements
<1>6. /\ use \in Elements(pending)
      /\ \A c \in Elements(calls) : c < use
      /\ use <= emitted
  BY <1>1, <1>2 DEF Elements, RInv, InTurnOrder
<1>7. Increasing(calls')
  <2> SUFFICES ASSUME NEW i \in 1..Len(calls'), NEW j \in 1..Len(calls'), i < j
               PROVE  calls'[i] < calls'[j]
    BY DEF Increasing
  <2>1. i \in 1..Len(calls) /\ calls'[i] = calls[i]
    BY <1>4
  <2>2. CASE j \in 1..Len(calls)
    BY <1>4, <2>1, <2>2 DEF RInv, InTurnOrder, Increasing
  <2>3. CASE j = Len(calls) + 1
    BY <1>4, <1>6, <2>1, <2>3 DEF Elements
  <2> QED
    BY <1>4, <2>2, <2>3
<1>8. \A x \in Elements(calls') : x <= emitted'
  BY <1>3, <1>5, <1>6 DEF RInv, InTurnOrder
<1>9. /\ Increasing(pending')
      /\ \A x \in Elements(pending') : x \in Elements(pending) /\ use < x
  <2>1. \A i, j \in 1..Len(pending) : i < j => pending[i] < pending[j]
    BY <1>1 DEF RInv, InTurnOrder, Increasing
  <2>2. Increasing(pending')
    <3> SUFFICES ASSUME NEW i \in 1..Len(pending'), NEW j \in 1..Len(pending'),
                        i < j
                 PROVE  pending'[i] < pending'[j]
      BY DEF Increasing
    <3>1. i + 1 < j + 1
      OBVIOUS
    <3> QED
      BY <1>2, <1>3, <2>1, <3>1
  <2>3. ASSUME NEW i \in 1..Len(pending')
        PROVE  pending'[i] \in Elements(pending) /\ use < pending'[i]
    <3>1. 1 < i + 1 /\ pending'[i] = pending[i + 1] /\ i + 1 \in 1..Len(pending)
      BY <1>2, <1>3
    <3> QED
      BY <1>2, <2>1, <3>1 DEF Elements
  <2> QED
    BY <2>2, <2>3 DEF Elements
<1>10. \A x \in Elements(pending') :
          x <= emitted' /\ \A c \in Elements(calls') : c < x
  <2> SUFFICES ASSUME NEW x \in Elements(pending')
               PROVE  x <= emitted' /\ \A c \in Elements(calls') : c < x
    OBVIOUS
  <2>1. x \in Elements(pending) /\ use < x
    BY <1>9
  <2>2. x <= emitted /\ \A c \in Elements(calls) : c < x
    BY <1>1, <2>1 DEF RInv, InTurnOrder
  <2> QED
    BY <1>3, <1>5, <2>1, <2>2
<1>11. InTurnOrder'
  BY <1>7, <1>8, <1>9, <1>10 DEF InTurnOrder, Elements, Increasing
<1>12. PICK s \in Nat : Begins(s) /\ Elements(calls) = Asked(s) \cup answered
  BY <1>1 DEF RInv, Complete
<1>13. Elements(calls') = Asked(s) \cup answered'
  BY <1>3, <1>5, <1>12
<1>14. CASE messages' = Append(messages, Results(answered')) /\ pc' = "streaming"
  <2> DEFINE m == Results(answered')
  <2>1. /\ m \in Messages /\ m.role = "user" /\ m.blocks = answered'
        /\ m # UserText
    BY <1>1, <1>2, <1>3 DEF Results, Messages, UserText
  <2> HIDE DEF m
  <2>2. Begins(s)' /\ Asked(s)' = Asked(s) \cup answered'
    <3>1. messages' = Append(messages, m)
      BY <1>14 DEF m
    <3> QED
      BY <1>1, <1>12, <2>1, <3>1, HistoryGrows
  <2> QED
    BY <1>11, <1>13, <1>14, <2>2 DEF RInv, Complete, Elements
<1>15. CASE messages' = messages /\ pc' = "executing"
  <2>1. Begins(s)' /\ Asked(s)' = Asked(s)
    BY <1>12, <1>15 DEF Begins, Asked
  <2> QED
    BY <1>11, <1>13, <1>15, <2>1 DEF RInv, Complete, Elements
<1> QED
  BY <1>3, <1>14, <1>15

\* Every step keeps the records in agreement with the history.
LEMMA NextRecords == IInv /\ RInv /\ [Next]_vars => RInv'
<1> SUFFICES ASSUME IInv, RInv, [Next]_vars PROVE RInv'
  OBVIOUS
<1>1. ASSUME NEW n \in 0..MaxUses, NEW stop \in StopReasons, Respond(n, stop)
      PROVE  RInv'
  BY <1>1, RespondRecords, AgentAssumption
<1>2. CASE RequestFails \/ TurnCancelled \/ UNCHANGED vars
  <2>1. UNCHANGED <<messages, pending, answered, calls, emitted>>
        /\ (pc' = pc \/ pc' \in {"failed", "cancelled"})
    BY <1>2 DEF RequestFails, TurnCancelled, vars
  <2>2. InTurnOrder'
    BY <2>1 DEF RInv, InTurnOrder, Elements, Increasing
  <2>3. \A s : (Begins(s) => Begins(s)') /\ Asked(s)' = Asked(s)
    BY <2>1 DEF Begins, Asked
  <2>4. Complete'
    BY <2>1, <2>3 DEF RInv, Complete, Elements
  <2> QED
    BY <2>2, <2>4 DEF RInv
<1> QED
  BY <1>1, <1>2, UserTurnRecords, ExecuteRecords DEF Next

\* The records of a turn agree with the history in every reachable state.
LEMMA RecordsInvariance == Spec => []RInv
<1>1. Init => RInv
  BY DEF Init, RInv, InTurnOrder, Complete, Elements, Increasing
<1>2. IInv /\ [Next]_vars /\ RInv => RInv'
  BY NextRecords
<1> QED
  BY <1>1, <1>2, Invariance, PTL DEF Spec

\* A turn that returns hands over one record for each tool_use block answered
\* since the user spoke, in the order of the blocks (llm_claude.py:188-195).
THEOREM TurnAlwaysRecordsItsTools == Spec => []TurnRecordsItsTools
<1>1. RInv /\ IInv => TurnRecordsItsTools
  <2> SUFFICES ASSUME RInv, IInv, pc = "returned" PROVE TurnRecordsItsTools
    BY DEF TurnRecordsItsTools
  <2>1. PICK s \in Nat : Begins(s) /\ Elements(calls) = Asked(s)
    BY DEF RInv, Complete
  <2> DEFINE starts(i) == /\ messages[i] = UserText
                          /\ \A j \in i + 1..Len(messages) :
                               messages[j] # UserText
             start == CHOOSE i \in 1..Len(messages) : starts(i)
  <2>2. Len(messages) \in Nat
    BY DEF IInv, TypeOK
  <2>3. \A i \in 1..Len(messages) : starts(i) <=> i = s
    BY <2>1, <2>2 DEF Begins
  <2>4. start = s
    BY <2>1, <2>3 DEF Begins
  <2>5. Increasing(calls)
    BY DEF RInv, InTurnOrder
  <2> QED
    BY <2>1, <2>4, <2>5 DEF TurnRecordsItsTools, Asked, Elements, Increasing
<1> QED
  BY <1>1, Invariance, RecordsInvariance, PTL
=============================================================================
