----------------------------- MODULE SessionStore -----------------------------
(***************************************************************************)
(* app/persistence: the three tables, the repository's operations on them, *)
(* the engine under them, and GET /sessions/{call_sid}, which reads one    *)
(* session back.                                                           *)
(*                                                                         *)
(* A row is known by the call that wrote it.  Every operation is a         *)
(* transaction of its own.  The read is three: the session, then its       *)
(* turns, then its tool calls, each as committed when it is selected.      *)
(* Rows are never deleted.                                                 *)
(***************************************************************************)
EXTENDS Integers, Sequences

CONSTANTS Sids,   \* call_sid
          Calls,  \* the calls that write
          NoCall  \* no row, or NULL; not one of Calls

VARIABLES engine,     \* init_engine() has run, dispose_engine() has not
          creator,    \* call_sessions: who created the row
          ended,      \* call_sessions: who set ended_at last
          turns,      \* transcript_turns, in the order of their commits
          toolCalls,  \* tool_calls, likewise
          answer      \* what the session API is answering

tables == <<creator, ended, turns, toolCalls>>
storeVars == <<engine, tables, answer>>

Greeting(c) == [by |-> c, greeting |-> TRUE]
Turn(c)     == [by |-> c, greeting |-> FALSE]
TurnRows    == [by : Calls, greeting : BOOLEAN]

\* step: idle, turns (the next select), toolCalls (the last one), sent.
NoAnswer == [step |-> "idle", sid |-> NoCall, creator |-> NoCall,
             ended |-> NoCall, turns |-> <<>>, toolCalls |-> <<>>]

Init ==
    /\ engine = FALSE
    /\ creator = [s \in Sids |-> NoCall]
    /\ ended = [s \in Sids |-> NoCall]
    /\ turns = [s \in Sids |-> <<>>]
    /\ toolCalls = [s \in Sids |-> <<>>]
    /\ answer = NoAnswer

-----------------------------------------------------------------------------
\* session_scope() can be entered: _factory() raises when it cannot.
Open == engine

Known(s) == creator[s] # NoCall

\* Fault: a session that exists already is taken over silently.
CreateOrJoin(s, c) ==
    /\ Open
    /\ creator' = [creator EXCEPT ![s] = IF Known(s) THEN @ ELSE c]
    /\ UNCHANGED <<engine, ended, turns, toolCalls, answer>>

\* create(): call_sid is the primary key.
Create(s, c) ==
    /\ Open
    /\ ~Known(s)
    /\ creator' = [creator EXCEPT ![s] = c]
    /\ UNCHANGED <<engine, ended, turns, toolCalls, answer>>

\* Fault: the select of mark_ended() has no where clause.
MarkEndedEverywhere(s, c) ==
    /\ Open
    /\ ended' = [t \in Sids |-> IF Known(t) THEN c ELSE ended[t]]
    /\ UNCHANGED <<engine, creator, turns, toolCalls, answer>>

\* mark_ended(): no row, no change; a row that is ended is ended again.
MarkEnded(s, c) ==
    /\ Open
    /\ ended' = IF Known(s) THEN [ended EXCEPT ![s] = c] ELSE ended
    /\ UNCHANGED <<engine, creator, turns, toolCalls, answer>>

\* add_turn(): call_sid is a foreign key.
AddTurn(s, row) ==
    /\ Open
    /\ Known(s)
    /\ turns' = [turns EXCEPT ![s] = Append(@, row)]
    /\ UNCHANGED <<engine, creator, ended, toolCalls, answer>>

\* add_tool_call(), likewise.
AddToolCall(s, c) ==
    /\ Open
    /\ Known(s)
    /\ toolCalls' = [toolCalls EXCEPT ![s] = Append(@, c)]
    /\ UNCHANGED <<engine, creator, ended, turns, answer>>

-----------------------------------------------------------------------------
(* GET /sessions/{call_sid} *)

\* The session is selected; without one the answer is 404.
GetSession(s) ==
    /\ Open
    /\ answer.step = "idle"
    /\ Known(s)
    /\ answer' = [NoAnswer EXCEPT !.step = "turns", !.sid = s,
                                  !.creator = creator[s], !.ended = ended[s]]
    /\ UNCHANGED <<engine, tables>>

\* Fault: what the session said is looked up again at the end.
GetToolCallsAndRefresh ==
    /\ answer.step = "toolCalls"
    /\ answer' = [answer EXCEPT !.step = "sent",
                                !.ended = ended[answer.sid],
                                !.toolCalls = toolCalls[answer.sid]]
    /\ UNCHANGED <<engine, tables>>

GetTurns ==
    /\ answer.step = "turns"
    /\ answer' = [answer EXCEPT !.step = "toolCalls",
                                !.turns = turns[answer.sid]]
    /\ UNCHANGED <<engine, tables>>

GetToolCalls ==
    /\ answer.step = "toolCalls"
    /\ answer' = [answer EXCEPT !.step = "sent",
                                !.toolCalls = toolCalls[answer.sid]]
    /\ UNCHANGED <<engine, tables>>

\* The client has its answer, and may ask again.
Answered ==
    /\ answer.step = "sent"
    /\ answer' = NoAnswer
    /\ UNCHANGED <<engine, tables>>

Get == (\E s \in Sids : GetSession(s)) \/ GetTurns \/ GetToolCalls \/ Answered

-----------------------------------------------------------------------------
AnswerRecords == [step : {"idle", "turns", "toolCalls", "sent"},
                  sid : Sids \cup {NoCall},
                  creator : Calls \cup {NoCall},
                  ended : Calls \cup {NoCall},
                  turns : Seq(TurnRows),
                  toolCalls : Seq(Calls)]

StoreTypeOK ==
    /\ engine \in BOOLEAN
    /\ creator \in [Sids -> Calls \cup {NoCall}]
    /\ ended \in [Sids -> Calls \cup {NoCall}]
    /\ turns \in [Sids -> Seq(TurnRows)]
    /\ toolCalls \in [Sids -> Seq(Calls)]
    /\ answer \in AnswerRecords
=============================================================================
