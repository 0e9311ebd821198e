-------------------------- MODULE MediaCalls_proofs --------------------------
(***************************************************************************)
(* Proofs about MediaCalls, for any sockets and call_sids, any number of   *)
(* calls, rows, restarts of the process and failures of the database.      *)
(*                                                                         *)
(* The tables know a call by its sid only, and two calls may share one.    *)
(* What keeps them apart is that a call gets past start() only if it has   *)
(* created the row: whoever writes, is the creator.  The inductive         *)
(* invariant says that for every call, and where the handler of the call   *)
(* stands meanwhile.                                                       *)
(***************************************************************************)
EXTENDS MediaCalls, TLAPS

\* A call stands where the loop that made it last stands.
Served ==
    /\ \A h \in Sockets :
         /\ latest[h] <= made
         /\ loop[h] = "none" => latest[h] = NoCall
         /\ loop[h] = "receiving" /\ latest[h] # NoCall
              => phase[latest[h]] = "live"
         /\ loop[h] = "starting"
              => latest[h] # NoCall /\ phase[latest[h]] \in {"starting", "creating"}
         /\ loop[h] = "leaving"
              => /\ latest[h] # NoCall
                 /\ phase[latest[h]] \in {"aborting", "joining", "closing"}
         /\ loop[h] = "gone" /\ latest[h] # NoCall
              => phase[latest[h]] \in {"done", "lost"}
    /\ \A h, k \in Sockets : latest[h] = latest[k] /\ latest[h] # NoCall => h = k

\* The engine is there for whoever is in a handler.
Powered ==
    /\ engine <=> process \in {"serving", "draining"}
    /\ \A h \in Sockets : loop[h] \notin {"none", "gone"} => engine

Past == {"live", "aborting", "joining", "closing", "done", "lost"}

\* Whoever creates a session has its sid and has left start(); whoever
\* writes into one has created it.
Owners ==
    /\ \A s \in Sids : creator[s] # NoCall =>
         sidOf[creator[s]] = s /\ phase[creator[s]] \in Past
    /\ \A c \in Calls : phase[c] # "none" => sidOf[c] \in Sids
    /\ \A c \in Calls :
         \/ phase[c] \in {"live", "joining"}
         \/ greeting[c] = "loose"
         \/ spoken[c] # 0 \/ used[c] # 0
         => sidOf[c] \in Sids /\ creator[sidOf[c]] = c

Over == {"done", "lost"}

\* Whoever has ended a session is over, and was its creator unless it has
\* written nothing.
Ends ==
    \A s \in Sids : ended[s] # NoCall =>
        /\ creator[s] # NoCall
        /\ sidOf[ended[s]] = s
        /\ phase[ended[s]] \in Over
        /\ ended[s] # creator[s] => spoken[ended[s]] = 0 /\ used[ended[s]] = 0

\* A call that is done has ended its session, if nothing has failed.
Closed ==
    faults = 0 =>
        \A s \in Sids : creator[s] # NoCall /\ ended[s] = NoCall =>
            phase[creator[s]] # "done"

Starts(told, all) ==
    /\ Len(told) <= Len(all)
    /\ \A i \in 1..Len(told) : told[i] = all[i]
    /\ \A i \in Len(told) + 1..Len(all) : all[i].greeting

\* What has been read of a session that its own call has ended stays true.
Answers ==
    answer.step # "idle" =>
        /\ answer.sid \in Sids
        /\ answer.creator # NoCall /\ answer.creator = creator[answer.sid]
        /\ answer.ended = answer.creator =>
             /\ phase[answer.creator] \in Over
             /\ answer.step # "turns" => Starts(answer.turns, turns[answer.sid])
             /\ answer.step = "sent" => answer.toolCalls = toolCalls[answer.sid]

Inv ==
    /\ TypeOK /\ Served /\ Powered /\ Owners
    /\ TranscriptHasOneAuthor
    /\ Ends /\ Closed /\ Answers

-----------------------------------------------------------------------------
USE DEF Calls, NoCall

\* An element of a sequence over S is in S.
LEMMA ElementOf ==
    ASSUME NEW S, NEW q \in Seq(S), NEW i \in 1..Len(q) PROVE q[i] \in S
  OBVIOUS

\* The session API at rest is in a state of its own.
LEMMA NoAnswerIsAnswer == Store!NoAnswer \in Store!AnswerRecords
<1>1. <<>> \in Seq(Store!TurnRows) /\ <<>> \in Seq(Calls)
  OBVIOUS
<1> HIDE DEF Calls
<1> QED
  BY <1>1 DEF Store!NoAnswer, Store!AnswerRecords

\* An empty database with no process satisfies the invariant.
LEMMA InitInv == Init => Inv
<1> SUFFICES ASSUME Init PROVE Inv
  OBVIOUS
<1> USE MediaAssumption DEF Init, Store!Init
<1>1. TypeOK
  <2>1. answer \in Store!AnswerRecords
    BY NoAnswerIsAnswer
  <2>2. /\ turns \in [Sids -> Seq(Store!TurnRows)]
        /\ toolCalls \in [Sids -> Seq(Calls)]
    <3>1. <<>> \in Seq(Store!TurnRows) /\ <<>> \in Seq(Calls)
      OBVIOUS
    <3> HIDE DEF Calls
    <3> QED
      BY <3>1
  <2>3. Store!StoreTypeOK
    BY <2>1, <2>2 DEF Store!StoreTypeOK
  <2> QED
    BY <2>3 DEF TypeOK, LoopStates
<1>2. Served /\ Powered
  BY DEF Served, Powered
<1>3. Owners /\ Ends /\ Closed /\ Answers
  BY DEF Store!NoAnswer, Owners, Ends, Closed, Answers
<1>4. TranscriptHasOneAuthor
  BY DEF TranscriptHasOneAuthor
<1> QED
  BY <1>1, <1>2, <1>3, <1>4 DEF Inv

-----------------------------------------------------------------------------
(* The life of the process *)

\* lifespan() up to its yield.
LEMMA BootKeeps == ASSUME Inv, Boot PROVE Inv'
<1> USE DEF Inv, Boot, tables, socketVars, callVars
<1>1. TypeOK'
  <2>1. Store!StoreTypeOK'
    BY DEF TypeOK, Store!StoreTypeOK
  <2>2. boots' \in 0..MaxBoots
    BY MediaAssumption DEF TypeOK
  <2> QED
    BY <2>1, <2>2 DEF TypeOK
<1>2. Served' /\ Powered'
  BY DEF Served, Powered
<1>3. Owners' /\ Ends' /\ Closed'
  BY DEF Owners, Ends, Closed
<1>4. TranscriptHasOneAuthor' /\ Answers'
  BY DEF TranscriptHasOneAuthor, Answers, Starts
<1> QED
  BY <1>1, <1>2, <1>3, <1>4

\* The server stops accepting.
LEMMA DrainKeeps == ASSUME Inv, Drain PROVE Inv'
<1> USE DEF Inv, Drain, storeVars, tables, socketVars, callVars
<1>1. TypeOK'
  BY DEF TypeOK, Store!StoreTypeOK
<1>2. Served' /\ Powered'
  BY DEF Served, Powered
<1>3. Owners' /\ Ends' /\ Closed'
  BY DEF Owners, Ends, Closed
<1>4. TranscriptHasOneAuthor' /\ Answers'
  BY DEF TranscriptHasOneAuthor, Answers, Starts
<1> QED
  BY <1>1, <1>2, <1>3, <1>4

\* dispose_engine(), when the handlers have left.
LEMMA DisposeKeeps == ASSUME Inv, Dispose PROVE Inv'
<1> USE DEF Inv, Dispose, tables, socketVars, callVars
<1>1. TypeOK'
  BY DEF TypeOK, Store!StoreTypeOK
<1>2. Served' /\ Powered'
  BY DEF Served, Powered
<1>3. Owners' /\ Ends' /\ Closed'
  BY DEF Owners, Ends, Closed
<1>4. TranscriptHasOneAuthor' /\ Answers'
  BY DEF TranscriptHasOneAuthor, Answers, Starts
<1> QED
  BY <1>1, <1>2, <1>3, <1>4

\* The process ends: its calls are lost with it.
LEMMA GoDownKeeps == ASSUME Inv, GoDown PROVE Inv'
<1> USE DEF Inv, GoDown, tables, socketVars, Store!NoAnswer
<1>1. TypeOK'
  <2>1. Store!StoreTypeOK'
    BY NoAnswerIsAnswer DEF TypeOK, Store!StoreTypeOK
  <2>2. loop' \in [Sockets -> LoopStates]
    BY DEF LoopStates
  <2>3. phase' \in [Calls -> {"none", "starting", "creating", "live",
                            "aborting", "joining", "closing", "done", "lost"}]
    BY DEF TypeOK
  <2> QED
    BY <2>1, <2>2, <2>3 DEF TypeOK
<1>2. \A h \in Sockets : loop[h] \in LoopStates
                        /\ (latest[h] # NoCall => latest[h] \in Calls)
  BY MediaAssumption DEF TypeOK
<1>3. Served'
  <2>1. \A h \in Sockets : loop[h] # "none" /\ latest[h] # NoCall
                            => phase'[latest[h]] \in {"done", "lost"}
    BY <1>2 DEF Served, LoopStates
  <2> QED
    BY <2>1 DEF Served
<1>4. Powered'
  BY DEF Powered
<1>5. creator \in [Sids -> Calls \cup {NoCall}] /\ ended \in [Sids -> Calls \cup {NoCall}]
  BY DEF TypeOK, Store!StoreTypeOK
<1>6. Owners'
  BY <1>5 DEF Owners, Past
<1>7. Ends' /\ Closed'
  BY <1>5 DEF Ends, Closed, Over
<1>8. TranscriptHasOneAuthor' /\ Answers'
  BY DEF TranscriptHasOneAuthor, Answers
<1> QED
  BY <1>1, <1>3, <1>4, <1>6, <1>7, <1>8

-----------------------------------------------------------------------------
(* The frame loops *)

\* A socket is accepted.
LEMMA AcceptKeeps == ASSUME Inv, NEW h \in Sockets, Accept(h) PROVE Inv'
<1> USE DEF Inv, Accept, Goes, storeVars, tables, processVars, socketVars, callVars
<1>1. TypeOK'
  BY DEF TypeOK, Store!StoreTypeOK, LoopStates
<1>2. loop \in [Sockets -> LoopStates]
  BY DEF TypeOK
<1>3. Served' /\ Powered'
  BY <1>2 DEF Served, Powered
<1>4. Owners' /\ Ends' /\ Closed'
  BY DEF Owners, Ends, Closed
<1>5. TranscriptHasOneAuthor' /\ Answers'
  BY DEF TranscriptHasOneAuthor, Answers, Starts
<1> QED
  BY <1>1, <1>3, <1>4, <1>5

\* A start frame makes the next call.
LEMMA StartFrameKeeps ==
    ASSUME Inv, NEW h \in Sockets, NEW s \in Sids, StartFrame(h, s)
    PROVE  Inv'
<1> USE DEF Inv, StartFrame, Goes, Becomes, storeVars, tables, processVars
<1>1. made + 1 \in Calls /\ made' = made + 1
  BY MediaAssumption DEF TypeOK
<1>2. TypeOK'
  BY <1>1 DEF TypeOK, Store!StoreTypeOK, LoopStates
<1>3. /\ loop \in [Sockets -> LoopStates]
      /\ latest \in [Sockets -> 0..MaxCalls]
      /\ phase[made + 1] = "none"
      /\ phase' = [phase EXCEPT ![made + 1] = "starting"]
      /\ sidOf' = [sidOf EXCEPT ![made + 1] = s]
      /\ DOMAIN phase = Calls /\ DOMAIN sidOf = Calls
  BY <1>1 DEF TypeOK
<1>4. \A k \in Sockets : latest[k] # made + 1
  <2>1. made \in Nat /\ \A k \in Sockets : latest[k] \in Nat /\ latest[k] <= made
    BY MediaAssumption DEF TypeOK, Served
  <2> QED
    BY <2>1
<1>5. Served'
  <2>1. \A k \in Sockets : phase'[latest[k]] = phase[latest[k]]
    BY <1>3, <1>4
  <2>2. \A k \in Sockets \ {h} : loop'[k] = loop[k] /\ latest'[k] = latest[k]
    BY <1>3
  <2>3. /\ loop'[h] = "starting" /\ latest'[h] = made + 1
        /\ phase'[made + 1] = "starting" /\ made + 1 # NoCall
    BY <1>1, <1>3
  <2>4. \A k \in Sockets : latest'[k] <= made'
    BY <1>1, <1>3, MediaAssumption DEF TypeOK, Served
  <2>5. \A k, l \in Sockets :
           latest'[k] = latest'[l] /\ latest'[k] # NoCall => k = l
    BY <1>4, <2>2, <2>3 DEF Served
  <2> QED
    BY <2>1, <2>2, <2>3, <2>4, <2>5 DEF Served
<1>6. Powered'
  BY <1>3 DEF Powered
<1>7. creator \in [Sids -> Calls \cup {NoCall}] /\ ended \in [Sids -> Calls \cup {NoCall}]
  BY DEF TypeOK, Store!StoreTypeOK
<1>8. Owners'
  BY <1>1, <1>3, <1>7 DEF Owners, Past
<1>9. Ends' /\ Closed'
  BY <1>1, <1>3, <1>7 DEF Ends, Closed, Over
<1>10. TranscriptHasOneAuthor'
  BY DEF TranscriptHasOneAuthor
<1>11. Answers'
  BY <1>1, <1>3 DEF Answers, Starts, Over
<1> QED
  BY <1>2, <1>5, <1>6, <1>8, <1>9, <1>10, <1>11

\* A step of the socket's call that leaves the tables alone.
LEMMA CallMoves ==
    ASSUME Inv, NEW h \in Sockets, NEW at \in LoopStates, NEW to,
           latest[h] # NoCall,
           loop' = [loop EXCEPT ![h] = at],
           phase' = [phase EXCEPT ![latest[h]] = to],
           \/ at = "starting" /\ to = "creating" /\ phase[latest[h]] = "starting"
           \/ at = "leaving" /\ to = "aborting"
                /\ phase[latest[h]] \in {"starting", "creating"}
           \/ at = "leaving" /\ to = "joining" /\ phase[latest[h]] = "live"
           \/ at = "leaving" /\ to = "closing"
                /\ phase[latest[h]] \in {"joining", "aborting"},
           loop[h] \notin {"none", "gone"},
           faults' \in 0..MaxFaults, faults' = 0 => faults = 0,
           UNCHANGED <<storeVars, processVars, socketVars, greeting, spoken, used>>
    PROVE  Inv'
<1> USE DEF Inv, storeVars, tables, processVars, socketVars
<1>1. /\ latest[h] \in Calls
      /\ DOMAIN phase = Calls /\ DOMAIN loop = Sockets
      /\ latest \in [Sockets -> 0..MaxCalls]
      /\ creator \in [Sids -> Calls \cup {NoCall}]
      /\ ended \in [Sids -> Calls \cup {NoCall}]
  BY DEF TypeOK, Store!StoreTypeOK
<1>2. TypeOK'
  BY <1>1 DEF TypeOK, Store!StoreTypeOK
<1>3. Served'
  BY <1>1 DEF Served
<1>4. Powered'
  BY <1>1 DEF Powered
<1>5. Owners'
  BY <1>1 DEF Owners, Past
<1>6. Ends' /\ Closed'
  BY <1>1 DEF Ends, Closed, Over
<1>7. TranscriptHasOneAuthor'
  BY DEF TranscriptHasOneAuthor
<1>8. Answers'
  <2>1. answer.step # "idle" => answer.creator \in Calls
    BY <1>1 DEF Answers
  <2> QED
    BY <1>1, <2>1 DEF Answers, Starts, Over
<1> QED
  BY <1>2, <1>3, <1>4, <1>5, <1>6, <1>7, <1>8

\* start() reaches the recogniser.
LEMMA StartConnectsKeeps ==
    ASSUME Inv, NEW h \in Sockets, StartConnects(h) PROVE Inv'
<1>1. /\ latest[h] # NoCall
      /\ loop' = [loop EXCEPT ![h] = "starting"]
      /\ "starting" \in LoopStates
      /\ faults' \in 0..MaxFaults
  BY DEF Inv, Served, TypeOK, StartConnects, LoopStates
<1> QED
  BY <1>1, CallMoves DEF StartConnects, Becomes

\* The frame loop ends.
LEMMA LoopEndsKeeps == ASSUME Inv, NEW h \in Sockets, LoopEnds(h) PROVE Inv'
<1>1. CASE latest[h] = NoCall
  <2> USE <1>1 DEF Inv, LoopEnds, Goes, storeVars, tables, processVars, socketVars
  <2>1. TypeOK'
    BY DEF TypeOK, Store!StoreTypeOK, LoopStates
  <2>2. DOMAIN loop = Sockets
    BY DEF TypeOK
  <2>3. Served' /\ Powered'
    BY <2>2 DEF Served, Powered
  <2>4. Owners' /\ Ends' /\ Closed'
    BY DEF Owners, Ends, Closed
  <2>5. TranscriptHasOneAuthor' /\ Answers'
    BY DEF TranscriptHasOneAuthor, Answers, Starts
  <2> QED
    BY <2>1, <2>3, <2>4, <2>5
<1>2. CASE latest[h] # NoCall
  <2>1. "leaving" \in LoopStates /\ faults' \in 0..MaxFaults
    BY DEF Inv, TypeOK, LoopEnds, LoopStates
  <2> QED
    BY <1>2, <2>1, CallMoves DEF LoopEnds, Goes, Becomes
<1> QED
  BY <1>1, <1>2

\* stop() has joined the tasks.
LEMMA StopJoinsKeeps == ASSUME Inv, NEW h \in Sockets, StopJoins(h) PROVE Inv'
<1>1. /\ latest[h] # NoCall
      /\ loop' = [loop EXCEPT ![h] = "leaving"]
      /\ "leaving" \in LoopStates
      /\ faults' \in 0..MaxFaults
  BY DEF Inv, Served, TypeOK, StopJoins, LoopStates
<1> QED
  BY <1>1, CallMoves DEF StopJoins, Becomes

\* A call creates its session, and goes on or raises all the same.
LEMMA CreateKeeps ==
    ASSUME Inv, NEW h \in Sockets, NEW at, NEW to,
           \/ at = "receiving" /\ to = "live"
           \/ at = "leaving" /\ to = "aborting",
           loop[h] = "starting", phase[latest[h]] = "creating",
           loop' = [loop EXCEPT ![h] = at],
           phase' = [phase EXCEPT ![latest[h]] = to],
           Store!Create(sidOf[latest[h]], latest[h]),
           faults' \in 0..MaxFaults, faults' = 0 => faults = 0,
           UNCHANGED <<processVars, socketVars, greeting, spoken, used>>
    PROVE  Inv'
<1> DEFINE c == latest[h]
           s == sidOf[c]
<1> USE DEF Inv, processVars, socketVars
<1>1. /\ c \in Calls
      /\ s \in Sids
      /\ creator[s] = NoCall
      /\ creator' = [creator EXCEPT ![s] = c]
      /\ UNCHANGED <<engine, ended, turns, toolCalls, answer>>
  BY DEF TypeOK, Served, Owners, Store!Create, Store!Known
<1>2. /\ DOMAIN phase = Calls /\ DOMAIN loop = Sockets /\ DOMAIN creator = Sids
      /\ latest \in [Sockets -> 0..MaxCalls]
      /\ creator \in [Sids -> Calls \cup {NoCall}]
      /\ ended \in [Sids -> Calls \cup {NoCall}]
  BY DEF TypeOK, Store!StoreTypeOK
<1> HIDE DEF s
<1>3. TypeOK'
  BY <1>1, <1>2 DEF TypeOK, Store!StoreTypeOK, LoopStates
<1>4. Served'
  BY <1>1, <1>2 DEF Served
<1>5. Powered'
  BY <1>1, <1>2 DEF Powered
<1>6. Owners'
  <2>1. \A r \in Sids : creator'[r] # NoCall =>
          sidOf[creator'[r]] = r /\ phase'[creator'[r]] \in Past
    BY <1>1, <1>2 DEF Owners, Past, s
  <2>2. \A d \in Calls : phase'[d] # "none" => sidOf[d] \in Sids
    BY <1>1, <1>2 DEF Owners, s
  <2>3. \A d \in Calls :
          \/ phase'[d] \in {"live", "joining"} \/ greeting[d] = "loose"
          \/ spoken[d] # 0 \/ used[d] # 0
          => sidOf[d] \in Sids /\ creator'[sidOf[d]] = d
    BY <1>1, <1>2 DEF Owners, s
  <2> QED
    BY <2>1, <2>2, <2>3 DEF Owners
<1>7. TranscriptHasOneAuthor'
  <2>1. turns[s] \in Seq(Store!TurnRows) /\ toolCalls[s] \in Seq(Calls)
    BY <1>1 DEF TypeOK, Store!StoreTypeOK
  <2>2. \A i \in 1..Len(turns[s]) : turns[s][i].by \in Calls
    <3>1. \A i \in 1..Len(turns[s]) : turns[s][i] \in Store!TurnRows
      BY <2>1, ElementOf
    <3> QED
      BY <3>1 DEF Store!TurnRows
  <2>3. \A i \in 1..Len(toolCalls[s]) : toolCalls[s][i] \in Calls
    BY <2>1, ElementOf
  <2>4. (\A i \in 1..Len(turns[s]) : FALSE) /\ (\A i \in 1..Len(toolCalls[s]) : FALSE)
    BY <1>1, <2>2, <2>3 DEF TranscriptHasOneAuthor
  <2>5. \A r \in Sids \ {s} : creator'[r] = creator[r]
    BY <1>1, <1>2
  <2> QED
    BY <1>1, <2>4, <2>5 DEF TranscriptHasOneAuthor
<1>8. Ends'
  BY <1>1, <1>2 DEF Ends, Over
<1>9. Closed'
  BY <1>1, <1>2 DEF Closed
<1>10. Answers'
  <2>1. answer.step # "idle" => answer.creator \in Calls /\ answer.sid # s
    BY <1>1, <1>2 DEF Answers
  <2>2. answer.step # "idle" => creator'[answer.sid] = creator[answer.sid]
    BY <1>1, <1>2, <2>1 DEF Answers
  <2> QED
    BY <1>1, <1>2, <2>1, <2>2 DEF Answers, Starts, Over
<1> QED
  BY <1>3, <1>4, <1>5, <1>6, <1>7, <1>8, <1>9, <1>10

\* start() returns with the session created.
LEMMA StartCreatesKeeps ==
    ASSUME Inv, NEW h \in Sockets, StartCreates(h) PROVE Inv'
<1>1. faults' \in 0..MaxFaults
  BY DEF Inv, TypeOK, StartCreates
<1> QED
  BY <1>1, CreateKeeps DEF StartCreates, Goes, Becomes

\* start() raises.
LEMMA StartRaisesKeeps ==
    ASSUME Inv, NEW h \in Sockets, StartRaises(h) PROVE Inv'
<1>1. /\ latest[h] # NoCall
      /\ "leaving" \in LoopStates
      /\ loop[h] = "starting" /\ loop' = [loop EXCEPT ![h] = "leaving"]
      /\ phase' = [phase EXCEPT ![latest[h]] = "aborting"]
      /\ phase[latest[h]] \in {"starting", "creating"}
      /\ UNCHANGED <<processVars, socketVars, greeting, spoken, used>>
  BY DEF Inv, Served, StartRaises, Goes, LoopStates
<1>2. faults' \in 0..MaxFaults /\ (faults' = 0 => faults = 0)
  BY MediaAssumption DEF Inv, TypeOK, StartRaises
<1>3. CASE UNCHANGED storeVars
  BY <1>1, <1>2, <1>3, CallMoves
<1>4. CASE /\ phase[latest[h]] = "creating"
           /\ Store!Create(sidOf[latest[h]], latest[h])
  BY <1>1, <1>2, <1>4, CreateKeeps
<1> QED
  BY <1>3, <1>4 DEF StartRaises

\* stop() returns, or raises: the end is marked unless the database fails.
LEMMA StopMarksKeeps == ASSUME Inv, NEW h \in Sockets, StopMarks(h) PROVE Inv'
<1> DEFINE c == latest[h]
           s == sidOf[c]
<1> USE DEF Inv, processVars, socketVars, storeVars, tables
<1>1. /\ c \in Calls /\ c # NoCall
      /\ loop[h] = "leaving" /\ loop' = [loop EXCEPT ![h] = "gone"]
      /\ phase[c] = "closing" /\ phase' = [phase EXCEPT ![c] = "done"]
      /\ s \in Sids
      /\ engine
      /\ UNCHANGED <<processVars, socketVars, greeting, spoken, used,
                     engine, creator, turns, toolCalls, answer>>
  BY DEF TypeOK, Served, Powered, Owners, StopMarks, Goes, Becomes,
     Store!MarkEnded
<1>2. /\ DOMAIN phase = Calls /\ DOMAIN loop = Sockets /\ DOMAIN ended = Sids
      /\ latest \in [Sockets -> 0..MaxCalls]
      /\ creator \in [Sids -> Calls \cup {NoCall}]
      /\ ended \in [Sids -> Calls \cup {NoCall}]
  BY DEF TypeOK, Store!StoreTypeOK
<1>3. /\ faults' \in 0..MaxFaults /\ (faults' = 0 => faults = 0)
      /\ \/ ended' = ended /\ (faults' = 0 => creator[s] = NoCall)
         \/ ended' = [ended EXCEPT ![s] = c] /\ creator[s] # NoCall
  BY <1>1, MediaAssumption DEF TypeOK, StopMarks, Store!MarkEnded, Store!Known,
     Store!Open
<1> HIDE DEF s
<1>4. TypeOK'
  BY <1>1, <1>2, <1>3 DEF TypeOK, Store!StoreTypeOK, LoopStates
<1>5. Served'
  BY <1>1, <1>2 DEF Served
<1>6. Powered'
  BY <1>1, <1>2 DEF Powered
<1>7. Owners'
  BY <1>1, <1>2 DEF Owners, Past
<1>8. TranscriptHasOneAuthor'
  BY <1>1 DEF TranscriptHasOneAuthor
<1>9. Ends'
  <2>1. ended'[s] = c /\ c # creator[s] => spoken[c] = 0 /\ used[c] = 0
    BY <1>1 DEF Owners, s
  <2> SUFFICES ASSUME NEW r \in Sids, ended'[r] # NoCall
               PROVE  /\ creator[r] # NoCall
                      /\ sidOf[ended'[r]] = r
                      /\ phase'[ended'[r]] \in Over
                      /\ ended'[r] # creator[r] =>
                           spoken[ended'[r]] = 0 /\ used[ended'[r]] = 0
    BY <1>1 DEF Ends
  <2>2. CASE ended'[r] = ended[r]
    BY <2>2, <1>1, <1>2 DEF Ends, Over
  <2>3. CASE ended'[r] # ended[r]
    BY <2>1, <2>3, <1>1, <1>2, <1>3 DEF Over, s
  <2> QED
    BY <2>2, <2>3
<1>10. Closed'
  <2> SUFFICES ASSUME faults' = 0, NEW r \in Sids,
                      creator[r] # NoCall, ended'[r] = NoCall
               PROVE  phase'[creator[r]] # "done"
    BY <1>1 DEF Closed
  <2>1. ended[r] = NoCall /\ r # s
    BY <1>1, <1>2, <1>3
  <2>2. creator[r] # c
    BY <2>1 DEF Owners, s
  <2> QED
    BY <2>1, <2>2, <1>1, <1>2, <1>3 DEF Closed
<1>11. Answers'
  <2>1. answer.step # "idle" => answer.creator \in Calls
    BY <1>2 DEF Answers
  <2> QED
    BY <1>1, <1>2, <2>1 DEF Answers, Starts, Over
<1> QED
  BY <1>4, <1>5, <1>6, <1>7, <1>8, <1>9, <1>10, <1>11

-----------------------------------------------------------------------------
(* The rows of the calls, and the answers *)

\* A row is written by the creator of the session it goes to.
LEMMA RowsKeep ==
    ASSUME Inv, NEW c \in Calls, NEW g \in BOOLEAN,
           sidOf[c] \in Sids, creator[sidOf[c]] = c,
           phase[c] \in {"live", "joining"} \/ g,
           Store!AddTurn(sidOf[c], [by |-> c, greeting |-> g]),
           UNCHANGED phase
    PROVE  /\ Store!StoreTypeOK'
           /\ TranscriptHasOneAuthor'
           /\ Answers'
<1> DEFINE s == sidOf[c]
           row == [by |-> c, greeting |-> g]
<1>1. /\ turns' = [turns EXCEPT ![s] = Append(@, row)]
      /\ UNCHANGED <<engine, creator, ended, toolCalls, answer>>
      /\ s \in Sids /\ creator[s] = c
  BY DEF Store!AddTurn
<1>2. /\ turns \in [Sids -> Seq(Store!TurnRows)]
      /\ row \in Store!TurnRows
  BY DEF Inv, TypeOK, Store!StoreTypeOK, Store!TurnRows
<1> HIDE DEF s, row
<1>3. turns[s] \in Seq(Store!TurnRows) /\ turns'[s] = Append(turns[s], row)
  BY <1>1, <1>2
<1>4. /\ Len(turns[s]) \in Nat /\ Len(turns'[s]) = Len(turns[s]) + 1
      /\ turns'[s][Len(turns[s]) + 1] = row
      /\ \A i \in 1..Len(turns[s]) : turns'[s][i] = turns[s][i]
      /\ turns'[s] \in Seq(Store!TurnRows)
  BY <1>2, <1>3
<1>5. \A r \in Sids \ {s} : turns'[r] = turns[r]
  BY <1>1, <1>2
<1>6. Store!StoreTypeOK'
  <2>1. turns' \in [Sids -> Seq(Store!TurnRows)]
    BY <1>1, <1>2, <1>4, <1>5
  <2> QED
    BY <1>1, <2>1 DEF Inv, TypeOK, Store!StoreTypeOK
<1>7. \A i \in 1..Len(turns'[s]) : i \in 1..Len(turns[s]) \/ i = Len(turns[s]) + 1
  BY <1>4
<1>8. TranscriptHasOneAuthor'
  <2>1. \A i \in 1..Len(turns'[s]) : turns'[s][i].by = creator[s]
    BY <1>1, <1>4, <1>7 DEF Inv, TranscriptHasOneAuthor, row
  <2> QED
    BY <1>1, <1>5, <2>1 DEF Inv, TranscriptHasOneAuthor
<1>9. Answers'
  <2>1. CASE answer.sid = s /\ answer.step \notin {"idle", "turns"}
             /\ answer.ended = answer.creator
    <3>1. g /\ Starts(answer.turns, turns[s])
      BY <1>1, <2>1 DEF Inv, Answers, Over
    <3>2. Len(answer.turns) \in Nat
      BY DEF Inv, TypeOK, Store!StoreTypeOK, Store!AnswerRecords
    <3>3. row.greeting
      BY <3>1 DEF row
    <3>4. Starts(answer.turns, turns'[s])
      <4>1. Len(answer.turns) <= Len(turns'[s])
        BY <3>1, <3>2, <1>4 DEF Starts
      <4>2. \A i \in 1..Len(answer.turns) : answer.turns[i] = turns'[s][i]
        BY <3>1, <3>2, <1>4 DEF Starts
      <4>3. \A i \in Len(answer.turns) + 1..Len(turns'[s]) :
               turns'[s][i].greeting
        BY <3>1, <3>2, <3>3, <1>4 DEF Starts
      <4> QED
        BY <4>1, <4>2, <4>3 DEF Starts
    <3> QED
      BY <1>1, <2>1, <3>4 DEF Inv, Answers
  <2>2. CASE answer.step \in {"idle", "turns"} \/ answer.ended # answer.creator
    BY <1>1, <2>2 DEF Inv, Answers
  <2>3. CASE answer.step # "idle" /\ answer.sid # s
    <3>1. turns'[answer.sid] = turns[answer.sid]
      BY <1>5, <2>3 DEF Inv, Answers
    <3> QED
      BY <1>1, <2>3, <3>1 DEF Inv, Answers
  <2> QED
    BY <2>1, <2>2, <2>3
<1> QED
  BY <1>6, <1>8, <1>9

\* A turn is written.
LEMMA SaveTurnKeeps == ASSUME Inv, NEW c \in Calls, SaveTurn(c) PROVE Inv'
<1>1. /\ phase[c] \in {"live", "joining"} /\ UNCHANGED phase
      /\ sidOf[c] \in Sids /\ creator[sidOf[c]] = c
      /\ Store!AddTurn(sidOf[c], [by |-> c, greeting |-> FALSE])
  BY DEF SaveTurn, Talking, Inv, Owners, Store!Turn
<1>2. Store!StoreTypeOK' /\ TranscriptHasOneAuthor' /\ Answers'
  BY <1>1, RowsKeep
<1>3. /\ spoken \in [Calls -> 0..MaxRows] /\ used \in [Calls -> 0..MaxRows]
      /\ spoken' = [spoken EXCEPT ![c] = @ + 1]
      /\ UNCHANGED <<engine, creator, ended>>
      /\ UNCHANGED <<processVars, faults, loop, socketVars, phase, greeting, used>>
  BY DEF SaveTurn, Inv, TypeOK, Store!AddTurn
<1> USE DEF processVars, socketVars, Inv
<1>4. TypeOK'
  <2>1. spoken' \in [Calls -> 0..MaxRows]
    BY <1>3, MediaAssumption DEF SaveTurn
  <2> QED
    BY <1>2, <1>3, <2>1 DEF TypeOK
<1>5. Served' /\ Powered'
  BY <1>3 DEF Served, Powered
<1>6. Owners'
  BY <1>1, <1>3 DEF Owners
<1>7. Ends' /\ Closed'
  BY <1>1, <1>3 DEF Ends, Closed, Over
<1> QED
  BY <1>2, <1>4, <1>5, <1>6, <1>7

\* A tool call is written.
LEMMA SaveToolCallKeeps ==
    ASSUME Inv, NEW c \in Calls, SaveToolCall(c) PROVE Inv'
<1> DEFINE s == sidOf[c]
<1> USE DEF Inv, processVars, socketVars
<1>1. /\ phase[c] \in {"live", "joining"}
      /\ s \in Sids /\ creator[s] = c
      /\ toolCalls' = [toolCalls EXCEPT ![s] = Append(@, c)]
      /\ used' = [used EXCEPT ![c] = @ + 1]
      /\ UNCHANGED <<engine, creator, ended, turns, answer>>
      /\ UNCHANGED <<processVars, faults, loop, socketVars, phase, greeting,
                     spoken>>
  BY DEF SaveToolCall, Talking, Owners, Store!AddToolCall
<1>2. /\ spoken \in [Calls -> 0..MaxRows] /\ used \in [Calls -> 0..MaxRows]
      /\ toolCalls \in [Sids -> Seq(Calls)]
  BY DEF TypeOK, Store!StoreTypeOK
<1> HIDE DEF s
<1>3. toolCalls[s] \in Seq(Calls) /\ toolCalls'[s] = Append(toolCalls[s], c)
  BY <1>1, <1>2
<1>4. /\ Len(toolCalls[s]) \in Nat
      /\ Len(toolCalls'[s]) = Len(toolCalls[s]) + 1
      /\ toolCalls'[s][Len(toolCalls[s]) + 1] = c
      /\ \A i \in 1..Len(toolCalls[s]) : toolCalls'[s][i] = toolCalls[s][i]
      /\ toolCalls'[s] \in Seq(Calls)
  BY <1>3
<1>5. \A r \in Sids \ {s} : toolCalls'[r] = toolCalls[r]
  BY <1>1, <1>2
<1>6. TypeOK'
  <2>1. toolCalls' \in [Sids -> Seq(Calls)]
    BY <1>1, <1>2, <1>4, <1>5
  <2>2. used' \in [Calls -> 0..MaxRows]
    BY <1>1, <1>2, MediaAssumption DEF SaveToolCall
  <2> QED
    BY <1>1, <2>1, <2>2 DEF TypeOK, Store!StoreTypeOK
<1>7. Served' /\ Powered'
  BY <1>1 DEF Served, Powered
<1>8. Owners'
  BY <1>1, <1>2 DEF Owners, s
<1>9. Ends' /\ Closed'
  BY <1>1, <1>2 DEF Ends, Closed, Over
<1>10. TranscriptHasOneAuthor'
  <2>1. \A i \in 1..Len(toolCalls'[s]) :
           i \in 1..Len(toolCalls[s]) \/ i = Len(toolCalls[s]) + 1
    BY <1>4
  <2>2. \A i \in 1..Len(toolCalls'[s]) : toolCalls'[s][i] = creator[s]
    BY <1>1, <1>4, <2>1 DEF TranscriptHasOneAuthor
  <2> QED
    BY <1>1, <1>5, <2>2 DEF TranscriptHasOneAuthor
<1>11. Answers'
  <2>1. CASE answer.step # "idle" /\ answer.sid # s
    <3>1. toolCalls'[answer.sid] = toolCalls[answer.sid]
      BY <1>5, <2>1 DEF Answers
    <3> QED
      BY <1>1, <2>1, <3>1 DEF Answers
  <2>2. CASE answer.step = "idle" \/ answer.sid = s
    BY <1>1, <2>2 DEF Answers, Over
  <2> QED
    BY <2>1, <2>2
<1> QED
  BY <1>6, <1>7, <1>8, <1>9, <1>10, <1>11

\* The commit of the greeting is cut.
LEMMA CutGreetingKeeps ==
    ASSUME Inv, NEW c \in Calls, CutGreeting(c) PROVE Inv'
<1> USE DEF Inv, CutGreeting, storeVars, tables, processVars, socketVars
<1>1. TypeOK'
  BY DEF TypeOK, Store!StoreTypeOK
<1>2. Served' /\ Powered'
  BY DEF Served, Powered
<1>3. Owners'
  BY DEF Owners, TypeOK
<1>4. Ends' /\ Closed'
  BY DEF Ends, Closed
<1>5. TranscriptHasOneAuthor' /\ Answers'
  BY DEF TranscriptHasOneAuthor, Answers, Starts
<1> QED
  BY <1>1, <1>2, <1>3, <1>4, <1>5

\* The commit that was cut arrives.
LEMMA LateGreetingKeeps ==
    ASSUME Inv, NEW c \in Calls, LateGreeting(c) PROVE Inv'
<1>1. /\ sidOf[c] \in Sids /\ creator[sidOf[c]] = c
      /\ Store!AddTurn(sidOf[c], [by |-> c, greeting |-> TRUE])
      /\ greeting' = [greeting EXCEPT ![c] = "written"]
      /\ UNCHANGED <<engine, creator, ended>>
      /\ UNCHANGED <<processVars, faults, loop, socketVars, phase, spoken, used>>
  BY DEF LateGreeting, Inv, Owners, Store!Greeting, Store!AddTurn
<1>2. Store!StoreTypeOK' /\ TranscriptHasOneAuthor' /\ Answers'
  BY <1>1, RowsKeep
<1> USE DEF processVars, socketVars, Inv
<1>3. TypeOK'
  BY <1>1, <1>2 DEF TypeOK
<1>4. Served' /\ Powered'
  BY <1>1 DEF Served, Powered
<1>5. Owners'
  BY <1>1 DEF Owners, TypeOK
<1>6. Ends' /\ Closed'
  BY <1>1 DEF Ends, Closed
<1> QED
  BY <1>2, <1>3, <1>4, <1>5, <1>6

\* What is read stays true of what is stored.
LEMMA AskKeeps == ASSUME Inv, Ask PROVE Inv'
<1> USE DEF Inv, processVars, socketVars, callVars, Store!tables
<1>1. /\ Store!Get
      /\ UNCHANGED <<engine, creator, ended, turns, toolCalls>>
      /\ UNCHANGED <<processVars, faults, loop, socketVars, callVars>>
  BY DEF Ask, Store!Get, Store!GetSession, Store!GetTurns,
     Store!GetToolCalls, Store!Answered
<1>2. /\ answer \in Store!AnswerRecords
      /\ creator \in [Sids -> Calls \cup {NoCall}]
      /\ ended \in [Sids -> Calls \cup {NoCall}]
      /\ turns \in [Sids -> Seq(Store!TurnRows)]
      /\ toolCalls \in [Sids -> Seq(Calls)]
  BY DEF TypeOK, Store!StoreTypeOK
<1>3. Served' /\ Powered'
  BY <1>1 DEF Served, Powered
<1>4. Owners' /\ Ends' /\ Closed'
  BY <1>1 DEF Owners, Ends, Closed
<1>5. TranscriptHasOneAuthor'
  BY <1>1 DEF TranscriptHasOneAuthor
<1>6. answer' \in Store!AnswerRecords /\ Answers'
  <2>1. ASSUME NEW s \in Sids, Store!GetSession(s)
        PROVE  answer' \in Store!AnswerRecords /\ Answers'
    <3>1. answer' = [Store!NoAnswer EXCEPT !.step = "turns", !.sid = s,
                                   !.creator = creator[s], !.ended = ended[s]]
      BY <2>1 DEF Store!GetSession
    <3>2. /\ answer'.step = "turns" /\ answer'.sid = s
          /\ answer'.creator = creator[s] /\ answer'.ended = ended[s]
      BY <3>1 DEF Store!NoAnswer
    <3>3. creator[s] # NoCall /\ creator[s] \in Calls /\ ended[s] \in Calls \cup {NoCall}
      BY <1>2, <2>1 DEF Store!GetSession, Store!Known
    <3>4. answer' \in Store!AnswerRecords
      BY <3>1, <3>3, NoAnswerIsAnswer DEF Store!AnswerRecords
    <3>5. Answers'
      BY <1>1, <3>2, <3>3 DEF Answers, Ends
    <3> QED
      BY <3>4, <3>5
  <2>2. ASSUME Store!GetTurns
        PROVE  answer' \in Store!AnswerRecords /\ Answers'
    <3>1. /\ answer.step = "turns"
          /\ answer' = [answer EXCEPT !.step = "toolCalls",
                                      !.turns = turns[answer.sid]]
      BY <2>2 DEF Store!GetTurns
    <3>2. answer.sid \in Sids /\ turns[answer.sid] \in Seq(Store!TurnRows)
      BY <1>2, <3>1 DEF Answers
    <3>3. answer' \in Store!AnswerRecords
      BY <1>2, <3>1, <3>2 DEF Store!AnswerRecords
    <3>4. /\ answer'.step = "toolCalls" /\ answer'.sid = answer.sid
          /\ answer'.creator = answer.creator /\ answer'.ended = answer.ended
          /\ answer'.turns = turns[answer.sid]
      BY <1>2, <3>1 DEF Store!AnswerRecords
    <3>5. Starts(turns[answer.sid], turns[answer.sid])
      <4>1. Len(turns[answer.sid]) \in Nat
        BY <3>2
      <4> QED
        BY <4>1 DEF Starts
    <3>6. Answers'
      BY <1>1, <3>1, <3>4, <3>5 DEF Answers
    <3> QED
      BY <3>3, <3>6
  <2>3. ASSUME Store!GetToolCalls
        PROVE  answer' \in Store!AnswerRecords /\ Answers'
    <3>1. /\ answer.step = "toolCalls"
          /\ answer' = [answer EXCEPT !.step = "sent",
                                      !.toolCalls = toolCalls[answer.sid]]
      BY <2>3 DEF Store!GetToolCalls
    <3>2. answer.sid \in Sids /\ toolCalls[answer.sid] \in Seq(Calls)
      BY <1>2, <3>1 DEF Answers
    <3>3. answer' \in Store!AnswerRecords
      BY <1>2, <3>1, <3>2 DEF Store!AnswerRecords
    <3>4. /\ answer'.step = "sent" /\ answer'.sid = answer.sid
          /\ answer'.creator = answer.creator /\ answer'.ended = answer.ended
          /\ answer'.turns = answer.turns
          /\ answer'.toolCalls = toolCalls[answer.sid]
      BY <1>2, <3>1 DEF Store!AnswerRecords
    <3>5. Answers'
      BY <1>1, <3>1, <3>4 DEF Answers
    <3> QED
      BY <3>3, <3>5
  <2>4. ASSUME Store!Answered
        PROVE  answer' \in Store!AnswerRecords /\ Answers'
    <3>1. answer' = Store!NoAnswer
      BY <2>4 DEF Store!Answered
    <3> QED
      BY <3>1, NoAnswerIsAnswer DEF Answers, Store!NoAnswer
  <2> QED
    BY <1>1, <2>1, <2>2, <2>3, <2>4 DEF Store!Get
<1>7. TypeOK'
  BY <1>1, <1>6 DEF TypeOK, Store!StoreTypeOK
<1> QED
  BY <1>3, <1>4, <1>5, <1>6, <1>7

-----------------------------------------------------------------------------
\* Every step keeps the invariant.
LEMMA NextKeeps == Inv /\ [Next]_vars => Inv'
<1> SUFFICES ASSUME Inv, [Next]_vars
             PROVE  Inv'
  OBVIOUS
<1>1. CASE Boot \/ Drain \/ Dispose \/ GoDown
  BY <1>1, BootKeeps, DrainKeeps, DisposeKeeps, GoDownKeeps
<1>2. ASSUME NEW h \in Sockets, Accept(h) \/ \E s \in Sids : StartFrame(h, s)
      PROVE  Inv'
  BY <1>2, AcceptKeeps, StartFrameKeeps
<1>3. ASSUME NEW h \in Sockets, HandlerRuns(h) \/ LoopEnds(h)
      PROVE  Inv'
  BY <1>3, StartConnectsKeeps, StartCreatesKeeps, StartRaisesKeeps,
     StopJoinsKeeps, StopMarksKeeps, LoopEndsKeeps DEF HandlerRuns
<1>4. ASSUME NEW c \in Calls, CallRuns(c)
      PROVE  Inv'
  BY <1>4, SaveTurnKeeps, SaveToolCallKeeps, CutGreetingKeeps,
     LateGreetingKeeps DEF CallRuns
<1>5. CASE Ask
  BY <1>5, AskKeeps
<1>6. CASE UNCHANGED vars
  <2> USE <1>6 DEF vars, storeVars, tables, processVars, socketVars, callVars, Inv
  <2>1. TypeOK'
    BY DEF TypeOK, Store!StoreTypeOK
  <2>2. Served' /\ Powered'
    BY DEF Served, Powered
  <2>3. Owners' /\ Ends' /\ Closed'
    BY DEF Owners, Ends, Closed
  <2>4. TranscriptHasOneAuthor' /\ Answers'
    BY DEF TranscriptHasOneAuthor, Answers, Starts
  <2> QED
    BY <2>1, <2>2, <2>3, <2>4
<1> QED
  BY <1>1, <1>2, <1>3, <1>4, <1>5, <1>6 DEF Next

\* The inductive invariant holds in every reachable state.
THEOREM Invariance == Spec => []Inv
  BY InitInv, NextKeeps, PTL DEF Spec

\* Whoever shares a call_sid, every row of a session was written by the call
\* that created it (repositories.py:19-67).
THEOREM OneAuthor == Spec => []TranscriptHasOneAuthor
  BY Invariance, PTL DEF Inv

\* Before its call has joined its tasks a session is ended by a namesake that
\* never wrote, or by nobody (repositories.py:25-31, orchestrator.py:111-122).
THEOREM EndedEarly == Spec => []EndedEarlyOnlyByNamesake
<1>1. Inv => EndedEarlyOnlyByNamesake
  BY DEF Inv, Ends, Over, EndedEarlyOnlyByNamesake
<1> QED
  BY <1>1, Invariance, PTL

\* A session stays open only while the handler of its call is there, as long
\* as the database works and the process lives (orchestrator.py:101-122).
THEOREM OpenWhileServed == Spec => []OpenOnlyWhileServed
<1>1. Inv => OpenOnlyWhileServed
  <2> SUFFICES ASSUME Inv, faults = 0, NEW s \in Sids,
                      creator[s] # NoCall, ended[s] = NoCall,
                      phase[creator[s]] # "lost", NEW h \in Sockets,
                      latest[h] = creator[s]
               PROVE  loop[h] \in {"receiving", "leaving"}
    BY DEF OpenOnlyWhileServed
  <2>1. phase[latest[h]] \in Past \ Over
    BY DEF Inv, Owners, Closed, Over, Past
  <2>2. loop[h] \in LoopStates
    BY DEF Inv, TypeOK
  <2> QED
    BY <2>1, <2>2 DEF Inv, Served, LoopStates, Past, Over
<1> QED
  BY <1>1, Invariance, PTL

\* An answer with the end of the session has all of its conversation, however
\* the writes fall between the reads (repositories.py:69-78).
THEOREM AnswerIsComplete == Spec => []EndedAnswerIsComplete
<1>1. Inv => EndedAnswerIsComplete
  BY DEF Inv, Answers, Starts, EndedAnswerIsComplete
<1> QED
  BY <1>1, Invariance, PTL

-----------------------------------------------------------------------------
(* Every call lives the life that CallOrchestrator implements. *)

\* Every step of the process is a step in the life of each call, or none.
LEMMA LifeStep ==
    ASSUME Inv, [Next]_vars, NEW c \in Calls
    PROVE  [Life(c)!Next]_(Life(c)!vars)
<1> USE DEF Life!vars, Life!Next
<1>1. /\ phase \in [Calls -> {"none", "starting", "creating", "live",
                            "aborting", "joining", "closing", "done", "lost"}]
      /\ greeting \in [Calls -> {"unwritten", "loose", "written"}]
      /\ spoken \in [Calls -> 0..MaxRows] /\ used \in [Calls -> 0..MaxRows]
  BY DEF Inv, TypeOK
<1>2. CASE UNCHANGED callVars
  BY <1>2 DEF callVars
<1>3. ASSUME NEW d \in Calls, NEW to,
             phase' = [phase EXCEPT ![d] = to],
             \/ phase[d] = "none" /\ to = "starting"
             \/ phase[d] = "starting" /\ to \in {"creating", "aborting"}
             \/ phase[d] = "creating" /\ to \in {"live", "aborting"}
             \/ phase[d] = "live" /\ to = "joining"
             \/ phase[d] \in {"joining", "aborting"} /\ to = "closing"
             \/ phase[d] = "closing" /\ to = "done",
             UNCHANGED <<greeting, spoken, used>>
      PROVE  [Life(c)!Next]_(Life(c)!vars)
  <2>1. CASE c = d
    BY <1>1, <1>3, <2>1 DEF Life!Progress
  <2>2. CASE c # d
    BY <1>1, <1>3, <2>2
  <2> QED
    BY <2>1, <2>2
<1>4. CASE Boot \/ Drain \/ Dispose \/ Ask \/ \E h \in Sockets : Accept(h)
  BY <1>2, <1>4 DEF Boot, Drain, Dispose, Ask, Accept
<1>5. CASE GoDown
  BY <1>1, <1>5 DEF GoDown, Life!Progress
<1>6. ASSUME NEW h \in Sockets, NEW s \in Sids, StartFrame(h, s)
      PROVE  [Life(c)!Next]_(Life(c)!vars)
  <2>1. made' \in Calls
    BY <1>6, MediaAssumption DEF Inv, TypeOK, StartFrame
  <2> QED
    BY <1>3, <1>6, <2>1 DEF StartFrame, Becomes
<1>7. ASSUME NEW h \in Sockets, HandlerRuns(h)
      PROVE  [Life(c)!Next]_(Life(c)!vars)
  <2>1. latest[h] \in Calls
    BY <1>7, MediaAssumption DEF Inv, TypeOK, Served, HandlerRuns,
       StartConnects, StartCreates, StartRaises, StopJoins, StopMarks, Goes
  <2>2. CASE StartConnects(h) \/ StartCreates(h)
    BY <1>3, <2>1, <2>2 DEF StartConnects, StartCreates, Becomes
  <2>3. CASE StartRaises(h)
    BY <1>3, <2>1, <2>3 DEF StartRaises
  <2>4. CASE StopJoins(h) \/ StopMarks(h)
    BY <1>3, <2>1, <2>4 DEF StopJoins, StopMarks, Becomes
  <2> QED
    BY <1>7, <2>2, <2>3, <2>4 DEF HandlerRuns
<1>8. ASSUME NEW h \in Sockets, LoopEnds(h)
      PROVE  [Life(c)!Next]_(Life(c)!vars)
  <2>1. CASE latest[h] = NoCall
    BY <1>2, <1>8, <2>1 DEF LoopEnds, callVars
  <2>2. CASE latest[h] # NoCall
    <3>1. latest[h] \in Calls
      BY <2>2, MediaAssumption DEF Inv, TypeOK
    <3> QED
      BY <1>3, <1>8, <2>2, <3>1 DEF LoopEnds, Becomes
  <2> QED
    BY <2>1, <2>2
<1>9. ASSUME NEW d \in Calls, CallRuns(d)
      PROVE  [Life(c)!Next]_(Life(c)!vars)
  <2>1. CASE SaveTurn(d) \/ SaveToolCall(d)
    <3>1. /\ phase[d] \in {"live", "joining"}
          /\ \/ spoken' = [spoken EXCEPT ![d] = @ + 1] /\ used' = used
             \/ used' = [used EXCEPT ![d] = @ + 1] /\ spoken' = spoken
          /\ UNCHANGED <<phase, greeting>>
      BY <2>1 DEF SaveTurn, SaveToolCall, Talking
    <3>2. CASE c = d
      BY <1>1, <3>1, <3>2 DEF Life!WriteRow, Life!Talking
    <3>3. CASE c # d
      BY <1>1, <3>1, <3>3
    <3> QED
      BY <3>2, <3>3
  <2>2. CASE CutGreeting(d)
    BY <1>1, <2>2 DEF CutGreeting, Life!CutGreeting
  <2>3. CASE LateGreeting(d)
    BY <1>1, <2>3 DEF LateGreeting, Life!SettleGreeting
  <2> QED
    BY <1>9, <2>1, <2>2, <2>3 DEF CallRuns
<1> QED
  BY <1>2, <1>4, <1>5, <1>6, <1>7, <1>8, <1>9 DEF Next, vars

\* In its process each call goes through the life that one orchestrator is
\* shown to have: what MediaCalls says of many calls is said of the calls of
\* CallOrchestrator (orchestrator.py:82-123).
THEOREM CallsLiveTheirLives ==
    ASSUME NEW c \in Calls PROVE Spec => Life(c)!Spec
<1>1. Init => Life(c)!Init
  BY DEF Init, Life!Init
<1>2. Inv /\ [Next]_vars => [Life(c)!Next]_(Life(c)!vars)
  BY LifeStep
<1> QED
  BY <1>1, <1>2, Invariance, PTL DEF Spec, Life!Spec

-----------------------------------------------------------------------------
(* What a session shows after its end, and how a handler gets there *)

\* The session of a call that is over, by its end mark or with the process, is
\* final from then on, since the call stays over: no namesake, no other call
\* and no restart takes it over or adds to it, except that the greeting that
\* was cut may still arrive, once.  Only its end mark can still change, set by
\* a namesake whose start() failed and who has written nothing
\* (repositories.py:19-67, orchestrator.py:101-122).
OnlyGreetingArrives(s, c) ==
    \/ turns'[s] = turns[s] /\ greeting'[c] = greeting[c]
    \/ /\ greeting[c] = "loose" /\ greeting'[c] = "written"
       /\ turns'[s] = Append(turns[s], Store!Greeting(c))

OnlyNamesakesEnd(s, c) ==
    \/ ended'[s] = ended[s]
    \/ \E d \in Calls \ {c} :
          /\ sidOf[d] = s /\ phase[d] = "closing"
          /\ spoken[d] = 0 /\ used[d] = 0
          /\ ended'[s] = d

StaysFinal(s, c) ==
    /\ creator'[s] = c /\ phase'[c] \in Over
    /\ toolCalls'[s] = toolCalls[s]
    /\ OnlyGreetingArrives(s, c)
    /\ OnlyNamesakesEnd(s, c)

EndedSessionIsFinal ==
    [][ \A s \in Sids : creator[s] # NoCall /\ phase[creator[s]] \in Over =>
            StaysFinal(s, creator[s]) ]_vars

\* A handler in its finally block does one thing after the other and nobody
\* interferes: it joins, it closes, and when it returns the session of its
\* call has an end, if the database did not fail in that step.  Only the end
\* of the process takes it out of that order (orchestrator.py:106-122,
\* twilio.py:148-150, main.py:33-36).
Stops(h, c) ==
    \/ UNCHANGED <<loop[h], phase[c]>>
    \/ /\ phase[c] \in {"aborting", "joining"} /\ phase'[c] = "closing"
       /\ loop'[h] = "leaving"
    \/ /\ phase[c] = "closing" /\ phase'[c] = "done"
       /\ loop'[h] = "gone"
       /\ faults' = faults =>
            \A s \in Sids : creator[s] = c => ended'[s] # NoCall
    \/ process' = "down"

LeavingOnlyStops ==
    [][ \A h \in Sockets : loop[h] = "leaving" =>
            latest'[h] = latest[h] /\ Stops(h, latest[h]) ]_vars

\* A step of another call than c, or of the process, leaves c over.
LEMMA StaysOver ==
    ASSUME Inv, [Next]_vars, NEW c \in Calls, phase[c] \in Over
    PROVE  phase'[c] \in Over
<1>1. /\ latest \in [Sockets -> 0..MaxCalls]
      /\ phase \in [Calls -> {"none", "starting", "creating", "live",
                            "aborting", "joining", "closing", "done", "lost"}]
  BY DEF Inv, TypeOK
<1>2. ASSUME NEW h \in Sockets, HandlerRuns(h) \/ LoopEnds(h)
      PROVE  phase'[c] \in Over
  <2>1. latest[h] # c
    BY <1>1, <1>2, MediaAssumption DEF Inv, Served, Over, HandlerRuns,
       StartConnects, StartCreates, StartRaises, StopJoins, StopMarks,
       LoopEnds, Goes, Becomes
  <2> QED
    BY <1>1, <1>2, <2>1 DEF HandlerRuns, StartConnects, StartCreates,
       StartRaises, StopJoins, StopMarks, LoopEnds, Becomes
<1>3. ASSUME NEW h \in Sockets, \E s \in Sids : StartFrame(h, s)
      PROVE  phase'[c] \in Over
  BY <1>1, <1>3 DEF StartFrame, Becomes, Over
<1>4. CASE GoDown
  BY <1>1, <1>4 DEF GoDown, Over
<1>5. CASE \/ Boot \/ Drain \/ Dispose \/ Ask \/ UNCHANGED vars
           \/ \E h \in Sockets : Accept(h)
           \/ \E d \in Calls : CallRuns(d)
  <2>1. phase' = phase
    BY <1>5 DEF Boot, Drain, Dispose, Ask, Accept, CallRuns, SaveTurn,
       SaveToolCall, CutGreeting, LateGreeting, vars, callVars
  <2> QED
    BY <2>1
<1> QED
  BY <1>2, <1>3, <1>4, <1>5 DEF Next

\* What the tables hold of a session whose own call is over.
LEMMA FinalStep ==
    ASSUME Inv, [Next]_vars, NEW s \in Sids,
           creator[s] # NoCall, phase[creator[s]] \in Over
    PROVE  StaysFinal(s, creator[s])
<1> DEFINE c == creator[s]
<1>1. /\ phase[c] \in Over /\ sidOf[c] = s /\ c \in Calls
      /\ creator \in [Sids -> Calls \cup {NoCall}]
      /\ ended \in [Sids -> Calls \cup {NoCall}]
      /\ turns \in [Sids -> Seq(Store!TurnRows)]
      /\ toolCalls \in [Sids -> Seq(Calls)]
      /\ greeting \in [Calls -> {"unwritten", "loose", "written"}]
  BY DEF Inv, TypeOK, Store!StoreTypeOK, Owners
<1>2. phase'[c] \in Over
  BY <1>1, StaysOver
<1> HIDE DEF c
<1>3. CASE UNCHANGED <<creator, ended, turns, toolCalls, greeting>>
  BY <1>1, <1>2, <1>3 DEF StaysFinal, OnlyGreetingArrives, OnlyNamesakesEnd, c
<1>4. ASSUME NEW t \in Sids, NEW d \in Calls, Store!Create(t, d)
      PROVE  /\ creator'[s] = creator[s]
             /\ UNCHANGED <<ended, turns, toolCalls>>
  BY <1>1, <1>4 DEF Store!Create, Store!Known
<1>5. ASSUME NEW h \in Sockets, StartCreates(h) \/ StartRaises(h)
      PROVE  StaysFinal(s, c)
  <2>1. latest[h] \in Calls /\ sidOf[latest[h]] \in Sids
    BY <1>5, MediaAssumption DEF Inv, TypeOK, Served, Owners, StartCreates,
       StartRaises, Goes
  <2>2. /\ creator'[s] = creator[s] /\ greeting' = greeting
        /\ UNCHANGED <<ended, turns, toolCalls>>
    BY <1>4, <1>5, <2>1 DEF StartCreates, StartRaises, storeVars, tables
  <2> QED
    BY <1>1, <1>2, <2>2
       DEF StaysFinal, OnlyGreetingArrives, OnlyNamesakesEnd, c
<1>6. ASSUME NEW d \in Calls, SaveTurn(d) \/ SaveToolCall(d)
      PROVE  StaysFinal(s, c)
  <2>1. phase[d] \in {"live", "joining"}
    BY <1>6 DEF SaveTurn, SaveToolCall, Talking
  <2>2. sidOf[d] \in Sids /\ creator[sidOf[d]] = d
    BY <2>1 DEF Inv, Owners
  <2>3. sidOf[d] # s
    BY <1>1, <2>1, <2>2 DEF Over, c
  <2>4. /\ UNCHANGED <<creator, ended, greeting>>
        /\ turns'[s] = turns[s] /\ toolCalls'[s] = toolCalls[s]
    BY <1>1, <1>6, <2>2, <2>3 DEF SaveTurn, SaveToolCall, Store!AddTurn,
       Store!AddToolCall
  <2> QED
    BY <1>1, <1>2, <2>4
       DEF StaysFinal, OnlyGreetingArrives, OnlyNamesakesEnd, c
<1>7. ASSUME NEW d \in Calls, LateGreeting(d)
      PROVE  StaysFinal(s, c)
  <2>1. /\ greeting[d] = "loose" /\ sidOf[d] \in Sids
        /\ creator[sidOf[d]] = d
        /\ greeting' = [greeting EXCEPT ![d] = "written"]
        /\ turns' = [turns EXCEPT ![sidOf[d]] = Append(@, Store!Greeting(d))]
        /\ UNCHANGED <<creator, ended, toolCalls>>
    BY <1>7 DEF LateGreeting, Inv, Owners, Store!AddTurn
  <2>2. CASE d = c
    BY <1>1, <1>2, <2>1, <2>2
       DEF StaysFinal, OnlyGreetingArrives, OnlyNamesakesEnd, c
  <2>3. CASE d # c
    <3>1. sidOf[d] # s
      BY <2>1, <2>3 DEF c
    <3>2. turns'[s] = turns[s] /\ greeting'[c] = greeting[c]
      BY <1>1, <2>1, <2>3, <3>1
    <3> QED
      BY <1>1, <1>2, <2>1, <3>2
         DEF StaysFinal, OnlyGreetingArrives, OnlyNamesakesEnd, c
  <2> QED
    BY <2>2, <2>3
<1>8. ASSUME NEW h \in Sockets, StopMarks(h)
      PROVE  StaysFinal(s, c)
  <2> DEFINE d == latest[h]
  <2>1. /\ d \in Calls /\ phase[d] = "closing"
        /\ UNCHANGED <<creator, turns, toolCalls, greeting>>
        /\ ended' = ended \/ ended' = [ended EXCEPT ![sidOf[d]] = d]
    BY <1>8, MediaAssumption DEF StopMarks, Goes, Becomes, Inv, TypeOK,
       Served, Store!MarkEnded, storeVars, tables
  <2>2. sidOf[d] \in Sids /\ d # c
    BY <1>1, <2>1 DEF Inv, Owners, Over
  <2> HIDE DEF d
  <2>3. OnlyNamesakesEnd(s, c)
    <3>1. CASE sidOf[d] = s
      <4>1. spoken[d] = 0 /\ used[d] = 0
        BY <2>1, <2>2, <3>1 DEF Inv, Owners, c
      <4>2. ended' = ended \/ ended'[s] = d
        BY <1>1, <2>1, <3>1
      <4> QED
        BY <2>1, <2>2, <3>1, <4>1, <4>2 DEF OnlyNamesakesEnd
    <3>2. CASE sidOf[d] # s
      BY <1>1, <2>1, <2>2, <3>2 DEF OnlyNamesakesEnd
    <3> QED
      BY <3>1, <3>2
  <2> QED
    BY <1>1, <1>2, <2>1, <2>3 DEF StaysFinal, OnlyGreetingArrives, c
<1>9. ASSUME NEW d \in Calls, CutGreeting(d)
      PROVE  StaysFinal(s, c)
  <2>1. /\ UNCHANGED <<creator, ended, turns, toolCalls>>
        /\ phase[d] = "live" /\ greeting' = [greeting EXCEPT ![d] = "loose"]
    BY <1>9 DEF CutGreeting, storeVars, tables
  <2>2. greeting'[c] = greeting[c]
    BY <1>1, <2>1 DEF Over
  <2> QED
    BY <1>1, <1>2, <2>1, <2>2
       DEF StaysFinal, OnlyGreetingArrives, OnlyNamesakesEnd, c
<1>10. CASE Boot \/ Drain \/ Dispose \/ GoDown \/ UNCHANGED vars
  BY <1>3, <1>10 DEF Boot, Drain, Dispose, GoDown, vars, storeVars, tables,
     callVars
<1>11. CASE Ask
  BY <1>3, <1>11 DEF Ask, Store!Get, Store!GetSession, Store!GetTurns,
     Store!GetToolCalls, Store!Answered, Store!tables, callVars
<1>12. ASSUME NEW h \in Sockets,
              \/ Accept(h) \/ \E t \in Sids : StartFrame(h, t)
              \/ StartConnects(h) \/ StopJoins(h) \/ LoopEnds(h)
       PROVE  UNCHANGED <<creator, ended, turns, toolCalls, greeting>>
  BY <1>12 DEF Accept, StartFrame, StartConnects, StopJoins, LoopEnds,
     storeVars, tables, callVars
<1> QED
  BY <1>3, <1>5, <1>6, <1>7, <1>8, <1>9, <1>10, <1>11, <1>12
     DEF Next, HandlerRuns, CallRuns, c

\* The session of a call that is over stays as it is, whatever else uses its
\* call_sid afterwards: only a namesake's stop() may move its end mark
\* (repositories.py:19-67, orchestrator.py:101-122).
THEOREM EndedSessionStaysFinal == Spec => EndedSessionIsFinal
<1>1. Inv /\ [Next]_vars =>
        [ \A s \in Sids : creator[s] # NoCall /\ phase[creator[s]] \in Over =>
            StaysFinal(s, creator[s]) ]_vars
  BY FinalStep
<1> QED
  BY <1>1, Invariance, PTL DEF Spec, EndedSessionIsFinal

\* What may happen to a handler that has left its loop.
LEMMA LeavingStep ==
    ASSUME Inv, [Next]_vars, NEW h \in Sockets, loop[h] = "leaving"
    PROVE  latest'[h] = latest[h] /\ Stops(h, latest[h])
<1>1. /\ latest[h] \in Calls /\ engine
      /\ phase[latest[h]] \in {"aborting", "joining", "closing"}
      /\ loop \in [Sockets -> LoopStates] /\ latest \in [Sockets -> 0..MaxCalls]
      /\ phase \in [Calls -> {"none", "starting", "creating", "live",
                            "aborting", "joining", "closing", "done", "lost"}]
      /\ creator \in [Sids -> Calls \cup {NoCall}]
      /\ ended \in [Sids -> Calls \cup {NoCall}]
      /\ \A s \in Sids : creator[s] # NoCall => sidOf[creator[s]] = s
  <2>1. /\ latest[h] # NoCall
        /\ phase[latest[h]] \in {"aborting", "joining", "closing"}
    BY DEF Inv, Served
  <2>2. engine /\ \A s \in Sids : creator[s] # NoCall => sidOf[creator[s]] = s
    BY DEF Inv, Powered, Owners
  <2> QED
    BY <2>1, <2>2, MediaAssumption DEF Inv, TypeOK, Store!StoreTypeOK
<1>2. CASE UNCHANGED <<loop, phase, latest>>
  BY <1>2 DEF Stops
<1>3. CASE StopJoins(h)
  BY <1>1, <1>3 DEF StopJoins, Becomes, socketVars, Stops
<1>4. CASE StopMarks(h)
  <2>1. /\ phase[latest[h]] = "closing" /\ phase'[latest[h]] = "done"
        /\ loop'[h] = "gone" /\ latest' = latest
    BY <1>1, <1>4 DEF StopMarks, Goes, Becomes, socketVars
  <2>2. ASSUME faults' = faults, NEW s \in Sids, creator[s] = latest[h]
        PROVE  ended'[s] # NoCall
    <3>1. faults \in Nat /\ sidOf[latest[h]] = s
      BY <1>1, <2>2 DEF Inv, TypeOK
    <3>2. Store!MarkEnded(s, latest[h])
      BY <1>1, <1>4, <2>2, <3>1 DEF StopMarks, Store!Open
    <3> QED
      BY <1>1, <2>2, <3>2 DEF Store!MarkEnded, Store!Known
  <2> QED
    BY <2>1, <2>2 DEF Stops
<1>5. ASSUME NEW k \in Sockets, k # h,
             HandlerRuns(k) \/ LoopEnds(k)
      PROVE  latest' = latest /\ UNCHANGED <<loop[h], phase[latest[h]]>>
  <2>1. latest[k] # latest[h]
    BY <1>1, <1>5 DEF Inv, Served
  <2>2. latest' = latest
    BY <1>5 DEF HandlerRuns, StartConnects, StartCreates, StartRaises,
       StopJoins, StopMarks, LoopEnds, socketVars
  <2>3. loop' = loop \/ \E to \in LoopStates : loop' = [loop EXCEPT ![k] = to]
    BY <1>5 DEF HandlerRuns, StartConnects, StartCreates, StartRaises,
       StopJoins, StopMarks, LoopEnds, Goes, LoopStates
  <2>4. phase' = phase \/ \E to : phase' = [phase EXCEPT ![latest[k]] = to]
    BY <1>5 DEF HandlerRuns, StartConnects, StartCreates, StartRaises,
       StopJoins, StopMarks, LoopEnds, Becomes
  <2> QED
    BY <1>1, <1>5, <2>1, <2>2, <2>3, <2>4
<1>6. ASSUME NEW k \in Sockets, NEW s \in Sids, StartFrame(k, s)
      PROVE  latest'[h] = latest[h] /\ UNCHANGED <<loop[h], phase[latest[h]]>>
  <2>1. k # h /\ phase[made'] = "none"
    BY <1>6 DEF StartFrame, Goes, Becomes
  <2> QED
    BY <1>1, <1>6, <2>1 DEF StartFrame, Goes, Becomes
<1>7. ASSUME NEW k \in Sockets, Accept(k)
      PROVE  UNCHANGED <<loop[h], phase, latest>>
  BY <1>1, <1>7 DEF Accept, Goes, socketVars, callVars
<1>8. CASE GoDown
  BY <1>8 DEF GoDown, socketVars, Stops
<1>9. CASE Boot \/ Drain \/ Dispose \/ Ask \/ UNCHANGED vars
             \/ \E c \in Calls : CallRuns(c)
  BY <1>2, <1>9 DEF Boot, Drain, Dispose, Ask, CallRuns, SaveTurn,
     SaveToolCall, CutGreeting, LateGreeting, vars, socketVars, callVars
<1>10. ~LoopEnds(h) /\ ~StartConnects(h) /\ ~StartCreates(h) /\ ~StartRaises(h)
  BY DEF LoopEnds, StartConnects, StartCreates, StartRaises, Goes
<1> QED
  BY <1>3, <1>4, <1>5, <1>6, <1>7, <1>8, <1>9, <1>10
     DEF Next, HandlerRuns, Stops

\* stop() runs through, undisturbed by other sockets and namesakes, and the
\* engine is still there when it comes to mark the end: a drained server
\* disposes of it only after its handlers (twilio.py:148-150, main.py:33-36).
THEOREM LeavingAlwaysStops == Spec => LeavingOnlyStops
<1>1. Inv /\ [Next]_vars =>
        [ \A h \in Sockets : loop[h] = "leaving" =>
            latest'[h] = latest[h] /\ Stops(h, latest[h]) ]_vars
  BY LeavingStep
<1> QED
  BY <1>1, Invariance, PTL DEF Spec, LeavingOnlyStops
=============================================================================
