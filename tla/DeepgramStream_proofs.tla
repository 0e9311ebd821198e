------------------------- MODULE DeepgramStream_proofs -------------------------
(***************************************************************************)
(* Proofs about DeepgramStream, for any texts and a queue of any length.   *)
(*                                                                         *)
(* close() may find the stream anywhere: never connected, listening,       *)
(* dropped or with a dead reader.  The inductive invariant says what the   *)
(* reader and the socket may be in each case.                              *)
(***************************************************************************)
EXTENDS DeepgramStream, TLAPS

Inv ==
    /\ TypeOK
    /\ reader = "done" \/ closing # "no" => closed
    /\ reader = "running" => ws = "open"
    /\ closing = "done" => ws = "none"

-----------------------------------------------------------------------------
\* A stream that is not connected satisfies the invariant.
LEMMA InitInv == Init => Inv
<1>1. <<>> \in Seq(Texts)
  OBVIOUS
<1> QED
  BY <1>1 DEF Init, Inv, TypeOK

\* Every step keeps the invariant.
LEMMA NextInv == Inv /\ [Next]_vars => Inv'
<1> SUFFICES ASSUME Inv, [Next]_vars PROVE Inv'
  OBVIOUS
<1> USE DEF Inv, TypeOK
<1>1. CASE Connect
  BY <1>1 DEF Connect
<1>2. ASSUME NEW text \in Texts, Put(text) PROVE Inv'
  BY <1>2 DEF Put
<1>3. CASE ReaderDropped \/ ReaderCrashes
  BY <1>3 DEF ReaderDropped, ReaderCrashes
<1>4. CASE Yield
  BY <1>4 DEF Yield
<1>5. CASE Suspend \/ End \/ Abandon
  BY <1>5 DEF Suspend, End, Abandon
<1>6. CASE CloseStart
  BY <1>6 DEF CloseStart
<1>7. CASE CloseEnd
  BY <1>7 DEF CloseEnd
<1>8. CASE UNCHANGED vars
  BY <1>8 DEF vars
<1> QED
  BY <1>1, <1>2, <1>3, <1>4, <1>5, <1>6, <1>7, <1>8 DEF Next

\* The inductive invariant holds in every reachable state.
THEOREM Invariance == Spec => []Inv
  BY InitInv, NextInv, PTL DEF Spec

\* The stream's state is what its fields can hold (stt_deepgram.py:49-55).
THEOREM TypeCorrect == Spec => []TypeOK
  BY Invariance, PTL DEF Inv

\* The reader stops on no way out without telling transcripts(), and close()
\* leaves neither task nor socket (stt_deepgram.py:90-109, 127-130).
THEOREM NothingIsLeftBehind == Spec => []NothingLeftBehind
<1>1. Inv => NothingLeftBehind
  BY DEF Inv, NothingLeftBehind
<1> QED
  BY <1>1, Invariance, PTL

\* Room for the one text of a get that waits.
AllButOne(n) ==
    /\ closed
    /\ \/ Len(queue) >= n
       \/ poll # "waiting" /\ Len(queue) + 1 >= n
All(n)       == closed /\ Len(queue) >= n /\ poll # "waiting"

\* A closed stream gives up a text only to a get that waits, and no get
\* begins to wait on it.
LEMMA ClosedStep ==
    ASSUME Inv, [Next]_vars, closed
    PROVE  /\ closed'
           /\ poll' = "waiting" => poll = "waiting"
           /\ Len(queue') \in Nat
           /\ Len(queue') + 1 >= Len(queue)
           /\ Len(queue') < Len(queue) => poll = "waiting" /\ poll' # "waiting"
<1>1. closed'
  BY Zenon DEF Next, vars, Connect, Put, ReaderDropped, ReaderCrashes, Yield,
     Suspend, End, Abandon, CloseStart, CloseEnd
<1>2. Len(queue) \in Nat
  BY DEF Inv, TypeOK
<1>3. CASE UNCHANGED queue
  <2>1. poll' = "waiting" => poll = "waiting"
    BY <1>3 DEF Next, vars, Connect, Put, ReaderDropped, ReaderCrashes, Yield,
       Suspend, End, Abandon, CloseStart, CloseEnd
  <2> QED
    BY <1>1, <1>2, <1>3, <2>1
<1>4. CASE Yield
  BY <1>1, <1>2, <1>4 DEF Yield, Inv, TypeOK
<1>5. ASSUME NEW text \in Texts, Put(text)
      PROVE  Len(queue') = Len(queue) + 1 /\ poll' = poll
  BY <1>5 DEF Put, Inv, TypeOK
<1>6. CASE \E text \in Texts : Put(text)
  BY <1>1, <1>2, <1>5, <1>6
<1> QED
  BY <1>3, <1>4, <1>6 DEF Next, vars, Connect, ReaderDropped, ReaderCrashes,
     Suspend, End, Abandon, CloseStart, CloseEnd

\* So what was there when the stream closed stays there, but for that text.
LEMMA KeepsAllButOne ==
    ASSUME NEW n \in Nat, Inv, [Next]_vars
    PROVE  (AllButOne(n) => AllButOne(n)') /\ (All(n) => All(n)')
<1>1. Len(queue) \in Nat
  BY DEF Inv, TypeOK
<1> QED
  BY <1>1, ClosedStep DEF AllButOne, All

\* However long the queue is when the stream closes, at most one text of it
\* comes out, and none once the waiting get has returned
\* (stt_deepgram.py:81-88).
THEOREM OneMoreHolds == Spec => OneMoreAfterClose
<1>1. ASSUME NEW n \in 0..QueueBound
      PROVE  Spec => /\ [](closed /\ Len(queue) = n => [](Len(queue) + 1 >= n))
                     /\ [](closed /\ Len(queue) = n /\ poll # "waiting"
                             => [](Len(queue) >= n))
  <2> DEFINE Most == AllButOne(n)
             Rest == All(n)
  <2>0. n \in Nat
    OBVIOUS
  <2>1. Inv /\ [Next]_vars => (Most => Most') /\ (Rest => Rest')
    BY <2>0, KeepsAllButOne
  <2>2. closed /\ Len(queue) = n => Most
    BY <2>0 DEF AllButOne
  <2>3. Inv /\ Most => Len(queue) + 1 >= n
    BY <2>0 DEF AllButOne, Inv, TypeOK
  <2>4. closed /\ Len(queue) = n /\ poll # "waiting" => Rest
    BY <2>0 DEF All
  <2>5. Rest => Len(queue) >= n
    BY DEF All
  <2> HIDE DEF Most, Rest
  <2> QED
    BY <2>1, <2>2, <2>3, <2>4, <2>5, Invariance, PTL DEF Spec
<1> QED
  BY <1>1 DEF OneMoreAfterClose
=============================================================================
