------------------------------ MODULE CallSlots ------------------------------
(***************************************************************************)
(* What app/concurrency.py promises of the per-process cap: at most        *)
(* MaxCalls handlers own a call slot, whoever cannot have one waits in a   *)
(* queue, and slots go to the queue in the order of arrival, never past it.*)
(* CallGate implements this module (property ImplementsCallSlots).         *)
(***************************************************************************)
EXTENDS Integers, Sequences, FiniteSets, SequencesExt

CONSTANTS Handlers,  \* the WebSocket handlers of the process
          MaxCalls   \* CallGate.max

VARIABLES owners,    \* the handlers that own a slot
          queue      \* the handlers that wait for one, oldest first

Init == owners = {} /\ queue = <<>>

\* The first k of the queue, in order, receive a slot.
First(k) == {queue[i] : i \in 1..k}
Rest(k)  == SubSeq(queue, k + 1, Len(queue))

\* A newcomer may only own a slot at once when nobody waits.
Take(h) ==
    /\ h \notin owners
    /\ queue = <<>>
    /\ Cardinality(owners) < MaxCalls
    /\ owners' = owners \cup {h}
    /\ UNCHANGED queue

Arrive(h) ==
    /\ h \notin owners
    /\ \A i \in 1..Len(queue) : queue[i] # h
    /\ queue' = Append(queue, h)
    /\ UNCHANGED owners

\* Slots are handed to the head of the queue: when an owner leaves, or when
\* slots have stayed free.
Admit(leaving, k) ==
    /\ leaving \subseteq owners
    /\ Cardinality(leaving) \leq 1
    /\ owners' = (owners \ leaving) \cup First(k)
    /\ Cardinality(owners') \leq MaxCalls
    /\ queue' = Rest(k)

\* A waiting handler is cancelled.
GiveUp(i) ==
    /\ queue' = RemoveAt(queue, i)
    /\ UNCHANGED owners

Next ==
    \/ \E h \in Handlers : Take(h) \/ Arrive(h)
    \/ \E k \in 0..Len(queue) :
          \E leaving \in {{}} \cup {{h} : h \in owners} : Admit(leaving, k)
    \/ \E i \in 1..Len(queue) : GiveUp(i)

Spec == Init /\ [][Next]_<<owners, queue>>
=============================================================================
