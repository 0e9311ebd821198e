------------------------------- MODULE CallGate -------------------------------
(***************************************************************************)
(* app/concurrency.py: CallGate, the asyncio semaphore under it, and the   *)
(* synchronous counter `active` kept beside it.                            *)
(*                                                                         *)
(* A handler is one WebSocket connection of the process.  It takes its     *)
(* slot with slot() (Twilio) or try_acquire_nowait() (WebRTC).  The event  *)
(* loop runs one handler at a time up to its next await, so each action is *)
(* the code between two awaits.  asyncio.Lock in slot() is never held over *)
(* an await, so taking it never suspends.                                  *)
(*                                                                         *)
(* `waiters` holds the semaphore's futures that are not done yet.  A       *)
(* future that was granted or cancelled stays in the deque of the library  *)
(* until its task runs; the status of its handler records that.            *)
(***************************************************************************)
EXTENDS Integers, Sequences, FiniteSets, SequencesExt

CONSTANTS Handlers,  \* WebSocket handlers
          MaxCalls   \* settings.max_concurrent_calls

\* CallGate.__init__ raises ValueError below 1.
ASSUME MaxAssumption == MaxCalls \in Nat \ {0}

VARIABLES value,     \* asyncio.Semaphore._value
          active,    \* CallGate._active
          waiters,   \* futures of the semaphore that are not done, in order
          pc         \* what each handler is doing

vars == <<value, active, waiters, pc>>

(***************************************************************************)
(* idle       not in the gate                                              *)
(* waiting    suspended in Semaphore.acquire                               *)
(* granted    its future has the permit, its task has not run yet          *)
(* cancelled  cancelled while waiting, its task has not run yet            *)
(* revoked    cancelled after the grant, its task has not run yet          *)
(* inSlot     inside `async with gate.slot()`                              *)
(* reserved   after try_acquire_nowait() returned True                     *)
(***************************************************************************)
Status == {"idle", "waiting", "granted", "cancelled", "revoked",
           "inSlot", "reserved"}

In(S)    == {h \in Handlers : pc[h] \in S}
Holding  == In({"inSlot", "reserved"})
Owners   == In({"inSlot", "reserved", "granted", "revoked"})

Init ==
    /\ value = MaxCalls
    /\ active = 0
    /\ waiters = <<>>
    /\ pc = [h \in Handlers |-> "idle"]

-----------------------------------------------------------------------------
(* asyncio.Semaphore *)

\* Fault: the semaphore never counts as locked.
LockedNever == FALSE

\* Semaphore.locked(): no permit, or a future in the deque that is not
\* cancelled, done or not.
Locked == value = 0 \/ In({"waiting", "granted", "revoked"}) # {}

\* Fault: futures are woken from the wrong end of the deque.
WakeUpLast(v, k, p) ==
    /\ value' = v - k
    /\ waiters' = SubSeq(waiters, 1, Len(waiters) - k)
    /\ pc' = [h \in Handlers |->
                IF \E i \in Len(waiters) - k + 1 .. Len(waiters) : waiters[i] = h
                  THEN "granted" ELSE p[h]]

\* Semaphore._wake_up_next() k times, with v permits and the statuses p:
\* the first k futures receive a permit each.
WakeUp(v, k, p) ==
    /\ value' = v - k
    /\ waiters' = SubSeq(waiters, k + 1, Len(waiters))
    /\ pc' = [h \in Handlers |->
                IF \E i \in 1..k : waiters[i] = h THEN "granted" ELSE p[h]]

\* Fault: acquire() returns without the wake-up loop.
WakeAllOmitted(v, p) == WakeUp(v, 0, p)

\* The `while self._value > 0` loop at the end of acquire() when it had to
\* wait: newcomers queued behind it although permits were left.
WakeAll(v, p) ==
    WakeUp(v, IF v < Len(waiters) THEN v ELSE Len(waiters), p)

\* Fault: release() wakes nobody.
GiveBackSilently(p) == WakeUp(value + 1, 0, p)

\* Semaphore.release().
GiveBack(p) ==
    WakeUp(value + 1, IF waiters = <<>> THEN 0 ELSE 1, p)

-----------------------------------------------------------------------------
(* slot() *)

\* acquire() without waiting, then active += 1.
SlotEnter(h) ==
    /\ pc[h] = "idle"
    /\ ~Locked
    /\ value' = value - 1
    /\ active' = active + 1
    /\ pc' = [pc EXCEPT ![h] = "inSlot"]
    /\ UNCHANGED waiters

\* acquire() suspends.
SlotWait(h) ==
    /\ pc[h] = "idle"
    /\ Locked
    /\ waiters' = Append(waiters, h)
    /\ pc' = [pc EXCEPT ![h] = "waiting"]
    /\ UNCHANGED <<value, active>>

\* The task whose future was granted runs: acquire() returns through its
\* wake-up loop, then active += 1.
SlotResume(h) ==
    /\ pc[h] = "granted"
    /\ active' = active + 1
    /\ WakeAll(value, [pc EXCEPT ![h] = "inSlot"])

\* The server cancels a handler that is suspended in acquire().
SlotCancel(h) ==
    \/ /\ pc[h] = "waiting"
       /\ \E i \in 1..Len(waiters) :
             /\ waiters[i] = h
             /\ waiters' = RemoveAt(waiters, i)
       /\ pc' = [pc EXCEPT ![h] = "cancelled"]
       /\ UNCHANGED <<value, active>>
    \/ /\ pc[h] = "granted"
       /\ pc' = [pc EXCEPT ![h] = "revoked"]
       /\ UNCHANGED <<value, active, waiters>>

\* Fault: a permit granted just before the cancellation is not put back.
SlotUnwindLosesPermit(h) ==
    /\ UNCHANGED active
    /\ pc[h] \in {"cancelled", "revoked"}
    /\ WakeAll(value, [pc EXCEPT ![h] = "idle"])

\* Fault: a cancelled waiter puts a permit back whether it had one or not.
SlotUnwindMintsPermit(h) ==
    /\ UNCHANGED active
    /\ pc[h] \in {"cancelled", "revoked"}
    /\ WakeAll(value + 1, [pc EXCEPT ![h] = "idle"])

\* The cancelled task runs: a permit already granted is put back, and the
\* wake-up loop hands on whatever is free.
SlotUnwind(h) ==
    /\ UNCHANGED active
    /\ \/ /\ pc[h] = "cancelled"
          /\ WakeAll(value, [pc EXCEPT ![h] = "idle"])
       \/ /\ pc[h] = "revoked"
          /\ WakeAll(value + 1, [pc EXCEPT ![h] = "idle"])

\* The finally block of slot().
SlotExit(h) ==
    /\ pc[h] = "inSlot"
    /\ active' = active - 1
    /\ GiveBack([pc EXCEPT ![h] = "idle"])

-----------------------------------------------------------------------------
(* try_acquire_nowait() and release() *)

Refuses == active >= MaxCalls \/ Locked

\* try_acquire_nowait() returns True.  When it returns False nothing changes.
TryAcquire(h) ==
    /\ pc[h] = "idle"
    /\ ~Refuses
    /\ value' = value - 1
    /\ active' = active + 1
    /\ pc' = [pc EXCEPT ![h] = "reserved"]
    /\ UNCHANGED waiters

\* release(); it raises, and returns nothing, when active <= 0.
Release(h) ==
    /\ pc[h] = "reserved"
    /\ active > 0
    /\ active' = active - 1
    /\ GiveBack([pc EXCEPT ![h] = "idle"])

-----------------------------------------------------------------------------
HandlerStep(h) ==
    \/ SlotEnter(h) \/ SlotWait(h) \/ SlotResume(h) \/ SlotCancel(h)
    \/ SlotUnwind(h) \/ SlotExit(h) \/ TryAcquire(h) \/ Release(h)

Next == \E h \in Handlers : HandlerStep(h)

Spec == Init /\ [][Next]_vars

\* The event loop runs every ready task, and every call ends some day: the
\* caller hangs up or the process goes down.  Nothing forces a handler to be
\* cancelled or a new one to arrive.
Fairness ==
    \A h \in Handlers :
        WF_vars(SlotResume(h) \/ SlotUnwind(h) \/ SlotExit(h) \/ Release(h))

FairSpec == Spec /\ Fairness

-----------------------------------------------------------------------------
(* Properties *)

TypeOK ==
    /\ value \in 0..MaxCalls
    /\ active \in 0..MaxCalls
    /\ waiters \in Seq(Handlers)
    /\ pc \in [Handlers -> Status]

\* The deque holds exactly the handlers that wait, each once.
WaitersMatch ==
    /\ \A i \in 1..Len(waiters) : pc[waiters[i]] = "waiting"
    /\ \A h \in In({"waiting"}) : \E i \in 1..Len(waiters) : waiters[i] = h
    /\ \A i, j \in 1..Len(waiters) : waiters[i] = waiters[j] => i = j

\* No permit is lost or minted on any path, cancellation between the grant
\* and the resumption included, although try_acquire_nowait writes the
\* semaphore's private counter behind its back (concurrency.py:61-63).
PermitsConserved ==
    /\ value + Cardinality(Owners) = MaxCalls
    /\ active = Cardinality(Holding)

\* At most MaxCalls calls run at a time, by whichever entry they got in
\* (concurrency.py:3-6).
CapRespected == Cardinality(Holding) \leq MaxCalls

\* A free permit beside a waiting handler is always in the hands of a task
\* that is about to run the wake-up loop: no handler sleeps for ever beside
\* a free slot.
NoLostWakeup ==
    value > 0 /\ In({"waiting"}) # {}
        => In({"granted", "cancelled", "revoked"}) # {}

\* Every handler that waits in slot() gets its turn or is cancelled.
WaiterServed ==
    \A h \in Handlers : pc[h] = "waiting" ~> pc[h] \in {"inSlot", "cancelled",
                                                        "revoked"}

\* The gate implements the queue for MaxCalls slots that CallSlots states,
\* with a slot owned from the moment its permit is granted: nobody overtakes
\* a waiting handler, through slot() or try_acquire_nowait(), and waiting
\* handlers are granted in the order of their arrival.
Slots == INSTANCE CallSlots WITH owners <- Owners, queue <- waiters

ImplementsCallSlots == Slots!Spec
=============================================================================
