------------------------- MODULE CallAdmission_proofs -------------------------
(***************************************************************************)
(* Proofs about CallAdmission, for any phones, browsers and number of      *)
(* slots.                                                                  *)
(*                                                                         *)
(* The routers only ever step the gate as CallGate says, so what was       *)
(* proved of the gate holds under them.  What has to be added is who is in *)
(* the gate: a wake-up hands permits to handlers that nobody stepped.      *)
(***************************************************************************)
EXTENDS CallAdmission, FiniteSetTheorems, TLAPS

GateProofs == INSTANCE CallGate_proofs

\* Who is in the gate has a client that is on the line or unnoticed gone.
InGateOnLine ==
    /\ pc \in [Handlers -> Gate!Status]
    /\ phone \in [Handlers -> Phases]
    /\ \A c \in Handlers : pc[c] # "idle" <=> phone[c] \in {"online", "hungUp"}

AInv == GateProofs!IInv /\ InGateOnLine

-----------------------------------------------------------------------------
(* The gate under the routers *)

\* The assumption of the gate's proofs is that of the gate.
LEMMA GateAssumption == GateProofs!MaxAssumption
  BY AdmissionAssumption DEF GateProofs!MaxAssumption

\* The instances speak of the same gate.
LEMMA SameGate ==
    /\ Gate!Init <=> GateProofs!Init
    /\ \A h \in Handlers : Gate!HandlerStep(h) <=> GateProofs!HandlerStep(h)
<1>1. Gate!Init <=> GateProofs!Init
  BY Zenon DEF Gate!Init, GateProofs!Init
<1>2. \A v, k, p : Gate!WakeUp(v, k, p) <=> GateProofs!WakeUp(v, k, p)
  BY Zenon DEF Gate!WakeUp, GateProofs!WakeUp
<1>3. \A v, p : Gate!WakeAll(v, p) <=> GateProofs!WakeAll(v, p)
  BY <1>2, Zenon DEF Gate!WakeAll, GateProofs!WakeAll
<1>4. \A p : Gate!GiveBack(p) <=> GateProofs!GiveBack(p)
  BY <1>2, Zenon DEF Gate!GiveBack, GateProofs!GiveBack
<1>5. Gate!Locked <=> GateProofs!Locked
  BY Zenon DEF Gate!Locked, GateProofs!Locked, Gate!In, GateProofs!In
<1>6. \A q, i : Gate!RemoveAt(q, i) = GateProofs!RemoveAt(q, i)
  BY Zenon DEF Gate!RemoveAt, GateProofs!RemoveAt
<1>7. ASSUME NEW h \in Handlers
      PROVE  Gate!HandlerStep(h) <=> GateProofs!HandlerStep(h)
  <2>1. Gate!SlotEnter(h) <=> GateProofs!SlotEnter(h)
    BY <1>5, Zenon DEF Gate!SlotEnter, GateProofs!SlotEnter
  <2>2. Gate!SlotWait(h) <=> GateProofs!SlotWait(h)
    BY <1>5, Zenon DEF Gate!SlotWait, GateProofs!SlotWait
  <2>3. Gate!SlotResume(h) <=> GateProofs!SlotResume(h)
    BY <1>3, Zenon DEF Gate!SlotResume, GateProofs!SlotResume
  <2>4. Gate!SlotCancel(h) <=> GateProofs!SlotCancel(h)
    BY <1>6, Zenon DEF Gate!SlotCancel, GateProofs!SlotCancel
  <2>5. Gate!SlotUnwind(h) <=> GateProofs!SlotUnwind(h)
    BY <1>3, Zenon DEF Gate!SlotUnwind, GateProofs!SlotUnwind
  <2>6. Gate!SlotExit(h) <=> GateProofs!SlotExit(h)
    BY <1>4, Zenon DEF Gate!SlotExit, GateProofs!SlotExit
  <2>7. Gate!TryAcquire(h) <=> GateProofs!TryAcquire(h)
    BY <1>5, Zenon DEF Gate!TryAcquire, GateProofs!TryAcquire, Gate!Refuses,
       GateProofs!Refuses
  <2>8. Gate!Release(h) <=> GateProofs!Release(h)
    BY <1>4, Zenon DEF Gate!Release, GateProofs!Release
  <2> QED
    BY <2>1, <2>2, <2>3, <2>4, <2>5, <2>6, <2>7, <2>8
    DEF Gate!HandlerStep, GateProofs!HandlerStep
<1> QED
  BY <1>1, <1>7

\* Whatever a router does, the gate takes one of its own steps, or none.
LEMMA RouterStep ==
    ASSUME NEW c \in Handlers, Step(c)
    PROVE  Gate!HandlerStep(c) \/ UNCHANGED gateVars
  BY DEF Step, Incoming, StreamOpens, Signal, HangsUp, GateRuns, ServerCancels,
     CallEnds, Gate!HandlerStep

\* Every step of the routers is a step of the gate, or none.
LEMMA GateStep == [Next]_vars => [Gate!Next]_(Gate!vars)
<1> SUFFICES ASSUME [Next]_vars PROVE [Gate!Next]_(Gate!vars)
  OBVIOUS
<1>1. CASE UNCHANGED vars
  BY <1>1 DEF vars, Gate!vars
<1>2. ASSUME NEW c \in Handlers, Step(c) PROVE [Gate!Next]_(Gate!vars)
  BY <1>2, RouterStep DEF Gate!Next, Gate!vars, gateVars
<1> QED
  BY <1>1, <1>2 DEF Next

\* So the invariant of the gate holds under the routers.
LEMMA GateKeeps == AInv /\ [Next]_vars => GateProofs!IInv'
<1> SUFFICES ASSUME AInv, [Next]_vars PROVE GateProofs!IInv'
  OBVIOUS
<1>1. [GateProofs!Next]_(GateProofs!vars)
  BY GateStep, SameGate DEF Gate!Next, GateProofs!Next, Gate!vars,
     GateProofs!vars
<1> QED
  BY <1>1, GateAssumption, GateProofs!NextKeeps DEF AInv

\* The facts about the gate's state that are used here.
LEMMA GateFacts ==
    ASSUME AInv
    PROVE  /\ value \in 0..MaxCalls /\ active \in 0..MaxCalls
           /\ waiters \in Seq(Handlers) /\ Len(waiters) \in Nat
           /\ pc \in [Handlers -> Gate!Status]
           /\ \A i \in 1..Len(waiters) : pc[waiters[i]] = "waiting"
           /\ IsFiniteSet(Gate!Owners)
           /\ value + Cardinality(Gate!Owners) = MaxCalls
           /\ active = Cardinality(Gate!Holding)
<1>1. /\ Gate!Owners = GateProofs!Owners /\ Gate!Holding = GateProofs!Holding
  BY DEF Gate!Owners, GateProofs!Owners, Gate!Holding, GateProofs!Holding,
     Gate!In, GateProofs!In
<1>2. \A S : /\ GateProofs!Cardinality(S) = Cardinality(S)
             /\ GateProofs!IsFiniteSet(S) <=> IsFiniteSet(S)
  BY DEF GateProofs!Cardinality, Cardinality, GateProofs!IsFiniteSet, IsFiniteSet
<1> QED
  BY <1>1, <1>2 DEF AInv, InGateOnLine, GateProofs!IInv, GateProofs!TypeOK,
     GateProofs!WaitersMatch, GateProofs!PermitsConserved

-----------------------------------------------------------------------------
(* Who is in the gate *)

\* The handlers other than c stay in the gate, or out of it, whatever permits
\* they are given.
OthersStay(c) ==
    /\ pc' \in [Handlers -> Gate!Status]
    /\ \A h \in Handlers \ {c} : pc'[h] = "idle" <=> pc[h] = "idle"

\* A wake-up reaches only handlers that wait, never the one that runs.
LEMMA WakeUpReach ==
    ASSUME AInv, NEW c \in Handlers, pc[c] # "waiting",
           NEW s \in {"idle", "inSlot"}, NEW v, NEW k \in 0..Len(waiters),
           Gate!WakeUp(v, k, [pc EXCEPT ![c] = s])
    PROVE  pc'[c] = s /\ OthersStay(c)
<1> DEFINE woken(h) == \E i \in 1..k : waiters[i] = h
           q == [pc EXCEPT ![c] = s]
<1>1. /\ pc \in [Handlers -> Gate!Status]
      /\ \A h \in Handlers : woken(h) => pc[h] = "waiting"
  BY GateFacts
<1>2. pc' = [h \in Handlers |-> IF woken(h) THEN "granted" ELSE q[h]]
  BY DEF Gate!WakeUp
<1>3. q \in [Handlers -> Gate!Status] /\ q[c] = s
      /\ \A h \in Handlers \ {c} : q[h] = pc[h]
  BY <1>1 DEF Gate!Status
<1>4. ~woken(c)
  BY <1>1
<1> HIDE DEF woken, q
<1>5. pc' \in [Handlers -> Gate!Status]
  BY <1>2, <1>3 DEF Gate!Status
<1>6. \A h \in Handlers \ {c} : pc'[h] = "idle" <=> pc[h] = "idle"
  BY <1>1, <1>2, <1>3
<1> QED
  BY <1>2, <1>3, <1>4, <1>5, <1>6 DEF OthersStay

\* release() wakes at most the first waiter in line.
LEMMA GiveBackReach ==
    ASSUME AInv, NEW c \in Handlers, pc[c] # "waiting",
           Gate!GiveBack([pc EXCEPT ![c] = "idle"])
    PROVE  pc'[c] = "idle" /\ OthersStay(c)
<1>1. (IF waiters = <<>> THEN 0 ELSE 1) \in 0..Len(waiters)
  BY GateFacts
<1> QED
  BY <1>1, WakeUpReach DEF Gate!GiveBack

\* The wake-up loop touches waiters only.
LEMMA WakeAllReach ==
    ASSUME AInv, NEW c \in Handlers, pc[c] # "waiting",
           NEW s \in {"idle", "inSlot"}, NEW v \in Nat,
           Gate!WakeAll(v, [pc EXCEPT ![c] = s])
    PROVE  pc'[c] = s /\ OthersStay(c)
<1>1. (IF v < Len(waiters) THEN v ELSE Len(waiters)) \in 0..Len(waiters)
  BY GateFacts
<1> QED
  BY <1>1, WakeUpReach DEF Gate!WakeAll

\* Into the gate, on within it, and out of it.
LEMMA Enters ==
    ASSUME AInv, NEW c \in Handlers,
           Gate!SlotEnter(c) \/ Gate!SlotWait(c) \/ Gate!TryAcquire(c)
    PROVE  pc'[c] # "idle" /\ OthersStay(c)
  BY GateFacts DEF Gate!SlotEnter, Gate!SlotWait, Gate!TryAcquire, OthersStay,
     Gate!Status

\* A handler that resumes in slot() stays in the gate; it may wake waiters.
LEMMA Resumes ==
    ASSUME AInv, NEW c \in Handlers, Gate!SlotResume(c)
    PROVE  pc[c] = "granted" /\ pc'[c] # "idle" /\ OthersStay(c)
<1>1. value \in Nat
  BY GateFacts, AdmissionAssumption
<1>2. pc[c] = "granted" /\ Gate!WakeAll(value, [pc EXCEPT ![c] = "inSlot"])
  BY DEF Gate!SlotResume
<1> QED
  BY <1>1, <1>2, WakeAllReach

\* A handler that unwinds from slot() leaves; it may wake waiters.
LEMMA Unwinds ==
    ASSUME AInv, NEW c \in Handlers, Gate!SlotUnwind(c)
    PROVE  pc[c] # "granted" /\ pc'[c] = "idle" /\ OthersStay(c)
<1>1. value \in Nat /\ value + 1 \in Nat
  BY GateFacts, AdmissionAssumption
<1> QED
  BY <1>1, WakeAllReach DEF Gate!SlotUnwind

\* A cancelled waiter is in the gate until it has unwound.
LEMMA IsCancelled ==
    ASSUME AInv, NEW c \in Handlers, Gate!SlotCancel(c)
    PROVE  pc[c] # "idle" /\ pc'[c] # "idle" /\ OthersStay(c)
  BY GateFacts DEF Gate!SlotCancel, OthersStay, Gate!Status

\* A handler that gives its slot back leaves; it may wake the first waiter.
LEMMA Leaves ==
    ASSUME AInv, NEW c \in Handlers, Gate!SlotExit(c) \/ Gate!Release(c)
    PROVE  pc'[c] = "idle" /\ OthersStay(c)
  BY GiveBackReach DEF Gate!SlotExit, Gate!Release

\* Whoever is in the gate has a handler, step by step.
LEMMA OnLineKeeps == AInv /\ [Next]_vars => InGateOnLine'
<1> SUFFICES ASSUME AInv, [Next]_vars PROVE InGateOnLine'
  OBVIOUS
<1>z. InGateOnLine
  BY DEF AInv
<1>a. ASSUME NEW c \in Handlers, OthersStay(c), NEW phase \in Phases,
             Becomes(c, phase),
             pc'[c] # "idle" <=> phase \in {"online", "hungUp"}
      PROVE  InGateOnLine'
  BY <1>a, <1>z DEF InGateOnLine, OthersStay, Becomes
<1>1. CASE UNCHANGED vars
  BY <1>1, <1>z DEF vars, gateVars, InGateOnLine
<1>2. ASSUME NEW c \in Handlers, Incoming(c) PROVE InGateOnLine'
  <2>1. OthersStay(c) /\ pc'[c] = "idle"
    BY <1>2, <1>z DEF Incoming, gateVars, OthersStay, InGateOnLine
  <2>2. Becomes(c, "turnedAway") \/ Becomes(c, "admitted")
    BY <1>2 DEF Incoming
  <2> QED
    BY <1>a, <2>1, <2>2 DEF Phases
<1>3. ASSUME NEW c \in Handlers, StreamOpens(c) PROVE InGateOnLine'
  BY <1>3, <1>a, Enters DEF StreamOpens, Phases
<1>4. ASSUME NEW c \in Handlers, Signal(c) PROVE InGateOnLine'
  <2>1. CASE Gate!Refuses
    <3>1. OthersStay(c) /\ pc'[c] = "idle" /\ Becomes(c, "turnedAway")
      BY <1>4, <2>1, <1>z DEF Signal, gateVars, OthersStay, InGateOnLine
    <3> QED
      BY <1>a, <3>1 DEF Phases
  <2>2. CASE ~Gate!Refuses
    BY <1>4, <2>2, <1>a, Enters DEF Signal, Phases
  <2> QED
    BY <2>1, <2>2
<1>5. ASSUME NEW c \in Handlers, HangsUp(c) PROVE InGateOnLine'
  <2>1. OthersStay(c) /\ pc'[c] = pc[c]
    BY <1>5, <1>z DEF HangsUp, gateVars, OthersStay, InGateOnLine
  <2>2. CASE phone[c] = "online"
    BY <1>5, <1>a, <1>z, <2>1, <2>2 DEF HangsUp, Phases, InGateOnLine
  <2>3. CASE phone[c] # "online"
    BY <1>5, <1>a, <1>z, <2>1, <2>3 DEF HangsUp, Phases, InGateOnLine
  <2> QED
    BY <2>2, <2>3
<1>6. ASSUME NEW c \in Handlers, GateRuns(c) PROVE InGateOnLine'
  <2>1. CASE Gate!SlotResume(c)
    BY <1>6, <2>1, <1>z, Resumes DEF GateRuns, InGateOnLine, OthersStay
  <2>2. CASE Gate!SlotUnwind(c)
    BY <1>6, <2>2, <1>a, Unwinds DEF GateRuns, Phases
  <2> QED
    BY <1>6, <2>1, <2>2 DEF GateRuns
<1>7. ASSUME NEW c \in Handlers, ServerCancels(c) PROVE InGateOnLine'
  BY <1>7, <1>z, IsCancelled DEF ServerCancels, InGateOnLine, OthersStay
<1>8. ASSUME NEW c \in Handlers, CallEnds(c) PROVE InGateOnLine'
  BY <1>8, <1>a, Leaves DEF CallEnds, Phases
<1> QED
  BY <1>1, <1>2, <1>3, <1>4, <1>5, <1>6, <1>7, <1>8 DEF Next, Step

\* A process that has just started satisfies the invariant.
LEMMA InitAInv == Init => AInv
<1> SUFFICES ASSUME Init PROVE AInv
  OBVIOUS
<1>1. GateProofs!IInv
  BY GateAssumption, SameGate, GateProofs!InitIInv DEF Init
<1>2. InGateOnLine
  BY DEF Init, Gate!Init, InGateOnLine, Gate!Status, Phases
<1> QED
  BY <1>1, <1>2 DEF AInv

-----------------------------------------------------------------------------
(* What holds of every way to the gate *)

\* The inductive invariant holds in every reachable state.
THEOREM Invariance == Spec => []AInv
<1>1. AInv /\ [Next]_vars => AInv'
  BY GateKeeps, OnLineKeeps DEF AInv
<1> QED
  BY <1>1, InitAInv, PTL DEF Spec

\* The routers pair every acquire with one release, on every way out of a
\* handler (twilio.py:100-104, webrtc.py:35-47).
THEOREM GateImplemented == Spec => ImplementsGate
<1>1. Init => Gate!Init
  BY DEF Init
<1> QED
  BY <1>1, GateStep, PTL DEF Spec, ImplementsGate, Gate!Spec

\* When everyone is away every permit is back, however the calls ended
\* (twilio.py:97-104, webrtc.py:41-47).
THEOREM QuietIsEmpty == Spec => []QuietMeansEmpty
<1>1. AInv => QuietMeansEmpty
  <2> SUFFICES ASSUME AInv PROVE QuietMeansEmpty
    OBVIOUS
  <2>1. \A c \in Handlers : pc[c] # "idle" <=> phone[c] \in {"online", "hungUp"}
    BY DEF AInv, InGateOnLine
  <2>2. ASSUME \A c \in Handlers : phone[c] = "away"
        PROVE  value = MaxCalls /\ active = 0
    <3>1. Gate!Owners = {} /\ Gate!Holding = {}
      BY <2>1, <2>2 DEF Gate!Owners, Gate!Holding, Gate!In
    <3> QED
      BY <3>1, GateFacts, FS_EmptySet, AdmissionAssumption
  <2> QED
    BY <2>1, <2>2 DEF QuietMeansEmpty
<1> QED
  BY <1>1, Invariance, PTL

\* A client is turned away only when all slots are taken, or, a browser, when
\* somebody is in line before it (twilio.py:68-71, webrtc.py:35-39).
THEOREM TurnedAwayOnlyWhenFullHolds == Spec => TurnedAwayOnlyWhenFull
<1> DEFINE Fair(c) == phone[c] # "turnedAway" /\ phone'[c] = "turnedAway" =>
             \/ Cardinality(Gate!Holding) = MaxCalls
             \/ c \in Browsers
                  /\ Gate!In({"waiting", "granted", "revoked"}) # {}
<1>1. AInv /\ [Next]_vars => [\A c \in Handlers : Fair(c)]_vars
  <2> SUFFICES ASSUME AInv, [Next]_vars, NEW c \in Handlers,
                      phone[c] # "turnedAway", phone'[c] = "turnedAway"
               PROVE  \/ Cardinality(Gate!Holding) = MaxCalls
                      \/ c \in Browsers
                           /\ Gate!In({"waiting", "granted", "revoked"}) # {}
    OBVIOUS
  <2>1. phone \in [Handlers -> Phases]
    BY DEF AInv, InGateOnLine
  <2>2. Cardinality(Gate!Holding) \in Nat /\ Cardinality(Gate!Holding) <= MaxCalls
    BY GateFacts, AdmissionAssumption
  <2>3. CASE Incoming(c)
    <3>1. active >= MaxCalls
      BY <2>1, <2>3 DEF Incoming, Becomes, Full
    <3> QED
      BY <2>2, <3>1, GateFacts, AdmissionAssumption
  <2>4. CASE Signal(c)
    <3>1. c \in Browsers /\ Gate!Refuses
      BY <2>1, <2>4 DEF Signal, Becomes
    <3>2. CASE active >= MaxCalls
      BY <2>2, <3>2, GateFacts, AdmissionAssumption
    <3>3. CASE value = 0 /\ Gate!In({"waiting", "granted", "revoked"}) = {}
      <4>1. Gate!Owners = Gate!Holding
        BY <3>3 DEF Gate!Owners, Gate!Holding, Gate!In
      <4> QED
        BY <2>2, <3>3, <4>1, GateFacts, AdmissionAssumption
    <3> QED
      BY <3>1, <3>2, <3>3 DEF Gate!Refuses, Gate!Locked
  <2>5. ASSUME NEW d \in Handlers, Step(d), ~(d = c /\ (Incoming(c) \/ Signal(c)))
        PROVE  FALSE
    BY <2>1, <2>5 DEF Step, Incoming, StreamOpens, Signal, HangsUp, GateRuns,
       ServerCancels, CallEnds, Becomes
  <2> QED
    BY <2>3, <2>4, <2>5 DEF Next, vars
<1> QED
  BY <1>1, Invariance, PTL DEF Spec, TurnedAwayOnlyWhenFull

-----------------------------------------------------------------------------
(* What was proved of the gate holds behind the routers *)

\* However calls come in and end, at most MaxCalls of them run
\* (concurrency.py:3-6, twilio.py:100-104, webrtc.py:35-47).
THEOREM CapHoldsForEveryCaller == Spec => []Gate!CapRespected
<1>1. AInv => Gate!CapRespected
  <2> SUFFICES ASSUME AInv PROVE Gate!CapRespected
    OBVIOUS
  <2>1. /\ active = Cardinality(Gate!Holding) /\ active \in 0..MaxCalls
        /\ Gate!Cardinality(Gate!Holding) = Cardinality(Gate!Holding)
    BY GateFacts DEF Gate!Cardinality, Cardinality
  <2> QED
    BY <2>1, AdmissionAssumption DEF Gate!CapRespected
<1> QED
  BY <1>1, Invariance, PTL

\* No caller waits beside a free slot unless a handler is about to hand it on
\* (twilio.py:100, concurrency.py:74-85).
THEOREM NoCallerWaitsInVain == Spec => []Gate!NoLostWakeup
<1>1. AInv => Gate!NoLostWakeup
  BY Zenon DEF AInv, GateProofs!IInv, GateProofs!NoLostWakeup, GateProofs!In,
     Gate!NoLostWakeup, Gate!In
<1> QED
  BY <1>1, Invariance, PTL

\* Phones are served in the order in which their streams opened, and no
\* browser gets in before a phone that waits (twilio.py:100, webrtc.py:35-39).
THEOREM PhonesServedInOrder == Spec => GateProofs!ServedInOrder
<1>1. AInv /\ AInv' /\ [Next]_vars
         => [GateProofs!InOrder]_(GateProofs!vars)
  <2> SUFFICES ASSUME AInv, AInv', [Next]_vars
               PROVE  [GateProofs!InOrder]_(GateProofs!vars)
    OBVIOUS
  <2>1. [GateProofs!Next]_(GateProofs!vars)
    BY GateStep, SameGate DEF Gate!Next, GateProofs!Next, Gate!vars,
       GateProofs!vars
  <2>2. GateProofs!IInv /\ GateProofs!IInv'
    BY DEF AInv
  <2> QED
    BY <2>1, <2>2, GateAssumption, GateProofs!StepInOrder
<1> QED
  BY <1>1, Invariance, PTL DEF Spec, GateProofs!ServedInOrder

\* The two routers together are the first-come-first-served queue for MaxCalls
\* slots (twilio.py:68-104, webrtc.py:35-47).
THEOREM RoutersImplementCallSlots == Spec => GateProofs!ImplementsCallSlots
<1>1. Init => GateProofs!Init
  BY SameGate DEF Init
<1>2. [Next]_vars => [GateProofs!Next]_(GateProofs!vars)
  BY GateStep, SameGate DEF Gate!Next, GateProofs!Next, Gate!vars,
     GateProofs!vars
<1>3. GateProofs!Spec => GateProofs!ImplementsCallSlots
  BY GateAssumption, GateProofs!Implementation
<1> QED
  BY <1>1, <1>2, <1>3, PTL DEF Spec, GateProofs!Spec
=============================================================================
