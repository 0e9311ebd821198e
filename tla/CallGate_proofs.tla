---------------------------- MODULE CallGate_proofs ----------------------------
(***************************************************************************)
(* Proofs about CallGate, for any set of handlers, infinite ones included, *)
(* and any positive number of calls.                                       *)
(*                                                                         *)
(* The counts of PermitsConserved are only inductive beside what the queue *)
(* of the semaphore holds: a permit handed to a future in it goes to a     *)
(* handler that waits, and to one that has none yet.                       *)
(***************************************************************************)
EXTENDS CallGate, FiniteSetTheorems, SequenceTheorems, TLAPS

IInv ==
    /\ TypeOK
    /\ WaitersMatch
    /\ IsFiniteSet(Owners)
    /\ PermitsConserved
    /\ NoLostWakeup

\* The handlers that the first k futures belong to.
Woken(k) == {waiters[i] : i \in 1..k}

-----------------------------------------------------------------------------
\* Before the first handler arrives every permit is free.
LEMMA InitIInv == Init => IInv
<1> SUFFICES ASSUME Init
             PROVE  IInv
  OBVIOUS
<1>1. Owners = {} /\ Holding = {} /\ In({"waiting"}) = {}
  BY DEF Init, Owners, Holding, In
<1>2. TypeOK /\ WaitersMatch
  BY MaxAssumption, <1>1 DEF Init, TypeOK, WaitersMatch, Status
<1>3. PermitsConserved /\ IsFiniteSet(Owners)
  BY <1>1, FS_EmptySet, MaxAssumption DEF PermitsConserved, Init
<1> QED
  BY <1>1, <1>2, <1>3 DEF IInv, NoLostWakeup

\* Who runs a call owns a permit, so the counts bound each other.
LEMMA HoldingBounded ==
    ASSUME IInv
    PROVE  /\ IsFiniteSet(Holding)
           /\ Cardinality(Holding) \in Nat
           /\ Cardinality(Owners) \in Nat
           /\ Cardinality(Holding) \leq Cardinality(Owners)
           /\ Cardinality(Owners) \leq MaxCalls
<1>1. Holding \subseteq Owners
  BY DEF Holding, Owners, In
<1>2. IsFiniteSet(Owners)
  BY DEF IInv
<1>3. /\ IsFiniteSet(Holding)
      /\ Cardinality(Holding) \leq Cardinality(Owners)
  BY <1>1, <1>2, FS_Subset
<1>4. Cardinality(Holding) \in Nat /\ Cardinality(Owners) \in Nat
  BY <1>2, <1>3, FS_CardinalityType
<1> QED
  BY <1>3, <1>4, MaxAssumption DEF IInv, TypeOK, PermitsConserved

\* The counts give the ranges of the two counters.
LEMMA CountersTyped ==
    ASSUME NEW v, NEW a, NEW own, NEW hold,
           IsFiniteSet(own), hold \subseteq own,
           v \in Nat, v + Cardinality(own) = MaxCalls, a = Cardinality(hold)
    PROVE  v \in 0..MaxCalls /\ a \in 0..MaxCalls
<1>1. /\ IsFiniteSet(hold)
      /\ Cardinality(hold) \leq Cardinality(own)
  BY FS_Subset
<1>2. Cardinality(hold) \in Nat /\ Cardinality(own) \in Nat
  BY <1>1, FS_CardinalityType
<1> QED
  BY <1>1, <1>2, MaxAssumption

-----------------------------------------------------------------------------
\* The first k futures of the deque belong to k different handlers, which wait
\* and own no permit.
LEMMA WokenCount ==
    ASSUME TypeOK, WaitersMatch, NEW k \in 0..Len(waiters)
    PROVE  /\ Woken(k) \subseteq In({"waiting"})
           /\ IsFiniteSet(Woken(k))
           /\ Cardinality(Woken(k)) = k
<1> DEFINE f == [i \in 1..k |-> waiters[i]]
<1>0. Len(waiters) \in Nat /\ \A i \in 1..Len(waiters) : waiters[i] \in Handlers
  BY DEF TypeOK
<1>1. Woken(k) \subseteq In({"waiting"})
  BY <1>0 DEF Woken, WaitersMatch, In
<1>2. f \in Bijection(1..k, Woken(k))
  <2>1. f \in [1..k -> Woken(k)]
    BY DEF Woken
  <2>2. \A i, j \in 1..k : f[i] = f[j] => i = j
    BY <1>0 DEF WaitersMatch
  <2>3. \A t \in Woken(k) : \E i \in 1..k : f[i] = t
    BY DEF Woken
  <2> QED
    BY <2>1, <2>2, <2>3 DEF Bijection, Injection, Surjection, IsInjective
<1>3. ExistsBijection(1..k, Woken(k))
  BY <1>2 DEF ExistsBijection
<1>4. IsFiniteSet(1..k) /\ Cardinality(1..k) = k
  BY FS_Interval, <1>0
<1> QED
  BY <1>1, <1>3, <1>4, FS_Bijection

\* What the wake-up of k futures does, when a handler h that does not wait
\* leaves for s in the same step.
LEMMA WakeUpEffect ==
    ASSUME TypeOK, WaitersMatch, IsFiniteSet(Owners),
           NEW h \in Handlers, pc[h] # "waiting",
           NEW s \in {"idle", "inSlot"},
           NEW v, NEW k \in 0..Len(waiters),
           WakeUp(v, k, [pc EXCEPT ![h] = s])
    PROVE  LET stay == IF s = "inSlot" THEN Owners \cup {h} ELSE Owners \ {h}
           IN  /\ waiters' \in Seq(Handlers)
               /\ pc' \in [Handlers -> Status]
               /\ WaitersMatch'
               /\ Owners' = stay \cup Woken(k)
               /\ IsFiniteSet(Owners')
               /\ Cardinality(Owners') = Cardinality(stay) + k
               /\ Holding' = IF s = "inSlot" THEN Holding \cup {h}
                                             ELSE Holding \ {h}
<1> DEFINE stay == IF s = "inSlot" THEN Owners \cup {h} ELSE Owners \ {h}
<1>0. /\ Len(waiters) \in Nat
      /\ \A i \in 1..Len(waiters) : waiters[i] \in Handlers
      /\ \A i \in 1..Len(waiters) : waiters[i] # h
  BY DEF TypeOK, WaitersMatch
<1>1. /\ waiters' \in Seq(Handlers)
      /\ Len(waiters') = Len(waiters) - k
      /\ \A i \in 1..Len(waiters') : waiters'[i] = waiters[i + k]
  BY <1>0 DEF WakeUp, TypeOK
<1>2. pc' = [g \in Handlers |->
                IF g \in Woken(k) THEN "granted"
                ELSE IF g = h THEN s ELSE pc[g]]
  BY DEF WakeUp, Woken, TypeOK
<1>3. /\ Woken(k) \subseteq In({"waiting"})
      /\ IsFiniteSet(Woken(k))
      /\ Cardinality(Woken(k)) = k
  BY WokenCount
<1>4. pc' \in [Handlers -> Status]
  BY <1>2 DEF TypeOK, Status
<1>5. WaitersMatch'
  <2>1. \A i \in 1..Len(waiters') : pc'[waiters'[i]] = "waiting"
    <3> SUFFICES ASSUME NEW i \in 1..Len(waiters')
                 PROVE  pc'[waiters'[i]] = "waiting"
      OBVIOUS
    <3>1. i + k \in 1..Len(waiters) /\ waiters'[i] = waiters[i + k]
      BY <1>0, <1>1
    <3>2. waiters[i + k] \notin Woken(k)
      BY <1>0, <3>1 DEF Woken, WaitersMatch
    <3> QED
      BY <1>0, <1>2, <3>1, <3>2 DEF WaitersMatch
  <2>2. ASSUME NEW g \in Handlers, pc'[g] = "waiting"
        PROVE  \E i \in 1..Len(waiters') : waiters'[i] = g
    <3>1. g \notin Woken(k) /\ pc[g] = "waiting"
      BY <1>2, <2>2
    <3>2. PICK i \in 1..Len(waiters) : waiters[i] = g
      BY <3>1 DEF WaitersMatch, In
    <3>3. i > k
      BY <3>1, <3>2, <1>0 DEF Woken
    <3>4. i - k \in 1..Len(waiters') /\ (i - k) + k = i
      BY <1>0, <1>1, <3>3
    <3> QED
      BY <1>1, <3>2, <3>4
  <2>3. \A i, j \in 1..Len(waiters') : waiters'[i] = waiters'[j] => i = j
    <3> SUFFICES ASSUME NEW i \in 1..Len(waiters'), NEW j \in 1..Len(waiters'),
                        waiters'[i] = waiters'[j]
                 PROVE  i = j
      OBVIOUS
    <3>1. i + k \in 1..Len(waiters) /\ j + k \in 1..Len(waiters)
      BY <1>0, <1>1
    <3>2. i + k = j + k
      BY <1>1, <3>1 DEF WaitersMatch
    <3> QED
      BY <1>0, <1>1, <3>2
  <2> QED
    BY <2>1, <2>2, <2>3 DEF WaitersMatch, In
<1>6. Owners' = stay \cup Woken(k)
  BY <1>2, <1>3 DEF Owners, In
<1>7. Holding' = IF s = "inSlot" THEN Holding \cup {h} ELSE Holding \ {h}
  BY <1>2, <1>3 DEF Holding, In
<1>8. IsFiniteSet(stay) /\ stay \cap Woken(k) = {}
  <2>1. IsFiniteSet(Owners \cup {h}) /\ IsFiniteSet(Owners \ {h})
    BY FS_AddElement, FS_RemoveElement
  <2>2. Owners \cap Woken(k) = {} /\ h \notin Woken(k)
    BY <1>3 DEF Owners, In
  <2> QED
    BY <2>1, <2>2
<1>9. /\ IsFiniteSet(stay \cup Woken(k))
      /\ Cardinality(stay \cup Woken(k)) = Cardinality(stay) + k
  <2>1. Cardinality(stay) \in Nat
    BY <1>8, FS_CardinalityType
  <2>2. /\ IsFiniteSet(stay \cup Woken(k))
        /\ Cardinality(stay \cup Woken(k)) =
              Cardinality(stay) + k - Cardinality(stay \cap Woken(k))
    BY <1>3, <1>8, FS_Union
  <2>3. Cardinality(stay \cap Woken(k)) = 0
    BY <1>8, FS_EmptySet
  <2> QED
    BY <1>0, <2>1, <2>2, <2>3
<1> QED
  BY <1>1, <1>4, <1>5, <1>6, <1>7, <1>9

-----------------------------------------------------------------------------
\* The wake-up loop keeps the invariant when the permits it starts from are
\* those that the step leaves free, and leaves nobody waiting beside one.
LEMMA WakeAllKeeps ==
    ASSUME IInv, NEW h \in Handlers, pc[h] # "waiting",
           NEW s \in {"idle", "inSlot"}, NEW v \in Nat,
           WakeAll(v, [pc EXCEPT ![h] = s]),
           v + Cardinality(IF s = "inSlot" THEN Owners \cup {h}
                                           ELSE Owners \ {h}) = MaxCalls,
           active' = Cardinality(IF s = "inSlot" THEN Holding \cup {h}
                                                 ELSE Holding \ {h})
    PROVE  IInv'
<1> DEFINE k == IF v < Len(waiters) THEN v ELSE Len(waiters)
           stay == IF s = "inSlot" THEN Owners \cup {h} ELSE Owners \ {h}
<1>0. Len(waiters) \in Nat /\ k \in 0..Len(waiters)
  BY DEF IInv, TypeOK
<1>1. WakeUp(v, k, [pc EXCEPT ![h] = s])
  BY DEF WakeAll
<1>2. /\ waiters' \in Seq(Handlers)
      /\ pc' \in [Handlers -> Status]
      /\ WaitersMatch'
      /\ IsFiniteSet(Owners')
      /\ Cardinality(Owners') = Cardinality(stay) + k
      /\ Holding' = IF s = "inSlot" THEN Holding \cup {h} ELSE Holding \ {h}
  <2> HIDE DEF k
  <2> QED
    BY <1>0, <1>1, WakeUpEffect DEF IInv
<1>3. value' = v - k /\ value' \in Nat
  BY <1>0, <1>1 DEF WakeUp
<1>4. Cardinality(stay) \in Nat
  BY FS_AddElement, FS_RemoveElement, FS_CardinalityType DEF IInv
<1>5. PermitsConserved'
  BY <1>0, <1>2, <1>3, <1>4 DEF PermitsConserved
<1>6. Holding' \subseteq Owners'
  BY DEF Holding, Owners, In
<1>7. TypeOK'
  BY <1>2, <1>3, <1>5, <1>6, CountersTyped DEF TypeOK, PermitsConserved
<1>8. NoLostWakeup'
  <2> SUFFICES ASSUME value' > 0
               PROVE  In({"waiting"})' = {}
    BY DEF NoLostWakeup
  <2>1. k = Len(waiters)
    BY <1>0, <1>3
  <2>2. Len(waiters') = 0
    BY <1>0, <1>1, <2>1 DEF WakeUp, IInv, TypeOK
  <2> QED
    BY <1>2, <2>2 DEF WaitersMatch
<1> QED
  BY <1>2, <1>5, <1>7, <1>8 DEF IInv

\* release() keeps the invariant when the handler that leaves ran a call.
LEMMA GiveBackKeeps ==
    ASSUME IInv, NEW h \in Handlers, h \in Holding,
           active' = active - 1, GiveBack([pc EXCEPT ![h] = "idle"])
    PROVE  IInv'
<1> DEFINE k == IF waiters = <<>> THEN 0 ELSE 1
           q == [pc EXCEPT ![h] = "idle"]
<1>0. Len(waiters) \in Nat /\ k \in 0..Len(waiters) /\ k \in Nat
  BY DEF IInv, TypeOK
<1>1. WakeUp(value + 1, k, q)
  BY DEF GiveBack
<1>2. h \in Owners /\ pc[h] # "waiting"
  BY DEF Holding, Owners, In
<1>3. /\ waiters' \in Seq(Handlers)
      /\ pc' \in [Handlers -> Status]
      /\ WaitersMatch'
      /\ IsFiniteSet(Owners')
      /\ Cardinality(Owners') = Cardinality(Owners \ {h}) + k
      /\ Holding' = Holding \ {h}
  <2> HIDE DEF k
  <2> QED
    BY <1>0, <1>1, <1>2, WakeUpEffect DEF IInv
<1>4. value' = value + 1 - k /\ value' \in Nat
  BY <1>0, <1>1 DEF WakeUp, IInv, TypeOK
<1>5. /\ Cardinality(Owners \ {h}) = Cardinality(Owners) - 1
      /\ Cardinality(Holding \ {h}) = Cardinality(Holding) - 1
  BY <1>2, HoldingBounded, FS_RemoveElement DEF IInv
<1>6. PermitsConserved'
  <2>1. value' + Cardinality(Owners') = MaxCalls
    BY <1>0, <1>3, <1>4, <1>5, HoldingBounded
       DEF IInv, TypeOK, PermitsConserved
  <2>2. active' = Cardinality(Holding')
    BY <1>3, <1>5 DEF IInv, PermitsConserved
  <2> QED
    BY <2>1, <2>2 DEF PermitsConserved
<1>7. Holding' \subseteq Owners'
  BY DEF Holding, Owners, In
<1>8. TypeOK'
  BY <1>3, <1>4, <1>6, <1>7, CountersTyped DEF TypeOK, PermitsConserved
<1>9. NoLostWakeup'
  <2>1. CASE waiters = <<>>
    <3>1. waiters' = <<>>
      BY <1>1, <2>1 DEF WakeUp
    <3> QED
      BY <1>3, <3>1 DEF WaitersMatch, NoLostWakeup
  <2>2. CASE waiters # <<>>
    <3>1. waiters[1] \in Handlers
      BY <1>0, <2>2 DEF IInv, TypeOK
    <3>2. pc'[waiters[1]] = "granted"
      BY <1>1, <2>2, <3>1 DEF WakeUp
    <3> QED
      BY <3>1, <3>2 DEF NoLostWakeup, In
  <2> QED
    BY <2>1, <2>2
<1> QED
  BY <1>3, <1>6, <1>8, <1>9 DEF IInv

-----------------------------------------------------------------------------
\* Both entries take a free permit at once only when nobody waits: acquire()
\* and try_acquire_nowait() keep the invariant.
LEMMA EntryKeeps ==
    ASSUME IInv, NEW h \in Handlers, SlotEnter(h) \/ TryAcquire(h)
    PROVE  IInv'
<1>0. /\ pc[h] = "idle" /\ ~Locked
      /\ value' = value - 1 /\ active' = active + 1 /\ waiters' = waiters
      /\ \E s \in {"inSlot", "reserved"} : pc' = [pc EXCEPT ![h] = s]
  BY DEF SlotEnter, TryAcquire, Refuses
<1>1. PICK s \in {"inSlot", "reserved"} : pc' = [pc EXCEPT ![h] = s]
  BY <1>0
<1>2. /\ Owners' = Owners \cup {h} /\ Holding' = Holding \cup {h}
      /\ h \notin Owners /\ h \notin Holding
      /\ In({"waiting"})' = In({"waiting"})
  BY <1>0, <1>1 DEF Owners, Holding, In, IInv, TypeOK
<1>3. /\ IsFiniteSet(Owners')
      /\ Cardinality(Owners') = Cardinality(Owners) + 1
      /\ Cardinality(Holding') = Cardinality(Holding) + 1
  BY <1>2, HoldingBounded, FS_AddElement DEF IInv
<1>4. value' \in Nat
  BY <1>0, MaxAssumption DEF Locked, IInv, TypeOK
<1>5. PermitsConserved'
  BY <1>0, <1>3, HoldingBounded, MaxAssumption
     DEF IInv, TypeOK, PermitsConserved
<1>6. Holding' \subseteq Owners'
  BY DEF Holding, Owners, In
<1>7. waiters' \in Seq(Handlers) /\ pc' \in [Handlers -> Status]
  BY <1>0, <1>1 DEF IInv, TypeOK, Status
<1>8. TypeOK'
  BY <1>3, <1>4, <1>5, <1>6, <1>7, CountersTyped DEF TypeOK, PermitsConserved
<1>9. WaitersMatch'
  BY <1>0, <1>1, <1>2 DEF IInv, TypeOK, WaitersMatch
<1>10. NoLostWakeup'
  BY <1>0, <1>2 DEF NoLostWakeup, Locked, In
<1> QED
  BY <1>3, <1>5, <1>8, <1>9, <1>10 DEF IInv

\* A handler that finds the semaphore locked queues up behind the others.
LEMMA SlotWaitKeeps ==
    ASSUME IInv, NEW h \in Handlers, SlotWait(h)
    PROVE  IInv'
<1>0. /\ pc[h] = "idle" /\ Locked
      /\ value' = value /\ active' = active
      /\ waiters' = Append(waiters, h)
      /\ pc' = [pc EXCEPT ![h] = "waiting"]
  BY DEF SlotWait
<1>1. TypeOK'
  BY <1>0 DEF IInv, TypeOK, Status
<1>2. Owners' = Owners /\ Holding' = Holding
  BY <1>0 DEF Owners, Holding, In, IInv, TypeOK
<1>3. IsFiniteSet(Owners') /\ PermitsConserved'
  BY <1>0, <1>2 DEF IInv, PermitsConserved
<1>4. WaitersMatch'
  <2>1. /\ Len(waiters) \in Nat
        /\ Len(waiters') = Len(waiters) + 1
        /\ waiters'[Len(waiters) + 1] = h
        /\ \A i \in 1..Len(waiters) :
              /\ waiters'[i] = waiters[i]
              /\ waiters[i] \in Handlers
              /\ waiters[i] # h
    BY <1>0 DEF IInv, TypeOK, WaitersMatch
  <2>2. \A i \in 1..Len(waiters') : i \in 1..Len(waiters) \/ i = Len(waiters) + 1
    BY <2>1
  <2>3. \A i \in 1..Len(waiters') : pc'[waiters'[i]] = "waiting"
    BY <1>0, <2>1, <2>2 DEF IInv, TypeOK, WaitersMatch
  <2>4. \A g \in In({"waiting"})' : \E i \in 1..Len(waiters') : waiters'[i] = g
    <3> SUFFICES ASSUME NEW g \in Handlers, pc'[g] = "waiting"
                 PROVE  \E i \in 1..Len(waiters') : waiters'[i] = g
      BY DEF In
    <3>1. CASE g = h
      BY <2>1, <3>1
    <3>2. CASE g # h
      <4>1. PICK i \in 1..Len(waiters) : waiters[i] = g
        BY <1>0, <3>2 DEF IInv, TypeOK, WaitersMatch, In
      <4> QED
        BY <2>1, <4>1
    <3> QED
      BY <3>1, <3>2
  <2>5. \A i, j \in 1..Len(waiters') : waiters'[i] = waiters'[j] => i = j
    BY <2>1, <2>2 DEF IInv, WaitersMatch
  <2> QED
    BY <2>3, <2>4, <2>5 DEF WaitersMatch
<1>5. NoLostWakeup'
  <2>1. In({"granted", "cancelled", "revoked"})'
          = In({"granted", "cancelled", "revoked"})
    BY <1>0 DEF In, IInv, TypeOK
  <2>2. In({"waiting", "granted", "revoked"}) # {} =>
           In({"waiting"}) # {} \/ In({"granted", "cancelled", "revoked"}) # {}
    BY DEF In
  <2> QED
    BY <1>0, <2>1, <2>2 DEF NoLostWakeup, Locked, IInv, TypeOK
<1> QED
  BY <1>1, <1>3, <1>4, <1>5 DEF IInv

\* Removing the i-th element of a sequence moves the later ones up by one.
LEMMA RemoveAtElements ==
    ASSUME NEW S, NEW q \in Seq(S), NEW i \in 1..Len(q)
    PROVE  /\ RemoveAt(q, i) \in Seq(S)
           /\ Len(RemoveAt(q, i)) = Len(q) - 1
           /\ \A j \in 1..Len(q) - 1 :
                 RemoveAt(q, i)[j] = IF j < i THEN q[j] ELSE q[j + 1]
<1> DEFINE before == SubSeq(q, 1, i - 1)
           after  == SubSeq(q, i + 1, Len(q))
<1>0. Len(q) \in Nat /\ i \in Int /\ \A j \in 1..Len(q) : q[j] \in S
  OBVIOUS
<1>1. /\ before \in Seq(S)
      /\ Len(before) = i - 1
      /\ \A j \in 1..i - 1 : before[j] = q[j]
  BY <1>0
<1>2. /\ after \in Seq(S)
      /\ Len(after) = Len(q) - i
      /\ \A j \in 1..Len(q) - i : after[j] = q[j + i]
  BY <1>0
<1>3. RemoveAt(q, i) = before \o after
  BY DEF RemoveAt
<1> HIDE DEF before, after
<1>4. /\ before \o after \in Seq(S)
      /\ Len(before \o after) = Len(before) + Len(after)
      /\ \A j \in 1..Len(before) + Len(after) :
            (before \o after)[j] =
               IF j \leq Len(before) THEN before[j] ELSE after[j - Len(before)]
  BY <1>1, <1>2, ConcatProperties
<1>5. Len(before) + Len(after) = Len(q) - 1
  BY <1>0, <1>1, <1>2
<1>6. ASSUME NEW j \in 1..Len(q) - 1, j < i
      PROVE  before[j] = q[j] /\ j \leq Len(before)
  BY <1>0, <1>1, <1>6
<1>7. ASSUME NEW j \in 1..Len(q) - 1, ~(j < i)
      PROVE  after[j - Len(before)] = q[j + 1] /\ ~(j \leq Len(before))
  <2>1. /\ j - (i - 1) \in 1..Len(q) - i
        /\ (j - (i - 1)) + i = j + 1
        /\ ~(j \leq i - 1)
    BY <1>0, <1>7
  <2> QED
    BY <1>1, <1>2, <2>1
<1> QED
  BY <1>3, <1>4, <1>5, <1>6, <1>7

\* A handler cancelled in acquire() leaves the queue, or keeps the permit it
\* was granted until it unwinds.
LEMMA SlotCancelKeeps ==
    ASSUME IInv, NEW h \in Handlers, SlotCancel(h)
    PROVE  IInv'
<1>0. value' = value /\ active' = active
  BY DEF SlotCancel
<1>1. Owners' = Owners /\ Holding' = Holding
  BY DEF SlotCancel, Owners, Holding, In, IInv, TypeOK
<1>2. IsFiniteSet(Owners') /\ PermitsConserved'
  BY <1>0, <1>1 DEF IInv, PermitsConserved
<1>3. NoLostWakeup'
  <2>1. In({"granted", "cancelled", "revoked"})' # {}
    <3>1. pc'[h] \in {"cancelled", "revoked"}
      BY DEF SlotCancel, IInv, TypeOK
    <3> QED
      BY <3>1 DEF In
  <2> QED
    BY <2>1 DEF NoLostWakeup
<1>4. CASE pc[h] = "granted"
  <2>1. waiters' = waiters /\ pc' = [pc EXCEPT ![h] = "revoked"]
    BY <1>4 DEF SlotCancel
  <2>2. TypeOK'
    BY <1>0, <2>1 DEF IInv, TypeOK, Status
  <2>3. WaitersMatch'
    BY <1>4, <2>1 DEF IInv, TypeOK, WaitersMatch, In
  <2> QED
    BY <1>2, <1>3, <2>2, <2>3 DEF IInv
<1>5. CASE pc[h] = "waiting"
  <2>1. pc' = [pc EXCEPT ![h] = "cancelled"]
    BY <1>5 DEF SlotCancel
  <2>2. PICK i \in 1..Len(waiters) :
               waiters[i] = h /\ waiters' = RemoveAt(waiters, i)
    BY <1>5 DEF SlotCancel
  <2>3. /\ waiters' \in Seq(Handlers)
        /\ Len(waiters) \in Nat
        /\ Len(waiters') = Len(waiters) - 1
        /\ \A j \in 1..Len(waiters') :
              waiters'[j] = IF j < i THEN waiters[j] ELSE waiters[j + 1]
    BY <2>2, RemoveAtElements DEF IInv, TypeOK
  <2>4. TypeOK'
    BY <1>0, <2>1, <2>3 DEF IInv, TypeOK, Status
  <2>5. /\ \A m \in 1..Len(waiters) : pc[waiters[m]] = "waiting"
        /\ \A m, n \in 1..Len(waiters) : waiters[m] = waiters[n] => m = n
        /\ \A m \in 1..Len(waiters) : waiters[m] \in Handlers
    BY DEF IInv, TypeOK, WaitersMatch
  <2>6. \A j \in 1..Len(waiters') :
           \E m \in 1..Len(waiters) :
              waiters'[j] = waiters[m] /\ m # i /\ m = (IF j < i THEN j ELSE j + 1)
    BY <2>3
  <2>7. \A j \in 1..Len(waiters') : pc'[waiters'[j]] = "waiting"
    BY <2>1, <2>2, <2>5, <2>6 DEF IInv, TypeOK
  <2>8. \A j, l \in 1..Len(waiters') : waiters'[j] = waiters'[l] => j = l
    <3> SUFFICES ASSUME NEW j \in 1..Len(waiters'), NEW l \in 1..Len(waiters'),
                        waiters'[j] = waiters'[l]
                 PROVE  j = l
      OBVIOUS
    <3>1. (IF j < i THEN j ELSE j + 1) = (IF l < i THEN l ELSE l + 1)
      BY <2>5, <2>6
    <3> QED
      BY <3>1, <2>3
  <2>9. ASSUME NEW g \in Handlers, pc'[g] = "waiting"
        PROVE  \E j \in 1..Len(waiters') : waiters'[j] = g
    <3>1. g # h /\ pc[g] = "waiting"
      BY <2>1, <2>9 DEF IInv, TypeOK
    <3>2. PICK m \in 1..Len(waiters) : waiters[m] = g
      BY <3>1 DEF IInv, WaitersMatch, In
    <3>3. m # i
      BY <2>2, <3>1, <3>2
    <3>4. CASE m < i
      BY <2>3, <3>2, <3>4
    <3>5. CASE m > i
      <4>1. m - 1 \in 1..Len(waiters') /\ ~(m - 1 < i) /\ (m - 1) + 1 = m
        BY <2>3, <3>5
      <4> QED
        BY <2>3, <3>2, <4>1
    <3> QED
      BY <3>3, <3>4, <3>5
  <2>10. WaitersMatch'
    BY <2>7, <2>8, <2>9 DEF WaitersMatch, In
  <2> QED
    BY <1>2, <1>3, <2>4, <2>10 DEF IInv
<1> QED
  BY <1>4, <1>5 DEF SlotCancel

\* acquire() returns to a handler that was granted its permit.
LEMMA SlotResumeKeeps ==
    ASSUME IInv, NEW h \in Handlers, SlotResume(h)
    PROVE  IInv'
<1>1. /\ h \in Owners /\ h \notin Holding /\ pc[h] # "waiting"
      /\ active' = active + 1 /\ WakeAll(value, [pc EXCEPT ![h] = "inSlot"])
  BY DEF SlotResume, Owners, Holding, In
<1>2. Owners \cup {h} = Owners
  BY <1>1
<1>3. Cardinality(Holding \cup {h}) = Cardinality(Holding) + 1
  BY <1>1, HoldingBounded, FS_AddElement
<1>4. value \in Nat /\ value + Cardinality(Owners) = MaxCalls
  BY DEF IInv, TypeOK, PermitsConserved
<1>5. active = Cardinality(Holding)
  BY DEF IInv, PermitsConserved
<1> QED
  BY <1>1, <1>2, <1>3, <1>4, <1>5, WakeAllKeeps

\* A cancelled handler unwinds: the permit it was granted goes back.
LEMMA SlotUnwindKeeps ==
    ASSUME IInv, NEW h \in Handlers, SlotUnwind(h)
    PROVE  IInv'
<1>1. h \notin Holding /\ pc[h] # "waiting" /\ active' = active
  BY DEF SlotUnwind, Holding, In
<1>2. Holding \ {h} = Holding /\ active = Cardinality(Holding)
  BY <1>1 DEF IInv, PermitsConserved
<1>3. value \in Nat /\ value + Cardinality(Owners) = MaxCalls
  BY DEF IInv, TypeOK, PermitsConserved
<1>4. CASE pc[h] = "cancelled"
  <2>1. WakeAll(value, [pc EXCEPT ![h] = "idle"])
    BY <1>4 DEF SlotUnwind
  <2>2. Owners \ {h} = Owners
    BY <1>4 DEF Owners, In
  <2> QED
    BY <1>1, <1>2, <1>3, <2>1, <2>2, WakeAllKeeps
<1>5. CASE pc[h] = "revoked"
  <2>1. WakeAll(value + 1, [pc EXCEPT ![h] = "idle"])
    BY <1>5 DEF SlotUnwind
  <2>2. h \in Owners
    BY <1>5 DEF Owners, In
  <2>3. Cardinality(Owners \ {h}) = Cardinality(Owners) - 1
    BY <2>2, FS_RemoveElement DEF IInv
  <2>4. value + 1 + Cardinality(Owners \ {h}) = MaxCalls /\ value + 1 \in Nat
    BY <1>3, <2>3, HoldingBounded
  <2> QED
    BY <1>1, <1>2, <2>1, <2>4, WakeAllKeeps
<1> QED
  BY <1>4, <1>5 DEF SlotUnwind

\* Every step of every handler keeps the invariant.
LEMMA NextKeeps == IInv /\ [Next]_vars => IInv'
<1> SUFFICES ASSUME IInv, [Next]_vars
             PROVE  IInv'
  OBVIOUS
<1>1. ASSUME NEW h \in Handlers, SlotEnter(h) \/ TryAcquire(h)
      PROVE  IInv'
  BY <1>1, EntryKeeps
<1>2. ASSUME NEW h \in Handlers, SlotWait(h)
      PROVE  IInv'
  BY <1>2, SlotWaitKeeps
<1>3. ASSUME NEW h \in Handlers, SlotResume(h)
      PROVE  IInv'
  BY <1>3, SlotResumeKeeps
<1>4. ASSUME NEW h \in Handlers, SlotCancel(h)
      PROVE  IInv'
  BY <1>4, SlotCancelKeeps
<1>5. ASSUME NEW h \in Handlers, SlotUnwind(h)
      PROVE  IInv'
  BY <1>5, SlotUnwindKeeps
<1>6. ASSUME NEW h \in Handlers, SlotExit(h) \/ Release(h)
      PROVE  IInv'
  BY <1>6, GiveBackKeeps DEF SlotExit, Release, Holding, In
<1>7. CASE UNCHANGED vars
  BY <1>7 DEF IInv, TypeOK, WaitersMatch, PermitsConserved, NoLostWakeup,
              Owners, Holding, In, vars
<1> QED
  BY <1>1, <1>2, <1>3, <1>4, <1>5, <1>6, <1>7 DEF Next, HandlerStep

-----------------------------------------------------------------------------
\* The inductive invariant holds in every reachable state.
THEOREM Invariance == Spec => []IInv
  BY InitIInv, NextKeeps, PTL DEF Spec

\* The counters of the gate and of the semaphore stay in range and the queue
\* holds handlers (concurrency.py:34-85).
THEOREM TypeCorrect == Spec => []TypeOK
  BY Invariance, PTL DEF IInv

\* No permit is lost or minted, and `active` counts the calls that run, on
\* every path through both entries and every cancellation
\* (concurrency.py:50-85).
THEOREM PermitsAreConserved == Spec => []PermitsConserved
  BY Invariance, PTL DEF IInv

\* At most MaxCalls calls run at a time (concurrency.py:3-6).
THEOREM CapIsRespected == Spec => []CapRespected
<1>1. IInv => CapRespected
  BY HoldingBounded, MaxAssumption DEF CapRespected
<1> QED
  BY <1>1, Invariance, PTL

\* No handler waits beside a free permit unless a task is about to hand it on
\* (concurrency.py:74-85).
THEOREM NoWakeupIsLost == Spec => []NoLostWakeup
  BY Invariance, PTL DEF IInv

-----------------------------------------------------------------------------
(* First come, first served *)

\* The waiting handlers in front of a waiting handler.
Ahead(h) == {waiters[i] : i \in {j \in 1..Len(waiters) :
                \E n \in j + 1..Len(waiters) : waiters[n] = h}}

\* The line in front of a waiting handler only gets shorter: nobody is put
\* before it, nobody behind it is granted a permit first, and no newcomer gets
\* in beside it, through slot() or try_acquire_nowait()
\* (concurrency.py:50-65, 74-79).
InOrder ==
    \A h \in In({"waiting"}) :
        /\ pc'[h] = "waiting" => Ahead(h)' \subseteq Ahead(h)
        /\ pc'[h] = "granted" => \A g \in Ahead(h) : pc'[g] = "granted"
        /\ \A g \in In({"idle"}) : pc'[g] \in {"idle", "waiting"}

ServedInOrder == [][InOrder]_vars

LinedUp ==
    \A n \in 1..Len(waiters) :
        Ahead(waiters[n]) = {waiters[i] : i \in 1..n - 1}

\* A handler waits at one place of the deque, behind those at the places
\* before.
LEMMA AheadOf == TypeOK /\ WaitersMatch => LinedUp
<1> SUFFICES ASSUME TypeOK, WaitersMatch, NEW n \in 1..Len(waiters)
             PROVE  Ahead(waiters[n]) = {waiters[i] : i \in 1..n - 1}
  BY DEF LinedUp
<1>1. Len(waiters) \in Nat
  BY DEF TypeOK
<1>2. ASSUME NEW j \in 1..Len(waiters)
      PROVE  (\E m \in j + 1..Len(waiters) : waiters[m] = waiters[n]) <=>
                j \in 1..n - 1
  BY <1>1 DEF WaitersMatch
<1>3. 1..n - 1 \subseteq 1..Len(waiters)
  BY <1>1
<1>4. {j \in 1..Len(waiters) :
          \E m \in j + 1..Len(waiters) : waiters[m] = waiters[n]} = 1..n - 1
  BY <1>2, <1>3
<1> QED
  BY <1>4 DEF Ahead

\* A wake-up serves the line from its head.
LEMMA WakeUpInOrder ==
    ASSUME IInv, IInv', NEW h \in Handlers, pc[h] \notin {"waiting", "idle"},
           NEW s \in {"idle", "inSlot"},
           NEW v, NEW k \in 0..Len(waiters),
           WakeUp(v, k, [pc EXCEPT ![h] = s])
    PROVE  InOrder
<1>0. /\ Len(waiters) \in Nat /\ TypeOK /\ WaitersMatch
      /\ TypeOK' /\ WaitersMatch'
      /\ \A i \in 1..Len(waiters) : waiters[i] \in Handlers
  BY DEF IInv, TypeOK
<1>1. /\ Len(waiters') = Len(waiters) - k
      /\ \A i \in 1..Len(waiters') : waiters'[i] = waiters[i + k]
  BY <1>0 DEF WakeUp, TypeOK
<1>2. pc' = [g \in Handlers |->
                IF \E i \in 1..k : waiters[i] = g THEN "granted"
                ELSE IF g = h THEN s ELSE pc[g]]
  BY DEF WakeUp, IInv, TypeOK
<1> SUFFICES ASSUME NEW w \in In({"waiting"})
             PROVE  /\ pc'[w] = "waiting" => Ahead(w)' \subseteq Ahead(w)
                    /\ pc'[w] = "granted" => \A g \in Ahead(w) : pc'[g] = "granted"
                    /\ \A g \in In({"idle"}) : pc'[g] \in {"idle", "waiting"}
  BY DEF InOrder
<1>3. PICK n \in 1..Len(waiters) : waiters[n] = w
  BY <1>0 DEF WaitersMatch
<1>4. Ahead(w) = {waiters[i] : i \in 1..n - 1}
  BY <1>0, <1>3, AheadOf DEF LinedUp
<1>5. \A i \in 1..k : i \in 1..Len(waiters)
  BY <1>0
<1>6. ASSUME pc'[w] = "waiting" PROVE Ahead(w)' \subseteq Ahead(w)
  <2>1. n > k
    <3>1. w \in Handlers
      BY DEF In
    <3> QED
      BY <1>0, <1>2, <1>3, <1>6, <3>1
  <2>2. n - k \in 1..Len(waiters') /\ (n - k) + k = n
    BY <1>0, <1>1, <2>1
  <2>3. waiters'[n - k] = w
    BY <1>1, <1>3, <2>2
  <2>4. Ahead(w)' = {waiters'[i] : i \in 1..n - k - 1}
    <3>1. LinedUp'
      BY <1>0, AheadOf, PTL
    <3> QED
      BY <2>2, <2>3, <3>1 DEF LinedUp
  <2>5. ASSUME NEW i \in 1..n - k - 1 PROVE waiters'[i] \in Ahead(w)
    <3>1. i + k \in 1..n - 1 /\ i \in 1..Len(waiters')
      BY <1>0, <1>1
    <3> QED
      BY <1>1, <1>4, <3>1
  <2> QED
    BY <2>4, <2>5
<1>7. ASSUME pc'[w] = "granted", NEW g \in Ahead(w) PROVE pc'[g] = "granted"
  <2>1. pc[w] = "waiting" /\ w # h /\ w \in Handlers
    BY DEF In
  <2>2. PICK m \in 1..k : waiters[m] = w
    BY <1>2, <1>7, <2>1
  <2>3. m = n
    BY <1>0, <1>3, <1>5, <2>2 DEF WaitersMatch
  <2>4. PICK i \in 1..n - 1 : g = waiters[i]
    BY <1>4, <1>7
  <2>5. i \in 1..k /\ g \in Handlers
    BY <1>0, <2>2, <2>3, <2>4
  <2> QED
    BY <1>2, <2>4, <2>5
<1>8. ASSUME NEW g \in In({"idle"}) PROVE pc'[g] \in {"idle", "waiting"}
  <2>1. g \in Handlers /\ pc[g] = "idle" /\ g # h
    BY <1>8 DEF In
  <2>2. \A i \in 1..k : waiters[i] # g
    BY <1>0, <1>5, <2>1 DEF WaitersMatch
  <2> QED
    BY <1>2, <2>1, <2>2
<1> QED
  BY <1>6, <1>7, <1>8

\* A newcomer that waits stands behind everybody; one that is cancelled
\* leaves the rest in their order.
LEMMA QueueInOrder ==
    ASSUME IInv, IInv', NEW h \in Handlers, SlotWait(h) \/ SlotCancel(h)
    PROVE  InOrder
<1>0. /\ Len(waiters) \in Nat /\ TypeOK /\ WaitersMatch
      /\ \A i \in 1..Len(waiters) : waiters[i] \in Handlers
  BY DEF IInv, TypeOK
<1>1. LinedUp /\ LinedUp'
  <2>1. TypeOK' /\ WaitersMatch'
    BY DEF IInv
  <2> QED
    BY <1>0, <2>1, AheadOf, PTL
<1>2. \A g \in Handlers : pc'[g] # "granted" \/ pc[g] = "granted"
  BY <1>0 DEF SlotWait, SlotCancel, TypeOK
<1>3. \A g \in In({"idle"}) : pc'[g] \in {"idle", "waiting"}
  BY <1>0 DEF SlotWait, SlotCancel, TypeOK, In
<1>4. ASSUME NEW w \in In({"waiting"}), pc'[w] = "waiting"
      PROVE  Ahead(w)' \subseteq Ahead(w)
  <2>1. PICK n \in 1..Len(waiters) : waiters[n] = w
    BY <1>0 DEF WaitersMatch
  <2>2. Ahead(w) = {waiters[i] : i \in 1..n - 1}
    BY <1>1, <2>1 DEF LinedUp
  <2>3. CASE SlotWait(h)
    <3>1. waiters' = Append(waiters, h)
      BY <2>3 DEF SlotWait
    <3>2. /\ n \in 1..Len(waiters') /\ waiters'[n] = w
          /\ \A i \in 1..n - 1 : waiters'[i] = waiters[i]
      BY <1>0, <2>1, <3>1 DEF TypeOK
    <3>3. Ahead(w)' = {waiters'[i] : i \in 1..n - 1}
      BY <1>1, <3>2 DEF LinedUp
    <3> QED
      BY <2>2, <3>2, <3>3
  <2>4. CASE pc[h] = "waiting" /\ SlotCancel(h)
    <3>1. PICK i \in 1..Len(waiters) :
             waiters[i] = h /\ waiters' = RemoveAt(waiters, i)
      BY <2>4 DEF SlotCancel
    <3>2. /\ Len(waiters') = Len(waiters) - 1
          /\ \A j \in 1..Len(waiters') :
                waiters'[j] = IF j < i THEN waiters[j] ELSE waiters[j + 1]
      BY <3>1, RemoveAtElements DEF IInv, TypeOK
    <3>3. n # i
      <4>1. pc'[h] = "cancelled"
        BY <1>0, <2>4 DEF SlotCancel, TypeOK
      <4> QED
        BY <1>4, <2>1, <3>1, <4>1
    <3> DEFINE m == IF n < i THEN n ELSE n - 1
    <3>4. m \in 1..Len(waiters') /\ waiters'[m] = w
      BY <1>0, <2>1, <3>2, <3>3
    <3>5. Ahead(w)' = {waiters'[j] : j \in 1..m - 1}
      BY <1>1, <3>4 DEF LinedUp
    <3>6. ASSUME NEW j \in 1..m - 1
          PROVE  \E l \in 1..n - 1 : waiters'[j] = waiters[l]
      <4>1. j \in 1..Len(waiters')
        BY <1>0, <3>2, <3>4
      <4>2. CASE j < i
        BY <1>0, <3>2, <3>4, <4>1, <4>2
      <4>3. CASE ~(j < i)
        <5>1. j + 1 \in 1..n - 1
          BY <1>0, <3>3, <4>3
        <5> QED
          BY <3>2, <4>1, <4>3, <5>1
      <4> QED
        BY <4>2, <4>3
    <3> HIDE DEF m
    <3> QED
      BY <2>2, <3>5, <3>6
  <2>5. CASE pc[h] = "granted" /\ SlotCancel(h)
    <3>1. waiters' = waiters
      BY <2>5 DEF SlotCancel
    <3> QED
      BY <3>1 DEF Ahead
  <2> QED
    BY <2>3, <2>4, <2>5 DEF SlotCancel
<1> QED
  BY <1>2, <1>3, <1>4 DEF InOrder, In

\* Every step of every handler serves the line in order.
LEMMA StepInOrder == IInv /\ IInv' /\ [Next]_vars => [InOrder]_vars
<1> SUFFICES ASSUME IInv, IInv', NEW h \in Handlers, HandlerStep(h)
             PROVE  InOrder
  BY DEF Next
<1>0. Len(waiters) \in Nat /\ value \in Nat
  BY DEF IInv, TypeOK
<1>1. CASE SlotEnter(h) \/ TryAcquire(h)
  <2>1. In({"waiting"}) = {}
    BY <1>1 DEF SlotEnter, TryAcquire, Refuses, Locked, In
  <2> QED
    BY <2>1 DEF InOrder
<1>2. CASE SlotWait(h) \/ SlotCancel(h)
  BY <1>2, QueueInOrder
<1>3. ASSUME pc[h] \notin {"waiting", "idle"}, NEW v \in Nat,
             NEW s \in {"idle", "inSlot"}, WakeAll(v, [pc EXCEPT ![h] = s])
      PROVE  InOrder
  <2> DEFINE k == IF v < Len(waiters) THEN v ELSE Len(waiters)
  <2>1. k \in 0..Len(waiters)
    BY <1>0
  <2>2. WakeUp(v, k, [pc EXCEPT ![h] = s])
    BY <1>3 DEF WakeAll
  <2> HIDE DEF k
  <2> QED
    BY <1>3, <2>1, <2>2, WakeUpInOrder
<1>4. CASE SlotResume(h)
  BY <1>0, <1>3, <1>4 DEF SlotResume
<1>5. CASE SlotUnwind(h)
  <2>1. value + 1 \in Nat
    BY <1>0
  <2> QED
    BY <1>0, <1>3, <1>5, <2>1 DEF SlotUnwind
<1>6. CASE SlotExit(h) \/ Release(h)
  <2> DEFINE k == IF waiters = <<>> THEN 0 ELSE 1
  <2>1. pc[h] \notin {"waiting", "idle"}
    BY <1>6 DEF SlotExit, Release
  <2>2. k \in 0..Len(waiters)
    BY <1>0 DEF IInv, TypeOK
  <2>3. WakeUp(value + 1, k, [pc EXCEPT ![h] = "idle"])
    BY <1>6 DEF SlotExit, Release, GiveBack
  <2> HIDE DEF k
  <2> QED
    BY <2>1, <2>2, <2>3, WakeUpInOrder
<1> QED
  BY <1>1, <1>2, <1>4, <1>5, <1>6 DEF HandlerStep

\* Whoever waits in slot() is served in the order of arrival
\* (concurrency.py:50-65, 74-79).
THEOREM ServedInOrderHolds == Spec => ServedInOrder
  BY Invariance, StepInOrder, PTL DEF Spec, ServedInOrder

-----------------------------------------------------------------------------
(* CallGate implements CallSlots. *)

\* The library operators that CallSlots uses are those that CallGate uses.
LEMMA SameOperators ==
    /\ \A S : Slots!Cardinality(S) = Cardinality(S)
    /\ \A q, i : Slots!RemoveAt(q, i) = RemoveAt(q, i)
  BY DEF Slots!Cardinality, Cardinality, Slots!RemoveAt, RemoveAt

\* A wake-up of k futures admits the first k of the abstract queue.
LEMMA WakeUpAdmits ==
    ASSUME IInv, IInv', NEW h \in Handlers, pc[h] # "waiting",
           NEW s \in {"idle", "inSlot"}, s = "inSlot" => h \in Owners,
           NEW v, NEW k \in 0..Len(waiters),
           WakeUp(v, k, [pc EXCEPT ![h] = s])
    PROVE  Slots!Next
<1> DEFINE leaving == IF s = "idle" /\ h \in Owners THEN {h} ELSE {}
<1>1. Owners' = (Owners \ leaving) \cup Woken(k)
  <2>1. Owners' = (IF s = "inSlot" THEN Owners \cup {h} ELSE Owners \ {h})
                     \cup Woken(k)
    BY WakeUpEffect DEF IInv
  <2>2. (IF s = "inSlot" THEN Owners \cup {h} ELSE Owners \ {h})
           = Owners \ leaving
    OBVIOUS
  <2> QED
    BY <2>1, <2>2
<1>2. Cardinality(Owners') \leq MaxCalls
  <2>1. /\ IsFiniteSet(Owners') /\ Cardinality(Owners') \in Nat
    BY FS_CardinalityType DEF IInv
  <2>2. value' \in Nat /\ value' + Cardinality(Owners') = MaxCalls
    BY DEF IInv, TypeOK, PermitsConserved
  <2> QED
    BY <2>1, <2>2, MaxAssumption
<1>3. waiters' = SubSeq(waiters, k + 1, Len(waiters))
  BY DEF WakeUp
<1>4. /\ leaving \in {{}} \cup {{g} : g \in Owners}
      /\ leaving \subseteq Owners
      /\ Cardinality(leaving) \leq 1
  <2>1. Cardinality({}) = 0 /\ Cardinality({h}) = 1
    BY FS_EmptySet, FS_Singleton
  <2>2. CASE s = "idle" /\ h \in Owners
    BY <2>1, <2>2
  <2>3. CASE ~(s = "idle" /\ h \in Owners)
    BY <2>1, <2>3
  <2> QED
    BY <2>2, <2>3
<1> HIDE DEF leaving
<1>5. Slots!Admit(leaving, k)
  BY <1>1, <1>2, <1>3, <1>4, SameOperators
     DEF Slots!Admit, Slots!First, Slots!Rest, Woken
<1> QED
  BY <1>4, <1>5 DEF Slots!Next

\* A step of a handler is a step of the abstract queue, or invisible to it.
LEMMA StepImplements ==
    ASSUME IInv, IInv', NEW h \in Handlers, HandlerStep(h)
    PROVE  Slots!Next \/ UNCHANGED <<Owners, waiters>>
<1>0. Len(waiters) \in Nat
  BY DEF IInv, TypeOK
<1>1. CASE SlotEnter(h) \/ TryAcquire(h)
  <2>1. /\ pc[h] = "idle" /\ ~Locked /\ waiters' = waiters
        /\ \E s \in {"inSlot", "reserved"} : pc' = [pc EXCEPT ![h] = s]
    BY <1>1 DEF SlotEnter, TryAcquire, Refuses
  <2>2. h \notin Owners /\ Owners' = Owners \cup {h}
    BY <2>1 DEF Owners, In, IInv, TypeOK
  <2>3. waiters = <<>>
    <3>1. \A i \in 1..Len(waiters) : FALSE
      BY <2>1 DEF Locked, In, IInv, TypeOK, WaitersMatch
    <3> QED
      BY <3>1, <1>0 DEF IInv, TypeOK
  <2>4. Cardinality(Owners) < MaxCalls
    BY <2>1, HoldingBounded, MaxAssumption
       DEF Locked, IInv, TypeOK, PermitsConserved
  <2>5. Slots!Take(h)
    BY <2>1, <2>2, <2>3, <2>4, SameOperators DEF Slots!Take
  <2> QED
    BY <2>5 DEF Slots!Next
<1>2. CASE SlotWait(h)
  <2>1. /\ pc[h] = "idle" /\ waiters' = Append(waiters, h)
        /\ pc' = [pc EXCEPT ![h] = "waiting"]
    BY <1>2 DEF SlotWait
  <2>2. h \notin Owners /\ Owners' = Owners
    BY <2>1 DEF Owners, In, IInv, TypeOK
  <2>3. \A i \in 1..Len(waiters) : waiters[i] # h
    BY <2>1 DEF IInv, WaitersMatch
  <2>4. Slots!Arrive(h)
    BY <2>1, <2>2, <2>3 DEF Slots!Arrive
  <2> QED
    BY <2>4 DEF Slots!Next
<1>3. CASE SlotCancel(h)
  <2>1. Owners' = Owners
    BY <1>3 DEF SlotCancel, Owners, In, IInv, TypeOK
  <2>2. waiters' = waiters \/ \E i \in 1..Len(waiters) :
                                 waiters' = RemoveAt(waiters, i)
    BY <1>3 DEF SlotCancel
  <2>3. ASSUME NEW i \in 1..Len(waiters), waiters' = RemoveAt(waiters, i)
        PROVE  Slots!GiveUp(i)
    BY <2>1, <2>3, SameOperators DEF Slots!GiveUp
  <2> QED
    BY <2>1, <2>2, <2>3 DEF Slots!Next
<1>4. ASSUME NEW v \in Nat, NEW s \in {"idle", "inSlot"}, pc[h] # "waiting",
             s = "inSlot" => h \in Owners, WakeAll(v, [pc EXCEPT ![h] = s])
      PROVE  Slots!Next
  <2> DEFINE k == IF v < Len(waiters) THEN v ELSE Len(waiters)
  <2>1. k \in 0..Len(waiters)
    BY <1>0
  <2>2. WakeUp(v, k, [pc EXCEPT ![h] = s])
    BY <1>4 DEF WakeAll
  <2> HIDE DEF k
  <2> QED
    BY <1>4, <2>1, <2>2, WakeUpAdmits
<1>5. CASE SlotResume(h)
  <2>1. pc[h] # "waiting" /\ h \in Owners /\ value \in Nat
    BY <1>5 DEF SlotResume, Owners, In, IInv, TypeOK
  <2> QED
    BY <1>4, <1>5, <2>1 DEF SlotResume
<1>6. CASE SlotUnwind(h)
  <2>1. pc[h] # "waiting" /\ value \in Nat /\ value + 1 \in Nat
    BY <1>6 DEF SlotUnwind, IInv, TypeOK
  <2> QED
    BY <1>4, <1>6, <2>1 DEF SlotUnwind
<1>7. CASE SlotExit(h) \/ Release(h)
  <2> DEFINE k == IF waiters = <<>> THEN 0 ELSE 1
  <2>1. pc[h] # "waiting"
    BY <1>7 DEF SlotExit, Release
  <2>2. k \in 0..Len(waiters)
    BY <1>0 DEF IInv, TypeOK
  <2>3. WakeUp(value + 1, k, [pc EXCEPT ![h] = "idle"])
    BY <1>7 DEF SlotExit, Release, GiveBack
  <2> HIDE DEF k
  <2> QED
    BY <2>1, <2>2, <2>3, WakeUpAdmits
<1> QED
  BY <1>1, <1>2, <1>3, <1>5, <1>6, <1>7 DEF HandlerStep

\* The gate is the abstract first-come-first-served queue for MaxCalls slots:
\* nobody overtakes a waiting handler, by either entry (concurrency.py:50-85).
THEOREM Implementation == Spec => ImplementsCallSlots
<1>1. Init => Slots!Init
  <2> SUFFICES ASSUME Init
               PROVE  Slots!Init
    OBVIOUS
  <2>1. Owners = {}
    BY DEF Init, Owners, In
  <2> QED
    BY <2>1 DEF Init, Slots!Init
<1>2. IInv /\ IInv' /\ [Next]_vars => [Slots!Next]_<<Owners, waiters>>
  <2> SUFFICES ASSUME IInv, IInv', [Next]_vars
               PROVE  Slots!Next \/ UNCHANGED <<Owners, waiters>>
    OBVIOUS
  <2>1. CASE Next
    BY <2>1, StepImplements DEF Next
  <2>2. CASE UNCHANGED vars
    BY <2>2 DEF vars, Owners, In
  <2> QED
    BY <2>1, <2>2
<1> QED
  BY <1>1, <1>2, Invariance, PTL DEF Spec, ImplementsCallSlots, Slots!Spec
=============================================================================
