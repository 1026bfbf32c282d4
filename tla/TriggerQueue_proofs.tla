------------------------ MODULE TriggerQueue_proofs ------------------------
(***************************************************************************)
(* The inductive invariant of TriggerQueue, for every set of triggers,     *)
(* keys and Realms, and every number of refused dispatches.                *)
(***************************************************************************)
EXTENDS TriggerQueue, WellFoundedInduction, TLAPS

LEMMA InitIInv == Init => IInv
<1> SUFFICES ASSUME Init PROVE IInv
  OBVIOUS
<1> USE DEF Init, Enqueued
<1>1. TypeOK
  BY BoundAssumption, 0 \in Nat, 0 \in Int DEF TypeOK
<1>2. Conservation /\ BatchWithinTick /\ SideCarIsLive
  BY DEF Conservation, BatchWithinTick, SideCarIsLive
<1>3. Numbering /\ OneInFlightPerTarget /\ IntraAgentFIFO
  BY DEF Numbering, OneInFlightPerTarget, IntraAgentFIFO
<1> QED
  BY <1>1, <1>2, <1>3 DEF IInv

\* A batch holds one trigger for each target, and it is the target's oldest.
LEMMA ReadyIsOldest ==
  ASSUME IInv, NEW occupied, NEW t \in Ready(occupied)
  PROVE  /\ t \in pending
         /\ \A u \in pending \ Evicted :
              Target[u] = Target[t] => arrival[t] =< arrival[u]
         /\ \A u \in Ready(occupied) : Target[u] = Target[t] => u = t
<1>1. /\ t \in pending \ Evicted
      /\ \A u \in pending \ Evicted :
           Target[u] = Target[t] => place[t] =< place[u]
  BY DEF Ready
<1>2. \A u \in pending \ Evicted : Target[u] = Target[t] => arrival[t] =< arrival[u]
  BY <1>1 DEF IInv, Numbering
<1>3. ASSUME NEW u \in Ready(occupied), Target[u] = Target[t]
      PROVE  u = t
  <2>1. u \in pending \ Evicted /\ arrival[u] =< arrival[t]
    BY <1>1, <1>3 DEF Ready, IInv, Numbering
  <2>2. arrival[u] = arrival[t]
    BY <1>1, <1>2, <1>3, <2>1 DEF IInv, TypeOK
  <2>3. u \in Enqueued /\ t \in Enqueued
    BY <1>1, <2>1 DEF IInv, Conservation
  <2> QED
    BY <2>2, <2>3 DEF IInv, Numbering
<1> QED
  BY <1>1, <1>2, <1>3

\* Evaluating the list preserves the invariant.
LEMMA EvaluateIInv ==
  ASSUME IInv, NEW occupied, ~isTicking, Evaluate(occupied),
         UNCHANGED <<registry, isProcessing>>,
         microtaskScheduled' \in BOOLEAN, tickQueued' \in BOOLEAN,
         busy' \subseteq OutsideTurns
  PROVE  IInv'
<1> DEFINE R == Ready(occupied)
<1> USE DEF Enqueued
<1>1. inFlight = {} /\ hasPendingTick = FALSE
  BY DEF IInv, BatchWithinTick, TypeOK
<1>2. /\ pending' = pending \ (Evicted \cup R)
      /\ inFlight' = R
      /\ isTicking' = (R # {})
      /\ sourceKeys' = sourceKeys \ Evicted
      /\ dropped' = dropped \cup Evicted
      /\ UNCHANGED <<place, front, hasPendingTick, arrivals, arrival, settled, cleared>>
  BY DEF Evaluate
<1>3. R \subseteq pending \ Evicted /\ Evicted \subseteq pending
  BY DEF Ready, Evicted
<1>4. TypeOK'
  BY <1>2, <1>3 DEF IInv, TypeOK
<1>5. Conservation'
  BY <1>1, <1>2, <1>3 DEF IInv, Conservation
<1>6. BatchWithinTick'
  BY <1>1, <1>2 DEF BatchWithinTick
<1>7. SideCarIsLive'
  BY <1>1, <1>2, <1>3 DEF IInv, SideCarIsLive
<1>8. Numbering'
  <2>1. \A t \in settled, u \in pending :
          Target[t] = Target[u] => arrival[t] < arrival[u]
    BY DEF IInv, IntraAgentFIFO
  <2> QED
    BY <1>2, <1>3, <2>1 DEF IInv, Numbering
<1>9. OneInFlightPerTarget'
  BY <1>2, ReadyIsOldest DEF OneInFlightPerTarget
<1>10. IntraAgentFIFO'
  <2> SUFFICES ASSUME NEW t \in inFlight' \cup settled', NEW u \in pending',
                      Target[t] = Target[u]
               PROVE  arrival[t] < arrival[u]
    BY <1>2 DEF IntraAgentFIFO
  <2>1. CASE t \in settled
    BY <1>2, <2>1 DEF IInv, IntraAgentFIFO
  <2>2. CASE t \in R
    <3>1. u \in pending \ Evicted /\ t # u /\ t \in pending
      BY <1>2, <1>3, <2>2
    <3>2. arrival[t] =< arrival[u]
      BY <2>2, <3>1, ReadyIsOldest
    <3>3. arrival[t] # arrival[u]
      BY <3>1 DEF IInv, Numbering, Conservation
    <3> QED
      BY <3>1, <3>2, <3>3 DEF IInv, TypeOK
  <2> QED
    BY <1>2, <2>1, <2>2
<1> QED
  BY <1>4, <1>5, <1>6, <1>7, <1>8, <1>9, <1>10 DEF IInv

\* So does a tick, whether it evaluates the list or leaves a note.
LEMMA ProcessTickIInv ==
  ASSUME IInv, NEW occupied, ProcessTick(occupied),
         UNCHANGED <<registry, isProcessing>>,
         microtaskScheduled' \in BOOLEAN, tickQueued' \in BOOLEAN,
         busy' \subseteq OutsideTurns
  PROVE  IInv'
<1>1. CASE isTicking /\ hasPendingTick' = TRUE /\ UNCHANGED <<list, isTicking, history>>
  BY <1>1
     DEF IInv, TypeOK, Conservation, BatchWithinTick, SideCarIsLive, Numbering,
         OneInFlightPerTarget, IntraAgentFIFO, Enqueued, list, history
<1>2. CASE ~isTicking /\ Evaluate(occupied)
  BY <1>2, EvaluateIInv
<1> QED
  BY <1>1, <1>2 DEF ProcessTick

LEMMA EnqueueIInv ==
  ASSUME IInv, NEW t \in Trigger, Enqueue(t)
  PROVE  IInv'
<1> USE DEF Enqueue, Enqueued
<1>1. t \notin pending \cup inFlight \cup settled \cup dropped \cup cleared
  BY DEF IInv, Conservation
<1>2. TypeOK'
  BY DEF IInv, TypeOK
<1>3. Conservation'
  BY <1>1 DEF IInv, TypeOK, Conservation
<1>4. BatchWithinTick' /\ SideCarIsLive'
  BY DEF IInv, BatchWithinTick, SideCarIsLive
<1>5. Numbering'
  BY <1>1 DEF IInv, TypeOK, Numbering
<1>6. OneInFlightPerTarget'
  BY DEF IInv, OneInFlightPerTarget
<1>7. IntraAgentFIFO'
  BY <1>1 DEF IInv, TypeOK, Conservation, Numbering, IntraAgentFIFO
<1> QED
  BY <1>2, <1>3, <1>4, <1>5, <1>6, <1>7 DEF IInv

LEMMA SettleIInv ==
  ASSUME IInv, NEW t \in Trigger, Settle(t)
  PROVE  IInv'
<1> USE DEF Settle, Enqueued, ticks
<1>1. TypeOK' /\ Conservation' /\ BatchWithinTick' /\ SideCarIsLive'
  BY DEF IInv, TypeOK, Conservation, BatchWithinTick, SideCarIsLive
<1>2. Numbering'
  BY DEF IInv, TypeOK, Numbering, OneInFlightPerTarget
<1>3. OneInFlightPerTarget' /\ IntraAgentFIFO'
  BY DEF IInv, OneInFlightPerTarget, IntraAgentFIFO
<1> QED
  BY <1>1, <1>2, <1>3 DEF IInv

LEMMA RefuseIInv ==
  ASSUME IInv, NEW t \in Trigger, Refuse(t)
  PROVE  IInv'
<1> USE DEF Refuse, Enqueued, ticks, history
<1>1. TypeOK'
  BY DEF IInv, TypeOK
<1>2. Conservation' /\ BatchWithinTick' /\ SideCarIsLive'
  BY DEF IInv, TypeOK, Conservation, BatchWithinTick, SideCarIsLive
<1>3. Numbering'
  BY DEF IInv, TypeOK, Conservation, Numbering, IntraAgentFIFO
<1>4. OneInFlightPerTarget'
  BY DEF IInv, OneInFlightPerTarget
<1>5. IntraAgentFIFO'
  BY DEF IInv, TypeOK, Numbering, OneInFlightPerTarget, IntraAgentFIFO
<1> QED
  BY <1>1, <1>2, <1>3, <1>4, <1>5 DEF IInv

\* What is left touches neither the batch nor the order of the list.
LEMMA OtherIInv ==
  ASSUME IInv,
         \/ FinishBatch \/ StartProcessing \/ StopProcessing \/ Clear \/ Dispose
         \/ \E i \in OutsideTurns : TurnStarts(i)
         \/ \E k \in Volatile : Register(k) \/ Unregister(k)
         \/ UNCHANGED vars
  PROVE  IInv'
<1> USE BoundAssumption
    DEF IInv, TypeOK, Conservation, BatchWithinTick, SideCarIsLive, Numbering,
        OneInFlightPerTarget, IntraAgentFIFO, Enqueued, list, ticks, history, vars
<1>1. CASE FinishBatch
  BY <1>1 DEF FinishBatch
<1>2. CASE StartProcessing \/ StopProcessing
  <2>1. /\ isProcessing' \in BOOLEAN
        /\ UNCHANGED <<list, ticks, registry, busy, history>>
    BY <1>2 DEF StartProcessing, StopProcessing
  <2> QED
    BY <2>1
<1>3. CASE Clear \/ Dispose
  <2>1. /\ pending' = {} /\ sourceKeys' = {}
        /\ cleared' = cleared \cup pending
        /\ isProcessing' \in BOOLEAN
        /\ UNCHANGED <<place, front, inFlight, isTicking, hasPendingTick,
                       microtaskScheduled, tickQueued, registry, busy,
                       arrivals, arrival, settled, dropped>>
    BY <1>3 DEF Clear, Dispose, ClearList
  <2>2. TypeOK' /\ BatchWithinTick' /\ SideCarIsLive' /\ OneInFlightPerTarget'
    BY <2>1
  <2>3. Conservation'
    BY <2>1
  <2>4. Numbering' /\ IntraAgentFIFO'
    BY <2>1
  <2> QED
    BY <2>2, <2>3, <2>4
<1>4. CASE \E i \in OutsideTurns : TurnStarts(i)
  BY <1>4 DEF TurnStarts
<1>5. CASE \E k \in Volatile : Register(k) \/ Unregister(k)
  BY <1>5 DEF Register, Unregister
<1>6. CASE UNCHANGED vars
  BY <1>6
<1> QED
  BY <1>1, <1>2, <1>3, <1>4, <1>5, <1>6

LEMMA NextIInv == IInv /\ [Next]_vars => IInv'
<1> SUFFICES ASSUME IInv, [Next]_vars PROVE IInv'
  OBVIOUS
<1> USE DEF IInv, TypeOK
<1>1. CASE RunTick
  <2>1. /\ ProcessTick(busy)
        /\ UNCHANGED <<registry, isProcessing, busy>>
        /\ microtaskScheduled' \in BOOLEAN /\ tickQueued' \in BOOLEAN
    BY <1>1 DEF RunTick, TimerTick, EnqueueMicrotask, PendingTickMicrotask
  <2> QED
    BY <2>1, ProcessTickIInv
<1>2. CASE \E i \in OutsideTurns : TurnEnds(i)
  <2>1. PICK i \in OutsideTurns : TurnEnds(i)
    BY <1>2
  <2>2. /\ ProcessTick(busy \ {i})
        /\ UNCHANGED <<registry, isProcessing, microtaskScheduled, tickQueued>>
        /\ busy' = busy \ {i}
    BY <2>1 DEF TurnEnds
  <2> QED
    BY <2>2, ProcessTickIInv
<1>3. CASE \E t \in Trigger : Enqueue(t) \/ Settle(t) \/ Refuse(t)
  BY <1>3, EnqueueIInv, SettleIInv, RefuseIInv
<1>4. CASE \/ FinishBatch \/ StartProcessing \/ StopProcessing \/ Clear \/ Dispose
           \/ \E i \in OutsideTurns : TurnStarts(i)
           \/ \E k \in Volatile : Register(k) \/ Unregister(k)
           \/ UNCHANGED vars
  BY <1>4, OtherIInv
<1> QED
  BY <1>1, <1>2, <1>3, <1>4 DEF Next

\* The inductive invariant holds of every behaviour.
THEOREM Invariance == Spec => []IInv
BY InitIInv, NextIInv, PTL DEF Spec

\* The types of the variables.
THEOREM TypeCorrect == Spec => []TypeOK
<1>1. IInv => TypeOK
  BY DEF IInv
<1> QED
  BY <1>1, Invariance, PTL

\* Two triggers of one target are never in flight at once.
THEOREM Exclusive == Spec => []OneInFlightPerTarget
<1>1. IInv => OneInFlightPerTarget
  BY DEF IInv
<1> QED
  BY <1>1, Invariance, PTL

\* The triggers of one target are dispatched in their order of arrival.
THEOREM Ordered == Spec => []IntraAgentFIFO
<1>1. IInv => IntraAgentFIFO
  BY DEF IInv
<1> QED
  BY <1>1, Invariance, PTL

\* No enqueued trigger disappears or is handled twice.
THEOREM Conserved == Spec => []Conservation
<1>1. IInv => Conservation
  BY DEF IInv
<1> QED
  BY <1>1, Invariance, PTL

-----------------------------------------------------------------------------
(* Realm confinement                                                       *)

\* A pending trigger that has never been refused still has the source key it
\* was enqueued with.
KeysKept ==
  \A t \in pending : place[t] > 0 /\ SourceKey[t] # NoKey => t \in sourceKeys

LEMMA KeysKeptStep ==
  ASSUME IInv, KeysKept, [Next]_vars
  PROVE  KeysKept'
<1> USE DEF KeysKept
<1>1. ASSUME NEW occupied, ProcessTick(occupied)
      PROVE  KeysKept'
  BY <1>1 DEF ProcessTick, Evaluate, list
<1>2. ASSUME NEW t \in Trigger, Enqueue(t)
      PROVE  KeysKept'
  BY <1>2 DEF Enqueue, IInv, TypeOK
<1>3. ASSUME NEW t \in Trigger, Settle(t)
      PROVE  KeysKept'
  BY <1>3 DEF Settle, IInv, Conservation
<1>4. ASSUME NEW t \in Trigger, Refuse(t)
      PROVE  KeysKept'
  <2>1. front - 1 < 0
    BY DEF IInv, TypeOK, Numbering
  <2> QED
    BY <1>4, <2>1 DEF Refuse, IInv, TypeOK
<1>5. CASE FinishBatch \/ StartProcessing \/ StopProcessing
  BY <1>5 DEF FinishBatch, StartProcessing, StopProcessing, list
<1>6. CASE Clear \/ Dispose
  BY <1>6 DEF Clear, Dispose, ClearList
<1>7. CASE \/ \E i \in OutsideTurns : TurnStarts(i)
           \/ \E k \in Volatile : Register(k) \/ Unregister(k)
           \/ UNCHANGED vars
  BY <1>7 DEF TurnStarts, Register, Unregister, vars, list
<1> QED
  BY <1>1, <1>2, <1>3, <1>4, <1>5, <1>6, <1>7
     DEF Next, RunTick, TimerTick, EnqueueMicrotask, PendingTickMicrotask, TurnEnds

\* The condition RealmConfinement puts on a trigger t that enters a batch.
Lawful(t) ==
  LET k == SourceKey[t]
  IN  (place[t] > 0 \/ t \in sourceKeys) /\ k \in registry /\ RealmOf[k] \in Realm =>
        \/ Target[t] \in {k, Source[t]}
        \/ /\ Resolve(Target[t]) # NoKey
           /\ RealmOf[Resolve(Target[t])] \in {RealmOf[k], Bypass}

LEMMA AllowedIsLawful ==
  ASSUME IInv, KeysKept, NEW t \in pending, Allowed(t)
  PROVE  Lawful(t)
<1> SUFFICES ASSUME place[t] > 0 \/ t \in sourceKeys,
                    SourceKey[t] \in registry, RealmOf[SourceKey[t]] \in Realm
             PROVE  \/ Target[t] \in {SourceKey[t], Source[t]}
                    \/ /\ Resolve(Target[t]) # NoKey
                       /\ RealmOf[Resolve(Target[t])] \in {RealmOf[SourceKey[t]], Bypass}
  BY DEF Lawful
<1>1. SourceKey[t] # NoKey
  BY IdentAssumption DEF IInv, TypeOK, Ident
<1>2. t \in sourceKeys
  BY <1>1 DEF KeysKept
<1>3. ResolveSource(t, TRUE) = SourceKey[t]
  BY DEF ResolveSource
<1>4. Confined(t, TRUE)
  BY <1>2 DEF Allowed
<1>5. RealmOf[SourceKey[t]] \notin {NoRealm, Bypass}
  BY IdentAssumption
<1> QED
  BY <1>1, <1>3, <1>4, <1>5 DEF Confined

LEMMA StepIsLawful ==
  ASSUME IInv, KeysKept, [Next]_vars
  PROVE  \A t \in inFlight' \ inFlight : Lawful(t)
<1>1. ASSUME NEW occupied, ProcessTick(occupied), NEW t \in inFlight' \ inFlight
      PROVE  Lawful(t)
  <2>1. t \in Ready(occupied)
    BY <1>1 DEF ProcessTick, Evaluate, list
  <2>2. t \in pending /\ Allowed(t)
    BY <2>1 DEF Ready, Evicted
  <2> QED
    BY <2>2, AllowedIsLawful
<1>2. CASE UNCHANGED inFlight \/ \E t \in Trigger : Settle(t) \/ Refuse(t)
  BY <1>2 DEF Settle, Refuse
<1>3. CASE \/ FinishBatch \/ StartProcessing \/ StopProcessing \/ Clear \/ Dispose
           \/ \E t \in Trigger : Enqueue(t)
           \/ \E i \in OutsideTurns : TurnStarts(i)
           \/ \E k \in Volatile : Register(k) \/ Unregister(k)
           \/ UNCHANGED vars
  <2>1. UNCHANGED inFlight
    BY <1>3 DEF FinishBatch, StartProcessing, StopProcessing, Clear, Dispose, Enqueue,
                TurnStarts, Register, Unregister, vars, list
  <2> QED
    BY <2>1
<1> QED
  BY <1>1, <1>2, <1>3
     DEF Next, RunTick, TimerTick, EnqueueMicrotask, PendingTickMicrotask, TurnEnds

\* No trigger is dispatched outside its source's Realm, however often dispatches
\* are refused and the queue is cleared, but for the exemption RealmConfinement
\* makes.
THEOREM Confinement == Spec => RealmConfinement
<1>1. Init => KeysKept
  BY DEF Init, KeysKept
<1>2. IInv /\ KeysKept /\ [Next]_vars => KeysKept'
  BY KeysKeptStep
<1>3. IInv /\ KeysKept /\ [Next]_vars => [\A t \in inFlight' \ inFlight : Lawful(t)]_vars
  BY StepIsLawful
<1>4. Spec => [][\A t \in inFlight' \ inFlight : Lawful(t)]_vars
  BY <1>1, <1>2, <1>3, Invariance, PTL DEF Spec
<1> QED
  BY <1>4 DEF RealmConfinement, Lawful

-----------------------------------------------------------------------------
(* Work conservation                                                       *)

\* A set of numbers has a least element.
LEMMA Least ==
  ASSUME NEW S \in SUBSET Nat, S # {}
  PROVE  \E m \in S : \A n \in S : m =< n
<1> DEFINE R == OpToRel(<, Nat)
<1>1. IsWellFoundedOn(R, Nat)
  BY NatLessThanWellFounded
<1>2. \A m, n \in Nat : n < m => <<n, m>> \in R
  BY DEF OpToRel
<1> HIDE DEF R
<1>3. PICK m \in S : \A n \in S : <<n, m>> \notin R
  BY <1>1, WFMin
<1>4. \A n \in S : ~(n < m)
  BY <1>2, <1>3
<1> QED
  BY <1>4

\* Some pending triggers have one that is nearest the head of the list.
LEMMA FirstExists ==
  ASSUME IInv, NEW S \in SUBSET pending, S # {}
  PROVE  \E t \in S : \A u \in S : place[t] =< place[u]
<1> DEFINE Depths == {place[t] - front : t \in S}
<1>1. \A t \in S : place[t] \in Int /\ front \in Int /\ front =< place[t]
  BY DEF IInv, TypeOK, Numbering
<1>2. Depths \in SUBSET Nat /\ Depths # {}
  BY <1>1
<1>3. PICK m \in Depths : \A n \in Depths : m =< n
  BY <1>2, Least
<1>4. PICK t \in S : m = place[t] - front
  BY <1>3
<1>5. \A u \in S : place[t] - front =< place[u] - front
  BY <1>3, <1>4
<1> QED
  BY <1>1, <1>5

\* A tick dispatches a trigger of every idle target that has an admissible one.
LEMMA EvaluateConserves ==
  ASSUME IInv, NEW occupied, Evaluate(occupied), NEW t \in pending'
  PROVE  Target[t] \in occupied \/ \E u \in inFlight' : Target[u] = Target[t]
<1>1. t \in pending \ Evicted /\ inFlight' = Ready(occupied)
  BY DEF Evaluate
<1> SUFFICES ASSUME Target[t] \notin occupied
             PROVE  \E u \in Ready(occupied) : Target[u] = Target[t]
  BY <1>1
<1> DEFINE Rivals == {u \in pending \ Evicted : Target[u] = Target[t]}
<1>2. PICK u \in Rivals : \A v \in Rivals : place[u] =< place[v]
  <2>1. Rivals \in SUBSET pending /\ Rivals # {}
    BY <1>1
  <2> HIDE DEF Rivals
  <2> QED
    BY <2>1, FirstExists
<1> QED
  BY <1>2 DEF Ready

\* Whatever is left in the list after a tick waits for a target that is at work:
\* a busy target never holds up the triggers of another one (processTick).
THEOREM WorkConserving == Spec => NoHeadOfLineBlocking
<1> DEFINE Served == ~isTicking /\ (RunTick \/ \E i \in OutsideTurns : TurnEnds(i)) =>
             \A t \in pending' :
               Target[t] \in busy' \/ \E u \in inFlight' : Target[u] = Target[t]
<1>1. ASSUME IInv PROVE Served
  <2> SUFFICES ASSUME ~isTicking, RunTick \/ \E i \in OutsideTurns : TurnEnds(i),
                      NEW t \in pending'
               PROVE  Target[t] \in busy' \/ \E u \in inFlight' : Target[u] = Target[t]
    OBVIOUS
  <2>1. CASE RunTick
    <3>1. Evaluate(busy) /\ busy' = busy
      BY <2>1 DEF RunTick, TimerTick, EnqueueMicrotask, PendingTickMicrotask, ProcessTick
    <3> QED
      BY <1>1, <3>1, EvaluateConserves
  <2>2. ASSUME NEW i \in OutsideTurns, TurnEnds(i)
        PROVE  Target[t] \in busy' \/ \E u \in inFlight' : Target[u] = Target[t]
    <3>1. Evaluate(busy \ {i}) /\ busy' = busy \ {i}
      BY <2>2 DEF TurnEnds, ProcessTick
    <3> QED
      BY <1>1, <3>1, EvaluateConserves
  <2> QED
    BY <2>1, <2>2
<1>2. IInv /\ [Next]_vars => [Served]_vars
  BY <1>1
<1> QED
  BY <1>2, Invariance, PTL DEF Spec, NoHeadOfLineBlocking

-----------------------------------------------------------------------------
(* Refinement: the queue is one mailbox per target                         *)

Serving == [i \in Targets |-> ServedFor(i)]

\* What a target is working on is the trigger of it that is in flight.
LEMMA ServedFacts ==
  ASSUME OneInFlightPerTarget, inFlight \subseteq Trigger
  PROVE  /\ \A t \in inFlight : ServedFor(Target[t]) = t
         /\ \A i : (\A t \in inFlight : Target[t] # i) => ServedFor(i) = NoKey
<1>1. ASSUME NEW t \in inFlight PROVE ServedFor(Target[t]) = t
  <2>1. \A u \in inFlight : Target[u] = Target[t] => u = t
    BY DEF OneInFlightPerTarget
  <2> QED
    BY <2>1 DEF ServedFor
<1> QED
  BY <1>1 DEF ServedFor

\* The trigger that a tick dispatches for a target is the first admissible one in
\* the mailbox of that target.
LEMMA ReadyIsFirst ==
  ASSUME IInv, NEW occupied, NEW t \in Ready(occupied)
  PROVE  /\ t \in Mailboxes!Mailbox(Target[t]) \ Evicted
         /\ Mailboxes!First(Target[t], Evicted) = t
<1> DEFINE M == Mailboxes!Mailbox(Target[t]) \ Evicted
<1>1. \A u : u \in M <=> u \in pending \ Evicted /\ Target[u] = Target[t]
  BY DEF Mailboxes!Mailbox
<1>2. t \in M /\ Target[t] \notin occupied /\ \A u \in M : place[t] =< place[u]
  BY <1>1 DEF Ready
<1>3. \A u \in M : u \in pending /\ Target[u] = Target[t] /\ place[u] \in Int
  BY <1>1 DEF IInv, TypeOK
<1>4. \A u, v \in M : <<u, v>> \in Ahead <=> place[u] < place[v]
  BY <1>3 DEF Ahead
<1>5. \A u \in M : <<u, t>> \notin Ahead
  BY <1>2, <1>3, <1>4
<1>6. ASSUME NEW x \in M, \A u \in M : <<u, x>> \notin Ahead
      PROVE  x = t
  <2> HIDE DEF M
  <2>1. ~(place[t] < place[x])
    BY <1>2, <1>4, <1>6
  <2>2. \A u \in M : place[x] =< place[u]
    BY <1>2, <1>3, <2>1
  <2>3. x \in Ready(occupied)
    BY <1>1, <1>2, <2>2 DEF Ready
  <2> QED
    BY <1>3, <2>3, ReadyIsOldest
<1>7. Mailboxes!First(Target[t], Evicted) = CHOOSE x \in M : \A u \in M : <<u, x>> \notin Ahead
  BY DEF Mailboxes!First
<1> HIDE DEF M
<1>8. (CHOOSE x \in M : \A u \in M : <<u, x>> \notin Ahead) = t
  BY <1>2, <1>5, <1>6
<1> QED
  BY <1>2, <1>7, <1>8 DEF M

\* A tick discards what is not allowed and serves the idle targets.
LEMMA EvaluateMailboxes ==
  ASSUME IInv, OneInFlightPerTarget', NEW occupied, ~isTicking, Evaluate(occupied)
  PROVE  Mailboxes!Next
<1> DEFINE R == Ready(occupied)
           A == {Target[t] : t \in R}
<1>1. /\ inFlight = {} /\ inFlight' = R /\ pending' = pending \ (Evicted \cup R)
      /\ UNCHANGED <<place, arrival>>
  BY DEF Evaluate, IInv, BatchWithinTick
<1>2. R \subseteq pending /\ pending \subseteq Trigger /\ Evicted \subseteq pending
  BY DEF Ready, Evicted, IInv, TypeOK
<1>3. \A t \in R : /\ Target[t] \in A /\ Mailboxes!First(Target[t], Evicted) = t
                   /\ Mailboxes!Mailbox(Target[t]) \ Evicted # {}
  BY ReadyIsFirst
<1>4. A \in SUBSET Targets /\ Evicted \in SUBSET Enqueued
  BY <1>2 DEF Targets, IInv, Conservation
<1>5. \A i \in Targets : Serving[i] = NoKey
  BY <1>1 DEF Serving, ServedFor
<1>6. \A i \in Targets : Serving'[i] = IF i \in A THEN Mailboxes!First(i, Evicted) ELSE Serving[i]
  <2> SUFFICES ASSUME NEW i \in Targets
               PROVE  ServedFor(i)' = IF i \in A THEN Mailboxes!First(i, Evicted) ELSE NoKey
    BY <1>5 DEF Serving
  <2>1. inFlight' \subseteq Trigger
    BY <1>1, <1>2
  <2>2. /\ \A t \in inFlight' : ServedFor(Target[t])' = t
        /\ (\A t \in inFlight' : Target[t] # i) => ServedFor(i)' = NoKey
    <3>1. ASSUME NEW t \in inFlight' PROVE ServedFor(Target[t])' = t
      <4>1. \A u \in inFlight' : Target[u] = Target[t] => u = t
        BY DEF OneInFlightPerTarget
      <4> QED
        BY <4>1 DEF ServedFor
    <3> QED
      BY <3>1 DEF ServedFor
  <2> QED
    BY <1>1, <1>3, <2>2
<1>7. {Mailboxes!First(i, Evicted) : i \in A} = R
  BY <1>3
<1>8. Ahead' = Ahead \cap (pending' \X pending')
  BY <1>1 DEF Ahead
<1>9. \A i \in A : Mailboxes!Mailbox(i) \ Evicted # {}
  BY <1>3
<1> HIDE DEF A, R
<1>10. Serving' = [i \in Targets |-> IF i \in A THEN Mailboxes!First(i, Evicted) ELSE Serving[i]]
  BY <1>6 DEF Serving
<1>11. Mailboxes!Evaluate(Evicted, A)
  BY <1>1, <1>4, <1>5, <1>7, <1>8, <1>9, <1>10 DEF Mailboxes!Evaluate, Serving, Enqueued
<1> QED
  BY <1>4, <1>11 DEF Mailboxes!Next

\* enqueue submits.
LEMMA EnqueueMailboxes ==
  ASSUME IInv, NEW t \in Trigger, Enqueue(t)
  PROVE  Mailboxes!Next
<1>1. t \notin Enqueued /\ t \notin pending
  BY DEF Enqueue, Enqueued, IInv, Conservation
<1>2. /\ pending' = pending \cup {t} /\ inFlight' = inFlight
      /\ place' = [place EXCEPT ![t] = arrivals + 1]
      /\ arrival' = [arrival EXCEPT ![t] = arrivals + 1]
  BY DEF Enqueue
<1>3. /\ place \in [Trigger -> Int] /\ arrival \in [Trigger -> Nat] /\ arrivals \in Nat
      /\ pending \subseteq Trigger
  BY DEF IInv, TypeOK
<1>4. Enqueued' = Enqueued \cup {t}
  BY <1>2, <1>3 DEF Enqueued
<1>5. Serving' = Serving
  BY <1>2 DEF Serving, ServedFor
<1>6. /\ \A u \in pending : place'[u] = place[u] /\ place[u] \in Int /\ place[u] < arrivals + 1
      /\ place'[t] = arrivals + 1
  BY <1>1, <1>2, <1>3 DEF IInv, Numbering
<1>7. Ahead' = Ahead \cup (Mailboxes!Mailbox(Target[t]) \X {t})
  <2>1. \A u, v \in pending : place'[u] < place'[v] <=> place[u] < place[v]
    BY <1>6
  <2>2. \A u \in pending' : place'[u] \in Int /\ ~(place'[t] < place'[u])
    BY <1>2, <1>3, <1>6
  <2>3. \A u \in pending : place'[u] < place'[t]
    BY <1>6
  <2>4. ASSUME NEW p \in Ahead' PROVE p \in Ahead \cup (Mailboxes!Mailbox(Target[t]) \X {t})
    BY <1>2, <2>1, <2>2, <2>4 DEF Ahead, Mailboxes!Mailbox
  <2>5. ASSUME NEW p \in Ahead PROVE p \in Ahead'
    BY <1>2, <2>1, <2>5 DEF Ahead
  <2>6. ASSUME NEW p \in Mailboxes!Mailbox(Target[t]) \X {t} PROVE p \in Ahead'
    BY <1>2, <2>3, <2>6 DEF Ahead, Mailboxes!Mailbox
  <2> QED
    BY <2>4, <2>5, <2>6
<1>8. Mailboxes!Submit(t)
  BY <1>1, <1>2, <1>4, <1>5, <1>7 DEF Mailboxes!Submit, Serving
<1> QED
  BY <1>8 DEF Mailboxes!Next

\* The end of a dispatch is the end of the service of its target.
LEMMA FlightEnds ==
  ASSUME IInv, NEW t \in inFlight, inFlight' = inFlight \ {t}
  PROVE  /\ Target[t] \in Targets /\ Serving[Target[t]] = t /\ t # NoKey
         /\ Serving' = [Serving EXCEPT ![Target[t]] = NoKey]
<1>1. inFlight \subseteq Trigger /\ OneInFlightPerTarget /\ Target[t] \in Targets
  BY DEF IInv, TypeOK, Targets
<1>2. Serving[Target[t]] = t /\ t # NoKey
  BY <1>1, ServedFacts, IdentAssumption DEF Serving
<1>3. ASSUME NEW i \in Targets
      PROVE  Serving'[i] = IF i = Target[t] THEN NoKey ELSE Serving[i]
  <2>1. CASE i = Target[t]
    <3>1. \A u \in inFlight' : Target[u] # i
      BY <2>1 DEF IInv, OneInFlightPerTarget
    <3> QED
      BY <2>1, <3>1 DEF Serving, ServedFor
  <2>2. CASE i # Target[t]
    <3>1. \A u : (u \in inFlight' /\ Target[u] = i) <=> (u \in inFlight /\ Target[u] = i)
      BY <2>2
    <3>2. ServedFor(i)' = ServedFor(i)
      BY <3>1 DEF ServedFor
    <3> QED
      BY <2>2, <3>2 DEF Serving
  <2> QED
    BY <2>1, <2>2
<1>4. Serving' = [Serving EXCEPT ![Target[t]] = NoKey]
  <2>1. Serving = [i \in Targets |-> Serving[i]] /\ Serving' = [i \in Targets |-> Serving'[i]]
    BY DEF Serving
  <2> QED
    BY <1>1, <1>3, <2>1
<1> QED
  BY <1>1, <1>2, <1>4

LEMMA SettleMailboxes ==
  ASSUME IInv, NEW t \in Trigger, Settle(t)
  PROVE  Mailboxes!Next
<1>1. /\ Target[t] \in Targets /\ Serving[Target[t]] = t /\ t # NoKey
      /\ Serving' = [Serving EXCEPT ![Target[t]] = NoKey]
  BY FlightEnds DEF Settle
<1>2. Enqueued' = Enqueued /\ pending' = pending /\ Ahead' = Ahead
  BY DEF Settle, Enqueued, Ahead
<1>3. Mailboxes!Finish(Target[t])
  BY <1>1, <1>2 DEF Mailboxes!Finish, Serving
<1> QED
  BY <1>1, <1>3 DEF Mailboxes!Next

\* #reinsertAtHead puts back.
LEMMA RefuseMailboxes ==
  ASSUME IInv, NEW t \in Trigger, Refuse(t)
  PROVE  Mailboxes!Next
<1>1. /\ Target[t] \in Targets /\ Serving[Target[t]] = t /\ t # NoKey
      /\ Serving' = [Serving EXCEPT ![Target[t]] = NoKey]
  BY FlightEnds DEF Refuse
<1>2. /\ pending' = pending \cup {t} /\ place' = [place EXCEPT ![t] = front - 1]
      /\ Enqueued' = Enqueued /\ t \notin pending
  BY DEF Refuse, history, Enqueued, IInv, Conservation
<1>3. place \in [Trigger -> Int] /\ front \in Int /\ pending \subseteq Trigger
  BY DEF IInv, TypeOK
<1>4. /\ \A u \in pending : place'[u] = place[u] /\ place[u] \in Int /\ front - 1 < place[u]
      /\ place'[t] = front - 1
  BY <1>2, <1>3 DEF IInv, Numbering
<1>5. Ahead' = Ahead \cup ({t} \X Mailboxes!Mailbox(Target[t]))
  <2>1. \A u, v \in pending : place'[u] < place'[v] <=> place[u] < place[v]
    BY <1>4
  <2>2. \A u \in pending' : place'[u] \in Int /\ ~(place'[u] < place'[t])
    BY <1>2, <1>3, <1>4
  <2>3. \A u \in pending : place'[t] < place'[u]
    BY <1>4
  <2>4. ASSUME NEW p \in Ahead' PROVE p \in Ahead \cup ({t} \X Mailboxes!Mailbox(Target[t]))
    BY <1>2, <2>1, <2>2, <2>4 DEF Ahead, Mailboxes!Mailbox
  <2>5. ASSUME NEW p \in Ahead PROVE p \in Ahead'
    BY <1>2, <2>1, <2>5 DEF Ahead
  <2>6. ASSUME NEW p \in {t} \X Mailboxes!Mailbox(Target[t]) PROVE p \in Ahead'
    BY <1>2, <2>3, <2>6 DEF Ahead, Mailboxes!Mailbox
  <2> QED
    BY <2>4, <2>5, <2>6
<1>6. Mailboxes!PutBack(Target[t])
  BY <1>1, <1>2, <1>5 DEF Mailboxes!PutBack, Serving
<1> QED
  BY <1>1, <1>6 DEF Mailboxes!Next

\* clear discards all that waits.
LEMMA ClearMailboxes ==
  ASSUME IInv, Clear \/ Dispose
  PROVE  Mailboxes!Next
<1>1. pending' = {} /\ UNCHANGED <<place, arrival, inFlight>>
  BY DEF Clear, Dispose, ClearList
<1>2. Enqueued' = Enqueued /\ Serving' = Serving /\ Ahead' = {} /\ pending \in SUBSET Enqueued
  BY <1>1 DEF Enqueued, Serving, ServedFor, Ahead, IInv, Conservation
<1>3. Serving' = [i \in Targets |-> IF i \in {} THEN Mailboxes!First(i, pending) ELSE Serving[i]]
  BY <1>2 DEF Serving
<1>4. Mailboxes!Evaluate(pending, {})
  BY <1>1, <1>2, <1>3 DEF Mailboxes!Evaluate, Serving
<1> QED
  BY <1>2, <1>4 DEF Mailboxes!Next

\* Every step of the queue is a step of the mailboxes, or leaves them alone.
LEMMA MailboxStep ==
  ASSUME IInv, OneInFlightPerTarget', [Next]_vars
  PROVE  Mailboxes!Next \/ UNCHANGED Mailboxes!vars
<1>1. UNCHANGED <<pending, place, inFlight, arrival>> => UNCHANGED Mailboxes!vars
  BY DEF Mailboxes!vars, Enqueued, Ahead, ServedFor
<1>2. ASSUME NEW occupied, ProcessTick(occupied)
      PROVE  Mailboxes!Next \/ UNCHANGED Mailboxes!vars
  BY <1>1, <1>2, EvaluateMailboxes DEF ProcessTick, list, history
<1>3. CASE RunTick
  BY <1>2, <1>3 DEF RunTick, TimerTick, EnqueueMicrotask, PendingTickMicrotask
<1>4. CASE FinishBatch \/ StartProcessing \/ StopProcessing
  BY <1>1, <1>4 DEF FinishBatch, StartProcessing, StopProcessing, list, history
<1>5. ASSUME NEW t \in Trigger, Enqueue(t) \/ Settle(t) \/ Refuse(t)
      PROVE  Mailboxes!Next
  BY <1>5, EnqueueMailboxes, SettleMailboxes, RefuseMailboxes
<1>6. CASE Clear \/ Dispose
  BY <1>6, ClearMailboxes
<1>7. ASSUME NEW i \in OutsideTurns, TurnStarts(i) \/ TurnEnds(i)
      PROVE  Mailboxes!Next \/ UNCHANGED Mailboxes!vars
  BY <1>1, <1>2, <1>7 DEF TurnStarts, TurnEnds, list, history
<1>8. ASSUME NEW k \in Volatile, Register(k) \/ Unregister(k)
      PROVE  UNCHANGED Mailboxes!vars
  BY <1>1, <1>8 DEF Register, Unregister, list, history
<1>9. CASE UNCHANGED vars
  BY <1>1, <1>9 DEF vars, list, history
<1> QED
  BY <1>3, <1>4, <1>5, <1>6, <1>7, <1>8, <1>9 DEF Next

\* The queue implements one mailbox for each target: with all its ticks, batches,
\* deferrals and re-insertions, an agent sees its triggers one at a time and in
\* order of arrival, and a refused one is the next again
\* (processTick, #reinsertAtHead, enqueue, clear).
THEOREM QueueKeepsMailboxes == Spec => ImplementsMailboxes
<1>1. Init => Mailboxes!Init
  BY DEF Init, Mailboxes!Init, Enqueued, Ahead, ServedFor
<1>2. IInv /\ IInv' /\ [Next]_vars => [Mailboxes!Next]_(Mailboxes!vars)
  BY MailboxStep DEF IInv
<1> QED
  BY <1>1, <1>2, Invariance, PTL DEF Spec, ImplementsMailboxes, Mailboxes!Spec
=============================================================================
