---------------------------- MODULE TriggerQueue ----------------------------
(***************************************************************************)
(* The central trigger queue of the sandbox engine                         *)
(* (src/lib/sandbox/triggerQueue/index.ts).                                *)
(*                                                                         *)
(* Every activation of an agent (mail, schedule, user turn, invocation) is *)
(* a trigger.  enqueue appends it to the pending list and asks for a tick; *)
(* a tick takes the whole list as a snapshot, drops what Realm confinement *)
(* forbids, dispatches at most one trigger per idle target, puts the rest  *)
(* back and then waits until EVERY dispatched trigger has settled.  Ticks  *)
(* that are asked for meanwhile are coalesced in hasPendingTick.           *)
(*                                                                         *)
(* Only the relative order of the triggers of one target can be observed,  *)
(* so the pending list is the set pending with a place for each element:   *)
(* a smaller place is nearer the head of the list.                         *)
(*                                                                         *)
(* A definition whose name ends in _Fault is a seeded fault: the form of   *)
(* the definition after it that a plausible slip in the code would have.   *)
(* It is used by no specification; README.md says which property finds it. *)
(***************************************************************************)
EXTENDS Integers

CONSTANTS
  Trigger,     \* trigger records that may be enqueued, each at most once
  Key,         \* canonical identity keys an agent can be registered under
  Bare,        \* other identifiers: bare agent ids and system labels
  NoKey,       \* absence of a key
  NoRealm,     \* scope of an agent that belongs to no Realm
  Bypass,      \* scope of an agent with realmBypass
  Realm,       \* ordinary Realms
  BareOf,      \* BareOf[k]: bare id of the agent registered under k
  RealmOf,     \* RealmOf[k]: Realm, NoRealm or Bypass
  Target,      \* Target[t]: the identifier the trigger is addressed to
  Source,      \* Source[t]: its source identifier
  SourceKey,   \* SourceKey[t]: the sourceKey passed to enqueue, or NoKey
  AutoStart,   \* options.autoStart: does the constructor start the timer?
  Volatile,    \* bound: keys whose registration comes and goes
  OutsideTurns,\* bound: targets that also run turns this queue did not dispatch
  MaxRetries   \* bound: how often dispatches resolve false, in all

Ident == Key \cup Bare

ASSUME IdentAssumption ==
  /\ Key \cap Bare = {}
  /\ NoKey \notin Ident \cup Trigger
  /\ {NoRealm, Bypass} \cap Realm = {}
  /\ NoRealm # Bypass
  /\ BareOf \in [Key -> Bare]
  /\ RealmOf \in [Key -> Realm \cup {NoRealm, Bypass}]

ASSUME TriggerAssumption ==
  /\ Target \in [Trigger -> Ident]
  /\ Source \in [Trigger -> Ident]
  /\ SourceKey \in [Trigger -> Key \cup {NoKey}]

ASSUME BoundAssumption ==
  /\ AutoStart \in BOOLEAN
  /\ Volatile \subseteq Key
  /\ OutsideTurns \subseteq Ident
  /\ MaxRetries \in Nat

VARIABLES
  pending,            \* elements of #pendingQueue
  place,              \* their order in #pendingQueue
  front,              \* a place before every other: where #reinsertAtHead puts
  inFlight,           \* triggers whose dispatchAction promise has not settled
  sourceKeys,         \* triggers with an entry in #sourceKeys
  isTicking,          \* #isTicking
  hasPendingTick,     \* #hasPendingTick
  microtaskScheduled, \* #microtaskScheduled: enqueue's microtask is queued
  tickQueued,         \* the microtask of processTick's finally is queued
  isProcessing,       \* #isProcessing: the interval timer is armed
  registry,           \* keys the identity port resolves at this moment
  busy,               \* targets for which isAgentBusy answers true
  arrivals,           \* history: number of triggers enqueued so far
  arrival,            \* history: arrival number, 0 before enqueue
  settled,            \* history: dispatched and settled for good
  dropped,            \* history: dropped by Realm confinement
  cleared             \* history: discarded by clear

list    == <<pending, place, front, inFlight, sourceKeys>>
ticks   == <<isTicking, hasPendingTick, microtaskScheduled, tickQueued>>
history == <<arrivals, arrival, settled, dropped, cleared>>
vars    == <<list, ticks, isProcessing, registry, busy, history>>

Enqueued == {t \in Trigger : arrival[t] > 0}

TypeOK ==
  /\ pending \subseteq Trigger
  /\ place \in [Trigger -> Int]
  /\ front \in Int
  /\ inFlight \subseteq Trigger
  /\ sourceKeys \subseteq Trigger
  /\ isTicking \in BOOLEAN
  /\ hasPendingTick \in BOOLEAN
  /\ microtaskScheduled \in BOOLEAN
  /\ tickQueued \in BOOLEAN
  /\ isProcessing \in BOOLEAN
  /\ registry \subseteq Key
  /\ busy \subseteq OutsideTurns
  /\ arrivals \in Nat
  /\ arrival \in [Trigger -> Nat]
  /\ settled \subseteq Trigger
  /\ dropped \subseteq Trigger
  /\ cleared \subseteq Trigger

Init ==
  /\ pending = {}
  /\ place = [t \in Trigger |-> 0]
  /\ front = 0
  /\ inFlight = {}
  /\ sourceKeys = {}
  /\ isTicking = FALSE
  /\ hasPendingTick = FALSE
  /\ microtaskScheduled = FALSE
  /\ tickQueued = FALSE
  /\ isProcessing = AutoStart
  /\ registry = Key
  /\ busy = {}
  /\ arrivals = 0
  /\ arrival = [t \in Trigger |-> 0]
  /\ settled = {}
  /\ dropped = {}
  /\ cleared = {}

-----------------------------------------------------------------------------
(* Identity resolution and Realm confinement                               *)

\* The registrations an identifier may denote: an exact key wins, a bare id
\* denotes every registration that carries it.
Denotes(i) == IF i \in registry THEN {i} ELSE {k \in registry : BareOf[k] = i}

\* The one registration an identifier resolves to; an identifier that denotes
\* none, or more than one, resolves to nothing.
Resolve(i) ==
  IF \E k \in Denotes(i) : Denotes(i) = {k}
  THEN CHOOSE k \in Denotes(i) : TRUE
  ELSE NoKey

\* The side-car is not consulted.
ResolveSource_Fault(t, keyed) == Resolve(Source[t])

\* The explicit sourceKey comes first, then the source as it was received.
ResolveSource(t, keyed) ==
  IF keyed /\ SourceKey[t] \in registry THEN SourceKey[t] ELSE Resolve(Source[t])

\* Is the dispatch of t within its source's Realm, given whether the source key
\* is still known?
Confined(t, keyed) ==
  LET src == ResolveSource(t, keyed)
      tgt == Resolve(Target[t])
  IN  \/ src = NoKey
      \/ RealmOf[src] \in {NoRealm, Bypass}
      \/ Target[t] = Source[t]
      \/ keyed /\ Target[t] = SourceKey[t]
      \/ /\ tgt # NoKey
         /\ tgt = src \/ RealmOf[tgt] \in {Bypass, RealmOf[src]}

\* #isRealmDispatchAllowed consults the side-car #sourceKeys.
Allowed(t) == Confined(t, t \in sourceKeys)

-----------------------------------------------------------------------------
(* Ticks                                                                   *)

Evicted == {t \in pending : ~Allowed(t)}

\* The loop stops at the first trigger of an occupied target.
ReadyBlocked_Fault(occupied) ==
  {t \in pending \ Evicted :
     /\ \A u \in pending : Target[u] \notin occupied
     /\ \A u \in pending \ Evicted :
          Target[u] = Target[t] => place[t] =< place[u]}

\* The triggers a tick dispatches: the first admissible one of each target that
\* is not occupied.
Ready(occupied) ==
  {t \in pending \ Evicted :
     /\ Target[t] \notin occupied
     /\ \A u \in pending \ Evicted :
          Target[u] = Target[t] => place[t] =< place[u]}

Evaluate(occupied) ==
  /\ pending' = pending \ (Evicted \cup Ready(occupied))
  /\ inFlight' = Ready(occupied)
  /\ isTicking' = (Ready(occupied) # {})
  /\ sourceKeys' = sourceKeys \ Evicted
  /\ dropped' = dropped \cup Evicted
  /\ UNCHANGED <<place, front, hasPendingTick, arrivals, arrival, settled, cleared>>

\* A tick that finds another one in progress is lost.
ProcessTick_Fault(occupied) ==
  \/ /\ isTicking
     /\ UNCHANGED <<list, isTicking, hasPendingTick, history>>
  \/ /\ ~isTicking
     /\ Evaluate(occupied)

\* A tick that finds another one in progress only leaves a note for it.
ProcessTick(occupied) ==
  \/ /\ isTicking
     /\ hasPendingTick' = TRUE
     /\ UNCHANGED <<list, isTicking, history>>
  \/ /\ ~isTicking
     /\ Evaluate(occupied)

\* The note of a coalesced tick is not taken down.
FinishBatchNote_Fault ==
  /\ isTicking /\ inFlight = {}
  /\ isTicking' = FALSE
  /\ tickQueued' = (tickQueued \/ hasPendingTick)
  /\ UNCHANGED <<list, hasPendingTick, microtaskScheduled, isProcessing, registry, busy,
                 history>>

\* isTicking is not reset.
FinishBatchStuck_Fault ==
  /\ isTicking /\ inFlight = {} /\ hasPendingTick
  /\ hasPendingTick' = FALSE
  /\ tickQueued' = TRUE
  /\ UNCHANGED <<list, isTicking, microtaskScheduled, isProcessing, registry, busy,
                 history>>

\* The finally clause, once every dispatch of the batch has settled.
FinishBatch ==
  /\ isTicking /\ inFlight = {}
  /\ isTicking' = FALSE
  /\ hasPendingTick' = FALSE
  /\ tickQueued' = (tickQueued \/ hasPendingTick)
  /\ UNCHANGED <<list, microtaskScheduled, isProcessing, registry, busy, history>>

\* Whatever can run a tick: the interval timer, the microtask of enqueue, the
\* microtask of the finally clause, and the turn engine after a turn.
TimerTick ==
  /\ isProcessing
  /\ ProcessTick(busy)
  /\ UNCHANGED <<microtaskScheduled, tickQueued, isProcessing, registry, busy>>

EnqueueMicrotask ==
  /\ microtaskScheduled
  /\ microtaskScheduled' = FALSE
  /\ ProcessTick(busy)
  /\ UNCHANGED <<tickQueued, isProcessing, registry, busy>>

PendingTickMicrotask ==
  /\ tickQueued
  /\ tickQueued' = FALSE
  /\ ProcessTick(busy)
  /\ UNCHANGED <<microtaskScheduled, isProcessing, registry, busy>>

\* A turn that did not come from this queue ends: its agent is idle again and
\* the turn engine calls processTick.
TurnEnds(i) ==
  /\ i \in busy
  /\ busy' = busy \ {i}
  /\ ProcessTick(busy \ {i})
  /\ UNCHANGED <<microtaskScheduled, tickQueued, isProcessing, registry>>

-----------------------------------------------------------------------------
(* Operations and settlements                                              *)

\* enqueue: append, remember the source key, ask for one coalesced tick.
Enqueue(t) ==
  /\ arrival[t] = 0
  /\ arrivals' = arrivals + 1
  /\ arrival' = [arrival EXCEPT ![t] = arrivals + 1]
  /\ pending' = pending \cup {t}
  /\ place' = [place EXCEPT ![t] = arrivals + 1]
  /\ sourceKeys' = IF SourceKey[t] = NoKey THEN sourceKeys ELSE sourceKeys \cup {t}
  /\ microtaskScheduled' = TRUE
  /\ UNCHANGED <<front, inFlight, isTicking, hasPendingTick, tickQueued, isProcessing,
                 registry, busy, settled, dropped, cleared>>

\* dispatchAction resolves anything but false, or rejects: the trigger is over.
Settle(t) ==
  /\ t \in inFlight
  /\ inFlight' = inFlight \ {t}
  /\ settled' = settled \cup {t}
  /\ sourceKeys' = sourceKeys \ {t}
  /\ UNCHANGED <<pending, place, front, ticks, isProcessing, registry, busy,
                 arrivals, arrival, dropped, cleared>>

\* A refused trigger goes to the end of the list.
Refuse_Fault(t) ==
  /\ t \in inFlight
  /\ front > -MaxRetries
  /\ front' = front - 1
  /\ inFlight' = inFlight \ {t}
  /\ pending' = pending \cup {t}
  /\ place' = [place EXCEPT ![t] = arrivals + 1]
  /\ UNCHANGED <<sourceKeys, ticks, isProcessing, registry, busy, history>>

\* dispatchAction resolves false: #reinsertAtHead puts the trigger before every
\* pending trigger of its target.
Refuse(t) ==
  /\ t \in inFlight
  /\ front > -MaxRetries
  /\ front' = front - 1
  /\ inFlight' = inFlight \ {t}
  /\ pending' = pending \cup {t}
  /\ place' = [place EXCEPT ![t] = front - 1]
  /\ UNCHANGED <<sourceKeys, ticks, isProcessing, registry, busy, history>>

StartProcessing ==
  /\ ~isProcessing
  /\ isProcessing' = TRUE
  /\ UNCHANGED <<list, ticks, registry, busy, history>>

StopProcessing ==
  /\ isProcessing
  /\ isProcessing' = FALSE
  /\ UNCHANGED <<list, ticks, registry, busy, history>>

\* clear forgets what is pending; a batch in flight goes on.
ClearList ==
  /\ pending' = {}
  /\ sourceKeys' = {}
  /\ cleared' = cleared \cup pending

Clear ==
  /\ ClearList
  /\ UNCHANGED <<place, front, inFlight, ticks, isProcessing, registry, busy,
                 arrivals, arrival, settled, dropped>>

Dispose ==
  /\ ClearList
  /\ isProcessing' = FALSE
  /\ UNCHANGED <<place, front, inFlight, ticks, registry, busy,
                 arrivals, arrival, settled, dropped>>

-----------------------------------------------------------------------------
(* The environment: turns that start outside the queue, and registrations  *)

TurnStarts(i) ==
  /\ i \notin busy
  /\ busy' = busy \cup {i}
  /\ UNCHANGED <<list, ticks, isProcessing, registry, history>>

Register(k) ==
  /\ k \notin registry
  /\ registry' = registry \cup {k}
  /\ UNCHANGED <<list, ticks, isProcessing, busy, history>>

Unregister(k) ==
  /\ k \in registry
  /\ registry' = registry \ {k}
  /\ UNCHANGED <<list, ticks, isProcessing, busy, history>>

-----------------------------------------------------------------------------
RunTick == TimerTick \/ EnqueueMicrotask \/ PendingTickMicrotask

Next ==
  \/ RunTick
  \/ FinishBatch
  \/ \E t \in Trigger : Enqueue(t) \/ Settle(t) \/ Refuse(t)
  \/ StartProcessing \/ StopProcessing \/ Clear \/ Dispose
  \/ \E i \in OutsideTurns : TurnStarts(i) \/ TurnEnds(i)
  \/ \E k \in Volatile : Register(k) \/ Unregister(k)

\* The event loop runs every queued microtask and an armed interval timer, and
\* a dispatched turn settles.  Nothing is assumed of busy targets.
Fairness ==
  /\ WF_vars(TimerTick)
  /\ WF_vars(EnqueueMicrotask)
  /\ WF_vars(PendingTickMicrotask)
  /\ WF_vars(FinishBatch)
  /\ \A t \in Trigger : WF_vars(Settle(t))

Spec == Init /\ [][Next]_vars /\ Fairness

-----------------------------------------------------------------------------
(* Properties                                                              *)

\* A target never has two dispatches of the queue in flight: a batch holds at
\* most one trigger for each target string (processTick, busyAgentsThisTick).
OneInFlightPerTarget ==
  \A t, u \in inFlight : Target[t] = Target[u] => t = u

\* Strict FIFO for one target: whatever is still pending arrived after
\* everything already dispatched, through batches, deferrals of a busy target,
\* refused dispatches put back at the head, and arrivals during a batch.
IntraAgentFIFO ==
  \A t \in inFlight \cup settled, u \in pending :
    Target[t] = Target[u] => arrival[t] < arrival[u]

\* No trigger is lost or handled twice: each enqueued one is in exactly one of
\* the list, the batch, and the three ways of leaving the queue.
Conservation ==
  /\ pending \cup inFlight \cup settled \cup dropped \cup cleared = Enqueued
  /\ pending \cap inFlight = {}
  /\ settled \cap (pending \cup inFlight) = {}
  /\ dropped \cap (pending \cup inFlight \cup settled) = {}
  /\ cleared \cap (pending \cup inFlight \cup settled \cup dropped) = {}

\* A batch in flight belongs to a tick in progress, and only such a tick can be
\* told to run again: no wake-up is recorded where nobody will read it.
BatchWithinTick ==
  /\ inFlight # {} => isTicking
  /\ hasPendingTick => isTicking

\* The side-car of source keys holds live triggers only: every way of leaving
\* the queue also removes the trigger's entry.
SideCarIsLive == sourceKeys \subseteq pending \cup inFlight

\* The order of the list and the order of arrival.  front is before the whole
\* list; of one target the earlier arrival has the smaller place; and what was
\* settled arrived before what is now in flight.  This is what makes
\* IntraAgentFIFO inductive: a refused trigger may go to the head only because
\* it is older than everything its target has pending.
Numbering ==
  /\ front =< 0
  /\ \A t \in Trigger : arrival[t] =< arrivals
  /\ \A t, u \in Enqueued : arrival[t] = arrival[u] => t = u
  /\ \A t \in pending : front =< place[t] /\ place[t] =< arrivals
  /\ \A t, u \in pending :
       Target[t] = Target[u] /\ place[t] =< place[u] => arrival[t] =< arrival[u]
  /\ \A t \in settled, u \in inFlight :
       Target[t] = Target[u] => arrival[t] < arrival[u]

\* The inductive invariant.
IInv ==
  /\ TypeOK
  /\ Conservation
  /\ BatchWithinTick
  /\ SideCarIsLive
  /\ Numbering
  /\ OneInFlightPerTarget
  /\ IntraAgentFIFO

-----------------------------------------------------------------------------
(* Refinement: one mailbox per target                                      *)

Targets == {Target[t] : t \in Trigger}

\* Who waits before whom.
Ahead ==
  {p \in pending \X pending : Target[p[1]] = Target[p[2]] /\ place[p[1]] < place[p[2]]}

\* At most one trigger of a target is in flight (OneInFlightPerTarget).
ServedFor(i) ==
  IF \E t \in inFlight : Target[t] = i
  THEN CHOOSE t \in inFlight : Target[t] = i
  ELSE NoKey

Mailboxes == INSTANCE AgentMailboxes WITH
  Agent     <- Targets,
  Recipient <- Target,
  Nobody    <- NoKey,
  submitted <- Enqueued,
  waiting   <- pending,
  ahead     <- Ahead,
  serving   <- [i \in Targets |-> ServedFor(i)]

\* The queue keeps the promise of AgentMailboxes: every target sees a mailbox
\* served one trigger at a time in order of arrival (#reinsertAtHead,
\* processTick, enqueue).
ImplementsMailboxes == Mailboxes!Spec

-----------------------------------------------------------------------------
(* Actions and progress                                                    *)

\* Busy-agent isolation: a tick leaves nothing behind for an idle target unless
\* an earlier trigger of that same target is in the batch it has dispatched
\* (processTick: the loop never stops at a busy target).
NoHeadOfLineBlocking ==
  [][~isTicking /\ (RunTick \/ \E i \in OutsideTurns : TurnEnds(i)) =>
       \A t \in pending' :
         Target[t] \in busy' \/ \E u \in inFlight' : Target[u] = Target[t]]_vars

\* Realm-confined dispatch: a trigger that was enqueued with the key of a
\* registered agent of some Realm enters a batch only if it is addressed to that
\* agent, to another one of the Realm, or to one that bypasses Realms.  Only a
\* refused trigger whose key clear() forgot while it was in flight is exempt.
RealmConfinement ==
  [][\A t \in inFlight' \ inFlight :
       LET k == SourceKey[t]
       IN  (place[t] > 0 \/ t \in sourceKeys) /\ k \in registry /\ RealmOf[k] \in Realm =>
             \/ Target[t] \in {k, Source[t]}
             \/ /\ Resolve(Target[t]) # NoKey
                /\ RealmOf[Resolve(Target[t])] \in {RealmOf[k], Bypass}]_vars

\* While the timer is armed a pending trigger does not wait for ever on an idle
\* target, whatever other targets do.
NoStarvation ==
  \A t \in Trigger : []<>(t \in pending => Target[t] \in busy \/ ~isProcessing)

\* Without any timer no wake-up is lost either: the microtask of enqueue, the
\* note left by a coalesced tick and the tick at the end of a turn suffice to
\* dispatch the first trigger of every target.  Only a dispatch that was refused
\* asks for no tick.
NoLostWakeup ==
  \A t \in Trigger :
    []<>(t \in pending => \/ Target[t] \in busy
                          \/ \E u \in settled : Target[u] = Target[t]
                          \/ \E u \in Trigger : Target[u] = Target[t] /\ place[u] < 0)
=============================================================================
