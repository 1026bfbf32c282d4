-------------------------- MODULE InvocationEngine --------------------------
(***************************************************************************)
(* Direct calls from agent to agent                                        *)
(* (src/lib/sandbox/invocationEngine/index.ts).                            *)
(*                                                                         *)
(* invokeAgent files a record in #activeInvocations and queues a           *)
(* microtask, which runs a turn of the target through the injected         *)
(* executeTurn.  Four things race to settle the record: the result of the  *)
(* turn, the timeout of the call, the cancellation that comes with the     *)
(* death of one of the two agents, and reset.  Meanwhile waitForInvocation *)
(* waits for completion events, for its own timer or for an abort signal.  *)
(*                                                                         *)
(* An invocation id is a fresh UUID; here it is the number of the call, so *)
(* that the insertion order of the ledgers is the order of the numbers.    *)
(* 0 is an id that no call has.  What a turn is asked and what it answers  *)
(* are left out.                                                           *)
(*                                                                         *)
(* A definition whose name ends in _Fault is a seeded fault, as in         *)
(* TriggerQueue.                                                           *)
(***************************************************************************)
EXTENDS Integers

CONSTANTS
  Key,            \* canonical identity keys of agents
  Bare,           \* bare, realm-local agent ids
  NoKey,          \* absence of a key
  NoRealm, Bypass,\* scope of an agent without Realm, and with realmBypass
  Realm,          \* ordinary Realms
  BareOf,         \* BareOf[k]: bare id of agent k
  RealmOf,        \* RealmOf[k]: Realm, NoRealm or Bypass
  Sudoers,        \* agents that hold '*' or '@lifecycle:authority'
  SpawnedBy,      \* SpawnedBy[k]: reference to the creator of k, or NoKey
  Host,           \* the caller of an await outside any agent
  Call,           \* calls that are made: records [from, to, timed]
  Wait,           \* awaits, each made once
  AwaitCaller,    \* who awaits: references, or Host
  Mortal,         \* bound: agents that may die; a restored agent has lost
                  \* its grants, so these have none to begin with
  MaxDepth,       \* MAX_INVOCATION_DEPTH, 5 in the code
  MaxCalls,       \* bound: accepted calls
  MaxDeaths,      \* bound: kills
  MaxResets       \* bound: resets

Ident == Key \cup Bare
Id    == 1..MaxCalls

ASSUME AgentAssumption ==
  /\ Key \cap Bare = {}
  /\ {NoKey, Host} \cap Ident = {}
  /\ BareOf \in [Key -> Bare]
  /\ RealmOf \in [Key -> Realm \cup {NoRealm, Bypass}]
  /\ NoRealm # Bypass /\ {NoRealm, Bypass} \cap Realm = {}
  /\ Sudoers \subseteq Key
  /\ SpawnedBy \in [Key -> Ident \cup {NoKey}]
  /\ Mortal \subseteq Key \ Sudoers
  /\ \A k \in Mortal : RealmOf[k] # Bypass

ASSUME CallAssumption ==
  /\ Call \subseteq [from : Ident, to : Ident, timed : BOOLEAN]
  /\ AwaitCaller \subseteq Ident \cup {Host}
  /\ MaxDepth \in Nat \ {0}
  /\ {MaxCalls, MaxDeaths, MaxResets} \subseteq Nat

Open     == {"pending", "running"}
Terminal == {"completed", "error", "timed_out", "cancelled"}
NoStatus == "none"

VARIABLES
  issued,         \* ids 1..issued have been given out
  call,           \* call[i]: the accepted call, with its depth; parent and
                  \* parties are history: the calling call and the two agents
  status,         \* status[i]: status of the record the closures share
  active,         \* keys of #activeInvocations
  ledger,         \* #invocationHistory: status of the stored copy, or NoStatus
  microtasks,     \* calls whose queueMicrotask callback has not run
  turns,          \* calls whose executeTurn promise is not settled
  timers,         \* armed per-call timeouts
  settled,        \* calls whose isSettled is true
  controls,       \* keys of #dispatchControls
  lastEvent,      \* lastEvent[i]: last event emitted for i
  completions,    \* history: number of completion events for i
  wait,           \* wait[w]: state of one waitForInvocation call
  listeners,      \* awaits subscribed to #completeListeners
  pendingWaiters, \* #pendingWaiters: awaits filed under each id
  aborted,        \* awaits whose AbortSignal has fired
  registry,       \* agents that are alive; the others are in the recycle bin
  deaths,         \* history: kills so far
  resets          \* history: resets so far

records  == <<issued, call, status, active, ledger>>
dispatch == <<microtasks, turns, timers, settled, controls>>
events   == <<lastEvent, completions>>
awaits   == <<wait, listeners, pendingWaiters>>
agents   == <<registry, deaths>>
vars     == <<records, dispatch, events, awaits, aborted, agents, resets>>

NoCall == [from |-> NoKey, to |-> NoKey, timed |-> FALSE,
           shown |-> {}, parties |-> {}, depth |-> 0, parent |-> 0]

NoWait == [outcome |-> "idle", ids |-> {}, all |-> TRUE, got |-> {}, by |-> Host]

Await == [outcome : {"idle", "pending", "ready", "timed_out", "aborted", "denied", "invalid"},
          ids : SUBSET (0..MaxCalls), all : BOOLEAN, got : SUBSET (0..MaxCalls),
          by : Ident \cup {Host}]

TypeOK ==
  /\ issued \in 0..MaxCalls
  /\ call \in [Id -> [from : Ident \cup {NoKey}, to : Ident \cup {NoKey}, timed : BOOLEAN,
                      shown : SUBSET Ident, parties : SUBSET (Key \cup {NoKey}),
                      depth : 0..MaxDepth, parent : 0..MaxCalls]]
  /\ status \in [Id -> Open \cup Terminal \cup {NoStatus}]
  /\ active \subseteq Id
  /\ ledger \in [Id -> Terminal \cup {NoStatus}]
  /\ microtasks \subseteq Id
  /\ turns \subseteq Id
  /\ timers \subseteq Id
  /\ settled \subseteq Id
  /\ controls \subseteq Id
  /\ lastEvent \in [Id -> {"none", "start", "chunk", "complete"}]
  /\ completions \in [Id -> Nat]
  /\ wait \in [Wait -> Await]
  /\ listeners \subseteq Wait
  /\ pendingWaiters \in [0..MaxCalls -> SUBSET Wait]
  /\ aborted \subseteq Wait
  /\ registry \subseteq Key
  /\ deaths \in Nat
  /\ resets \in Nat

Init ==
  /\ issued = 0
  /\ call = [i \in Id |-> NoCall]
  /\ status = [i \in Id |-> NoStatus]
  /\ active = {}
  /\ ledger = [i \in Id |-> NoStatus]
  /\ microtasks = {}
  /\ turns = {}
  /\ timers = {}
  /\ settled = {}
  /\ controls = {}
  /\ lastEvent = [i \in Id |-> "none"]
  /\ completions = [i \in Id |-> 0]
  /\ wait = [w \in Wait |-> NoWait]
  /\ listeners = {}
  /\ pendingWaiters = [i \in 0..MaxCalls |-> {}]
  /\ aborted = {}
  /\ registry = Key
  /\ deaths = 0
  /\ resets = 0

-----------------------------------------------------------------------------
(* Identities                                                              *)

Named(r) == {k \in Key : k = r \/ BareOf[k] = r}

\* The agent a reference denotes: an exact key first, else the only living
\* agent with that bare id.
Resolve(r) ==
  IF r \in registry THEN r
  ELSE IF \E k \in Named(r) \cap registry : Named(r) \cap registry = {k}
       THEN CHOOSE k \in Named(r) \cap registry : TRUE
       ELSE NoKey

Same(r, s) == r = s \/ (Resolve(r) # NoKey /\ Resolve(r) = Resolve(s))

\* The agent a reference is about, alive or not.
Party(r) == IF r \in Key THEN r ELSE Resolve(r)

\* The id that public copies of a record show for a reference.
Display(r) == IF Resolve(r) = NoKey THEN r ELSE BareOf[Resolve(r)]

\* isAgentTerminated: a recycled agent, and a bare id that a recycled agent
\* carries or that does not denote exactly one agent.
Terminated(r) ==
  /\ r \notin registry
  /\ \/ Named(r) \ registry # {}
     \/ Resolve(r) = NoKey

InScope(p, t) ==
  LET from == Resolve(p)  to == Resolve(t)
  IN  from # NoKey /\ to # NoKey /\ RealmOf[from] # Bypass =>
        RealmOf[to] # Bypass /\ RealmOf[from] = RealmOf[to]

Authorized(p, t) ==
  \/ Resolve(p) \in Sudoers
  \/ Same(t, p)
  \/ SpawnedBy[Resolve(t)] # NoKey /\ Same(SpawnedBy[Resolve(t)], p)

-----------------------------------------------------------------------------
(* Completion events and the awaits that listen to them                    *)

\* Have enough of the awaited calls settled?
Satisfied(a) == IF a.all THEN a.got = a.ids ELSE a.got # {}

Oldest(S) == IF S = {} THEN {} ELSE {CHOOSE i \in S : \A j \in S : i <= j}

\* Of several calls that settle together only the first is heard of.
Hear_Fault(w, S) ==
  LET a == wait[w]
  IN  IF w \in listeners
      THEN [a EXCEPT !.got = @ \cup Oldest(S \cap a.ids)]
      ELSE a

\* What await w knows after the completion events of S, emitted in order of
\* age; an await for any of its calls stops listening at the first.
Hear(w, S) ==
  LET a == wait[w]
  IN  IF w \in listeners
      THEN [a EXCEPT !.got = @ \cup (IF a.all THEN S \cap a.ids ELSE Oldest(S \cap a.ids))]
      ELSE a

\* finish and cleanup: the awaits W resolve and leave no callback behind.
CleanUp(W) ==
  /\ listeners' = listeners \ W
  /\ pendingWaiters' = [i \in 0..MaxCalls |-> pendingWaiters[i] \ W]

\* #emitComplete, once for every element of S.
EmitComplete(S) ==
  LET done == {w \in listeners : Hear(w, S).got # wait[w].got /\ Satisfied(Hear(w, S))}
  IN  /\ lastEvent' = [i \in Id |-> IF i \in S THEN "complete" ELSE lastEvent[i]]
      /\ completions' = [i \in Id |-> completions[i] + IF i \in S THEN 1 ELSE 0]
      /\ wait' = [w \in Wait |-> IF w \in done THEN [Hear(w, S) EXCEPT !.outcome = "ready"]
                                 ELSE Hear(w, S)]
      /\ CleanUp(done)

\* settleDispatch for every element of S: each has a control.
SettleDispatch(S) ==
  /\ settled' = settled \cup S
  /\ timers' = timers \ S
  /\ controls' = controls \ S

\* The records S leave #activeInvocations with status s; a copy is stored.
Archive(S, s) ==
  /\ active' = active \ S
  /\ status' = [i \in Id |-> IF i \in S THEN s ELSE status[i]]
  /\ ledger' = [i \in Id |-> IF i \in S THEN s ELSE ledger[i]]
  /\ EmitComplete(S)
  /\ UNCHANGED <<issued, call>>

-----------------------------------------------------------------------------
(* Calls                                                                   *)

\* The depth of the calling turn is handed on without counting the call.
Depth_Fault(j) == IF j = 0 THEN 1 ELSE call[j].depth

\* Depth of a call made by the turn that call j runs; 0 is a turn nobody called.
Depth(j) == IF j = 0 THEN 1 ELSE call[j].depth + 1

\* invokeAgent from the turn of call j, or from an ordinary turn or the host.
InvokeAgent(c, j) ==
  /\ issued < MaxCalls
  /\ j = 0 \/ (j \in turns /\ Same(call[j].to, c.from))
  /\ ~Terminated(c.to)
  /\ Resolve(c.to) # NoKey
  /\ Authorized(c.from, c.to)
  /\ InScope(c.from, c.to)
  /\ Depth(j) <= MaxDepth
  /\ LET i == issued + 1
     IN  /\ issued' = i
         /\ call' = [call EXCEPT ![i] =
                       [from |-> c.from, to |-> c.to, timed |-> c.timed,
                        shown |-> {Display(c.from), Display(c.to)},
                        parties |-> {Party(c.from), Party(c.to)},
                        depth |-> Depth(j), parent |-> j]]
         /\ status' = [status EXCEPT ![i] = "pending"]
         /\ active' = active \cup {i}
         /\ lastEvent' = [lastEvent EXCEPT ![i] = "start"]
         /\ microtasks' = microtasks \cup {i}
  /\ UNCHANGED <<ledger, turns, timers, settled, controls, completions, awaits, aborted,
                 agents, resets>>

\* The guard every continuation of a call starts with.
Live(i) == i \in active /\ i \notin settled /\ status[i] # "cancelled"

\* The call is not looked at again before it runs.
Dispatch_Fault(i) ==
  /\ i \in microtasks
  /\ microtasks' = microtasks \ {i}
  /\ turns' = turns \cup {i}
  /\ controls' = controls \cup {i}
  /\ status' = [status EXCEPT ![i] = "running"]
  /\ timers' = IF call[i].timed THEN timers \cup {i} ELSE timers
  /\ UNCHANGED <<issued, call, active, ledger, settled, events, awaits, aborted, agents, resets>>

\* The timeout is forgotten.
DispatchUntimed_Fault(i) ==
  /\ i \in microtasks
  /\ microtasks' = microtasks \ {i}
  /\ IF i \in active /\ status[i] # "cancelled"
     THEN /\ turns' = turns \cup {i}
          /\ controls' = controls \cup {i}
          /\ status' = [status EXCEPT ![i] = "running"]
     ELSE UNCHANGED <<turns, controls, status>>
  /\ UNCHANGED <<issued, call, active, ledger, timers, settled, events, awaits, aborted, agents,
                 resets>>

\* The microtask of invokeAgent, up to the await of executeTurn.
Dispatch(i) ==
  /\ i \in microtasks
  /\ microtasks' = microtasks \ {i}
  /\ IF i \in active /\ status[i] # "cancelled"
     THEN /\ turns' = turns \cup {i}
          /\ controls' = controls \cup {i}
          /\ status' = [status EXCEPT ![i] = "running"]
          /\ timers' = IF call[i].timed THEN timers \cup {i} ELSE timers
     ELSE UNCHANGED <<turns, controls, status, timers>>
  /\ UNCHANGED <<issued, call, active, ledger, settled, events, awaits, aborted, agents, resets>>

\* A result is filed without asking whether the call is still open.
TurnSettles_Fault(i, s) ==
  /\ i \in turns
  /\ turns' = turns \ {i}
  /\ SettleDispatch({i})
  /\ Archive({i}, s)
  /\ UNCHANGED <<microtasks, aborted, agents, resets>>

\* executeTurn resolves (s = "completed") or rejects (s = "error").
TurnSettles(i, s) ==
  /\ i \in turns
  /\ turns' = turns \ {i}
  /\ IF Live(i)
     THEN SettleDispatch({i}) /\ Archive({i}, s)
     ELSE UNCHANGED <<records, timers, settled, controls, events, awaits>>
  /\ UNCHANGED <<microtasks, aborted, agents, resets>>

\* onChunk without its guard.
Chunk_Fault(i) ==
  /\ i \in turns
  /\ lastEvent' = [lastEvent EXCEPT ![i] = "chunk"]
  /\ UNCHANGED <<records, dispatch, completions, awaits, aborted, agents, resets>>

\* The running turn streams a piece of its answer (onChunk).
Chunk(i) ==
  /\ i \in turns
  /\ Live(i)
  /\ lastEvent' = [lastEvent EXCEPT ![i] = "chunk"]
  /\ UNCHANGED <<records, dispatch, completions, awaits, aborted, agents, resets>>

\* The timeout of the call fires.
CallTimeout(i) ==
  /\ i \in timers
  /\ IF Live(i)
     THEN SettleDispatch({i}) /\ Archive({i}, "timed_out")
     ELSE timers' = timers \ {i} /\ UNCHANGED <<records, settled, controls, events, awaits>>
  /\ UNCHANGED <<microtasks, turns, aborted, agents, resets>>

\* Only the calls made to the agent are found.
Involves_Fault(i, r) ==
  call[i].to = r \/ (Resolve(r) # NoKey /\ Resolve(r) = call[i].to)

\* Does the stored record name the agent that reference r is about?  A record
\* keeps the references it was made with; they are not resolved again here, and
\* the fallback for bare references is contained in the first comparison.
Involves(i, r) ==
  \/ r \in {call[i].from, call[i].to}
  \/ Resolve(r) # NoKey /\ Resolve(r) \in {call[i].from, call[i].to}

\* cancelPendingInvocationsForAgent.
CancelPending(r) ==
  LET S == {i \in active : Involves(i, r)}
  IN  SettleDispatch(S \cap controls) /\ Archive(S, "cancelled")

\* killAgent: cancels by canonical key, then moves the agent to the bin.
Kill(k) ==
  /\ deaths < MaxDeaths
  /\ k \in registry \cap Mortal
  /\ CancelPending(k)
  /\ registry' = registry \ {k}
  /\ deaths' = deaths + 1
  /\ UNCHANGED <<microtasks, turns, aborted, resets>>

\* restoreAgent: the agent comes back from the recycle bin under its key.
Restore(k) ==
  /\ k \in Key \ registry
  /\ registry' = registry \cup {k}
  /\ UNCHANGED <<records, dispatch, events, awaits, aborted, deaths, resets>>

-----------------------------------------------------------------------------
(* Awaits                                                                  *)

Recorded(i) == i \in active \/ (i \in Id /\ ledger[i] # NoStatus)

Names(c, i) ==
  \/ c \in {call[i].from, call[i].to}
  \/ c \notin registry /\ BareOf[Resolve(c)] \in call[i].shown

\* May c await the calls ids?  It must be a party of each that is on record.
Admitted(c, ids) ==
  \/ c = Host
  \/ /\ Resolve(c) # NoKey
     /\ \/ RealmOf[Resolve(c)] = Bypass
        \/ \A i \in ids : Recorded(i) => Names(c, i)

\* The early returns of waitForInvocation, in their order; a is the await with
\* the results that are in the ledger already.
OutcomeAtStart(w, c, a) ==
  CASE ~Admitted(c, a.ids) -> "denied"
    [] Admitted(c, a.ids) /\ a.ids = {} -> "invalid"
    [] Admitted(c, a.ids) /\ a.ids # {} /\ Satisfied(a) -> "ready"
    [] Admitted(c, a.ids) /\ a.ids # {} /\ ~Satisfied(a) /\ w \in aborted -> "aborted"
    [] OTHER -> "pending"

WaitForInvocation(w, c, ids, all) ==
  LET a == [outcome |-> "pending", ids |-> ids, all |-> all,
            got |-> {i \in ids \cap Id : ledger[i] # NoStatus}, by |-> c]
      o == OutcomeAtStart(w, c, a)
  IN  /\ wait[w].outcome = "idle"
      /\ wait' = [wait EXCEPT ![w] =
                    IF o = "denied" THEN [a EXCEPT !.outcome = o, !.got = {}]
                    ELSE [a EXCEPT !.outcome = o]]
      /\ IF o = "pending"
         THEN /\ listeners' = listeners \cup {w}
              /\ pendingWaiters' = [i \in 0..MaxCalls |->
                                      pendingWaiters[i] \cup IF i \in ids THEN {w} ELSE {}]
         ELSE UNCHANGED <<listeners, pendingWaiters>>
      /\ UNCHANGED <<records, dispatch, events, aborted, agents, resets>>

\* The await resolves with what has arrived so far.
Finish(w, o) ==
  /\ wait' = [wait EXCEPT ![w].outcome = o]
  /\ CleanUp({w})

\* The timer is bound to the subscription, which reset removes.
WaitTimeout_Fault(w) ==
  /\ wait[w].outcome = "pending"
  /\ w \in listeners
  /\ Finish(w, "timed_out")
  /\ UNCHANGED <<records, dispatch, events, aborted, agents, resets>>

\* Every pending await has a timer, of 10 s unless the caller says otherwise.
WaitTimeout(w) ==
  /\ wait[w].outcome = "pending"
  /\ Finish(w, "timed_out")
  /\ UNCHANGED <<records, dispatch, events, aborted, agents, resets>>

\* The AbortSignal of the await fires, before the await or during it.
Abort(w) ==
  /\ w \notin aborted
  /\ wait[w].outcome \in {"idle", "pending"}
  /\ aborted' = aborted \cup {w}
  /\ IF wait[w].outcome = "pending" THEN Finish(w, "aborted") ELSE UNCHANGED awaits
  /\ UNCHANGED <<records, dispatch, events, agents, resets>>

-----------------------------------------------------------------------------
\* reset: closures that wait for a turn or a timer keep running.
Reset ==
  /\ resets < MaxResets
  /\ resets' = resets + 1
  /\ active' = {}
  /\ ledger' = [i \in Id |-> NoStatus]
  /\ listeners' = {}
  /\ pendingWaiters' = [i \in 0..MaxCalls |-> {}]
  /\ UNCHANGED <<issued, call, status, dispatch, events, wait, aborted, agents>>

Next ==
  \/ \E c \in Call, j \in {0} \cup turns : InvokeAgent(c, j)
  \/ \E i \in Id : Dispatch(i)
  \/ \E i \in Id, s \in {"completed", "error"} : TurnSettles(i, s)
  \/ \E i \in Id : Chunk(i)
  \/ \E i \in Id : CallTimeout(i)
  \/ \E k \in Key : Kill(k)
  \/ \E k \in Key : Restore(k)
  \/ \E w \in Wait, c \in AwaitCaller, ids \in SUBSET (0..issued), all \in BOOLEAN :
       WaitForInvocation(w, c, ids, all)
  \/ \E w \in Wait : WaitTimeout(w)
  \/ \E w \in Wait : Abort(w)
  \/ Reset

Spec == Init /\ [][Next]_vars

\* The host runs the microtasks and fires the timers that are due.  Turns may
\* hang: whether executeTurn ever settles is not the engine's to say.
FairSpec ==
  /\ Spec
  /\ \A i \in Id : WF_vars(Dispatch(i)) /\ WF_vars(CallTimeout(i))
  /\ \A w \in Wait : WF_vars(WaitTimeout(w))

-----------------------------------------------------------------------------
(* The inductive invariant                                                 *)

\* Ids are given out in order.
IssuedInOrder ==
  \A i \in Id : (status[i] = NoStatus) = (i > issued)

\* A record is in one ledger at most; the stored copy agrees with the record.
OneLedger ==
  \A i \in Id :
    /\ i \in active => status[i] \in Open /\ ledger[i] = NoStatus
    /\ ledger[i] # NoStatus => ledger[i] = status[i]

\* A call that is waiting for its microtask owns nothing else yet; afterwards
\* it runs, guarded by its control and, if it asked for one, a timer.
Stages ==
  \A i \in Id :
    /\ i \in microtasks => /\ status[i] \in {"pending", "cancelled"}
                           /\ i \notin turns /\ i \notin timers
                           /\ i \notin controls /\ i \notin settled
    /\ i \in active /\ status[i] = "pending" => i \in microtasks
    /\ i \in active /\ status[i] = "running" =>
         /\ i \in turns /\ i \in controls /\ i \notin settled
         /\ call[i].timed => i \in timers
    /\ status[i] = NoStatus => /\ i \notin microtasks /\ i \notin turns
                               /\ i \notin timers /\ i \notin controls
                               /\ i \notin settled

\* What has settled is terminal, and its timer and control are gone.
SettledIsTerminal ==
  \A i \in Id :
    /\ i \in settled => status[i] \in Terminal
    /\ status[i] \in Terminal => i \notin timers /\ i \notin controls

\* One completion event for a settled call, none for any other, and it is the
\* last event of the call.
OneCompletion ==
  \A i \in Id :
    /\ status[i] \in Terminal => completions[i] = 1 /\ lastEvent[i] = "complete"
    /\ status[i] \in Open => completions[i] = 0 /\ lastEvent[i] \in {"start", "chunk"}
    /\ status[i] = NoStatus => completions[i] = 0 /\ lastEvent[i] = "none"

\* An await that listens is pending, has exactly the results that are in the
\* ledger, and these are not yet enough: no completion is lost between the look
\* into the ledger and the subscription, or by an event of another call.
NoLostCompletion ==
  \A w \in listeners :
    /\ wait[w].outcome = "pending"
    /\ wait[w].got = {i \in wait[w].ids \cap Id : ledger[i] # NoStatus}
    /\ ~Satisfied(wait[w])

\* The callbacks of an await are filed under each of its ids while it listens,
\* and under none afterwards, however it has ended.
NoLeakedWaiter ==
  \A i \in 0..MaxCalls : pendingWaiters[i] = {w \in listeners : i \in wait[w].ids}

\* An await that ends as ready has what it asked for; one that ends by its
\* timer or its signal could not have been answered.
HonestOutcome ==
  \A w \in Wait :
    /\ wait[w].outcome = "ready" => Satisfied(wait[w])
    /\ wait[w].outcome \in {"pending", "timed_out", "aborted"} => ~Satisfied(wait[w])

\* Where each call is: its microtask, its turn, its timer and control, its ledger
\* entry and its events go together, whichever of the closures of invokeAgent,
\* cancelPendingInvocationsForAgent and reset comes first.
RecordsInv ==
  /\ TypeOK
  /\ IssuedInOrder
  /\ OneLedger
  /\ Stages
  /\ SettledIsTerminal
  /\ OneCompletion

\* What an await may rely on: it misses no completion, leaves no callback behind
\* and does not misreport how it ended (waitForInvocation, reset).
AwaitsInv ==
  /\ NoLostCompletion
  /\ NoLeakedWaiter
  /\ HonestOutcome

\* Each is inductive with the other only: an await hears of the calls that leave
\* the ledger #activeInvocations, and of these alone.
IInv == RecordsInv /\ AwaitsInv

-----------------------------------------------------------------------------
(* Refinement                                                              *)

Phase(i) ==
  IF i > issued THEN "unused"
  ELSE IF i \in active THEN "in_flight"
  ELSE IF ledger[i] # NoStatus THEN ledger[i]
  ELSE "forgotten"

Ledger == INSTANCE InvocationLedger WITH
  Outcome <- Terminal,
  phase   <- [i \in Id |-> Phase(i)]

\* The engine keeps the promise of InvocationLedger: a call settles once, with
\* one outcome, until reset forgets it (invokeAgent,
\* cancelPendingInvocationsForAgent, reset).
ImplementsLedger == Ledger!Spec

-----------------------------------------------------------------------------
(* Properties                                                              *)

\* A settled call stays as it is: no later turn result, timer, cancellation or
\* chunk changes its status or is heard of, not even after reset
\* (the guards of invokeAgent's closures, settleDispatch).
SettledIsFinal ==
  [][\A i \in Id : status[i] \in Terminal =>
       /\ status'[i] = status[i]
       /\ lastEvent'[i] = "complete" /\ completions'[i] = completions[i]]_vars

\* What reset has forgotten stays forgotten: turns and timers that were under
\* way bring nothing back into a ledger (reset, the closures of invokeAgent).
ForgottenForGood ==
  [][\A i \in Id : i <= issued /\ ~Recorded(i) => i \notin active' /\ ledger'[i] = NoStatus]_vars

\* Once a call has settled nothing more comes of it, whichever of its closures
\* comes late, and whether or not reset has forgotten it.
SettledForGood == SettledIsFinal /\ ForgottenForGood

\* A death cancels calls of the dead agent only, and of these all whose record
\* has its key.  What goes on is a call that was made by or to its bare id, since
\* deaths are announced by key and the record keeps the reference as it was given
\* (killAgent, cancelPendingInvocationsForAgent, of which the head of the file
\* says that it settles every call the agent takes part in).
DeathSettlesCalls ==
  [][\A k \in registry \ registry' : \A i \in active :
       IF i \in active'
       THEN k \in call[i].parties =>
              k \notin {call[i].from, call[i].to} /\ BareOf[k] \in {call[i].from, call[i].to}
       ELSE k \in call[i].parties /\ ledger'[i] = "cancelled"]_vars

\* An await by an agent without realmBypass never yields the result of a call
\* between two others, for all that ids are checked once and results come later
\* (waitForInvocation, #resolveAwaitCaller).
ResultsOfOwnCalls ==
  \A w \in Wait : wait[w].by \in Key =>
    \/ RealmOf[wait[w].by] = Bypass
    \/ \A i \in wait[w].got : wait[w].by \in call[i].parties

\* Calls out of calls: how many there are above call i, itself included.
ChainTo[i \in 0..MaxCalls] == IF i = 0 THEN 0 ELSE 1 + ChainTo[call[i].parent]

\* No chain of calls, each made by the turn that serves the one before, is
\* longer than MaxDepth (MAX_INVOCATION_DEPTH, the depth that invokeAgent hands
\* to executeTurn).
BoundedRecursion == \A i \in 1..issued : ChainTo[i] <= MaxDepth

\* A call is made by the turn of an earlier call, one deeper, or by no call.
Lineage ==
  \A i \in Id :
    /\ call[i].parent \in 0..(i - 1)
    /\ i <= issued => call[i].depth = Depth(call[i].parent)
    /\ i > issued => call[i].parent = 0

\* The agents a call names by their keys are parties to it, and each party is
\* named by its key or by its bare id.
PartiesOfKeys ==
  \A i \in 1..issued :
    /\ {call[i].from, call[i].to} \cap Key \subseteq call[i].parties
    /\ \A k \in call[i].parties \cap Key : {k, BareOf[k]} \cap {call[i].from, call[i].to} # {}

\* An await that listens was admitted to every call it asked for that is on
\* record, and asked for none that is not yet made.
AwaitedCallsAreOwn ==
  /\ \A w \in Wait : wait[w].got \subseteq 1..issued
  /\ \A w \in listeners :
       /\ wait[w].ids \subseteq 0..issued
       /\ wait[w].by \in Key =>
            \/ RealmOf[wait[w].by] = Bypass
            \/ \A i \in wait[w].ids : Recorded(i) => wait[w].by \in call[i].parties

\* What a call, and an await of calls, was refused for does not come about
\* after its checks either: no chain grows too long, no result reaches a
\* stranger.  The other three parts are what makes these two inductive.
AsAdmitted ==
  /\ BoundedRecursion
  /\ ResultsOfOwnCalls
  /\ Lineage
  /\ PartiesOfKeys
  /\ AwaitedCallsAreOwn

\* A call with a timeout does not stay in flight for ever, whatever its turn
\* does (the timer of invokeAgent).
TimedCallsSettle ==
  \A i \in Id : (i \in active /\ call[i].timed) ~> (i \notin active)

\* Every await ends, even if reset has taken its subscription (the timer of
\* waitForInvocation).
AwaitsEnd ==
  \A w \in Wait : (wait[w].outcome = "pending") ~> (wait[w].outcome # "pending")
=============================================================================
