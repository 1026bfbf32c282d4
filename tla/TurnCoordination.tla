-------------------------- MODULE TurnCoordination --------------------------
(***************************************************************************)
(* What the runtime facade promises about turns that others run            *)
(* (runtime/index.ts, runtime/triggerDispatcher/index.ts, and the part of  *)
(* runtime/agentLifecycle/index.ts that launches, kills and edits).        *)
(*                                                                         *)
(* A user turn is a trigger in the queue and a waiter in the facade; the   *)
(* waiter is claimed when the trigger is dispatched and settled with the   *)
(* outcome of the turn.  A completion watcher waits for the next turn of   *)
(* an agent to complete, and a deferred edit of an agent waits for it too. *)
(* A tick of the queue dispatches the first trigger of each target and     *)
(* awaits the whole batch; the turns of the batch may themselves wait, for *)
(* a watcher or for the first turn of an agent they launch.  In between    *)
(* the host kills, purges, restores, cancels, unsticks, resets, or imports *)
(* a snapshot.                                                             *)
(*                                                                         *)
(* The queue is as in TriggerQueue, its bookkeeping of ticks left out: the *)
(* interval timer runs a tick whenever none is in progress.  A turn is as  *)
(* in TurnExecution, its steps left out: a turn that was aborted ends      *)
(* cancelled.  All turns come from the queue.  Contents, authority and the *)
(* patch of an edit are left out.                                          *)
(*                                                                         *)
(* A definition whose name ends in _Fault is a seeded fault, as in         *)
(* TriggerQueue.                                                           *)
(***************************************************************************)
EXTENDS Naturals, Sequences

CONSTANTS
  Agent,          \* canonical identity keys
  BareOf,         \* BareOf[a]: the bare id, shared by namesakes in two Realms
  Resident,       \* active agents of the snapshot the engine started from
  Retired,        \* agents in its recycle bin
  MaxTriggers,    \* bound: triggers that users, mail and launches enqueue
  MaxWatches,     \* bound: calls of waitForAgent
  MaxMishaps      \* bound: kills, purges, restores, ..., resets, imports

Nobody == "nobody"

ASSUME CoordinationAssumption ==
  /\ Nobody \notin Agent
  /\ DOMAIN BareOf = Agent
  /\ Resident \subseteq Agent /\ Retired \subseteq Agent \ Resident
  /\ MaxTriggers \in Nat /\ MaxWatches \in Nat /\ MaxMishaps \in Nat

Watch   == 1..MaxWatches
Ordinary == 1..MaxTriggers
\* The trigger that wakes the watcher of w, if it comes to that, is Wake(w).
Wake(w) == MaxTriggers + w
Trigger == 1..(MaxTriggers + MaxWatches)

VARIABLES
  place,     \* "active" in #agents, "recycled" in #recycleBin, or "absent"
  busy,      \* agents with a turn promise or a busy state
  pending,   \* #pendingQueue of the trigger queue, by target
  batch,     \* dispatched triggers whose turn the current tick awaits
  target,    \* targetAgentId; Nobody as long as the trigger is not used
  ran,       \* what has become of the turn of a trigger
  aborted,   \* turns whose controller is aborted
  blocked,   \* what the tool call of a turn waits for
  waiter,    \* #userTurnWaiters, and how each promise was settled
  watcher,   \* #agentCompletionWatchers, and what became of each
  edits,     \* #pendingAgentEdits: agents with a deferred edit
  excused,   \* history: watches and edits whose agent went quiet unheard
  survivors, \* history: watches that were registered across an import
  mishaps    \* history: how many disturbances there were

queueVars == <<pending, batch, target>>
turnVars  == <<ran, aborted, blocked>>
watchVars == <<watcher, edits>>
histVars  == <<excused, survivors>>
vars == <<place, busy, queueVars, turnVars, waiter, watchVars, histVars, mishaps>>

Settled      == {"completed", "failed", "cancelled"}
Free         == [on |-> "nothing", id |-> 0]
NoWatcher    == [state |-> "unused", mode |-> "wait", from |-> Nobody, to |-> Nobody]
Registered   == {w \in Watch : watcher[w].state = "registered"}
Queued(a)    == {pending[a][i] : i \in DOMAIN pending[a]}
Namesakes(a) == {b \in Agent : BareOf[b] = BareOf[a]}
Ending(a)    == \E t \in batch : target[t] = a /\ ran[t] = "ending"
Active       == {a \in Agent : place[a] = "active"}

TypeOK ==
  /\ place \in [Agent -> {"active", "recycled", "absent"}]
  /\ busy \subseteq Agent
  /\ pending \in [Agent -> Seq(Trigger)]
  /\ batch \subseteq Trigger
  /\ target \in [Trigger -> Agent \cup {Nobody}]
  /\ ran \in [Trigger -> {"no", "running", "ending", "dropped"} \cup Settled]
  /\ aborted \subseteq Trigger
  /\ blocked \in [Trigger -> [on : {"nothing", "turn", "watch"}, id : Nat]]
  /\ waiter \in [Trigger -> {"none", "waiting", "claimed", "rejected"} \cup Settled]
  /\ watcher \in [Watch ->
       [state : {"unused", "registered", "completed", "dead", "timedout", "cleared", "woken"},
        mode : {"wait", "notify"}, from : Agent \cup {Nobody}, to : Agent \cup {Nobody}]]
  /\ edits \subseteq Agent
  /\ excused \subseteq [watch : Watch] \cup [edit : Agent]
  /\ survivors \subseteq Watch
  /\ mishaps \in 0..MaxMishaps

Init ==
  /\ place = [a \in Agent |-> CASE a \in Resident -> "active"
                               [] a \in Retired -> "recycled"
                               [] OTHER -> "absent"]
  /\ busy = {}
  /\ pending = [a \in Agent |-> <<>>]
  /\ batch = {}
  /\ target = [t \in Trigger |-> Nobody]
  /\ ran = [t \in Trigger |-> "no"]
  /\ aborted = {}
  /\ blocked = [t \in Trigger |-> Free]
  /\ waiter = [t \in Trigger |-> "none"]
  /\ watcher = [w \in Watch |-> NoWatcher]
  /\ edits = {}
  /\ excused = {}
  /\ survivors = {}
  /\ mishaps = 0

-----------------------------------------------------------------------------
(* Enqueueing                                                              *)

\* Trigger t has not been used, and the ones before it have.
New(t) == target[t] = Nobody /\ \A u \in 1..(t - 1) : target[u] # Nobody

Enqueue(t, a) ==
  /\ target' = [target EXCEPT ![t] = a]
  /\ pending' = [pending EXCEPT ![a] = Append(@, t)]

\* enqueueUserTurn registers the promise under the id of the trigger.
EnqueueUserTurn(t, a) ==
  /\ New(t)
  /\ Enqueue(t, a)
  /\ waiter' = [waiter EXCEPT ![t] = "waiting"]

UserTurn(a) ==
  /\ place[a] = "active"
  /\ \E t \in Ordinary : EnqueueUserTurn(t, a)
  /\ UNCHANGED <<place, busy, batch, turnVars, watchVars, histVars, mishaps>>

\* The subscriber of the agent, 10 ms after the mail: nothing is enqueued for
\* an agent that has been terminated by then.
MailArrives(a) ==
  /\ place[a] = "active"
  /\ \E t \in Ordinary : New(t) /\ Enqueue(t, a)
  /\ UNCHANGED <<place, busy, batch, turnVars, waiter, watchVars, histVars, mishaps>>

\* launchAgent without a first prompt, or with one whose turn is detached.
Launch(a) ==
  /\ place[a] # "active"
  /\ place' = [place EXCEPT ![a] = "active"]
  /\ \/ UNCHANGED <<pending, target, waiter>>
     \/ \E t \in Ordinary : EnqueueUserTurn(t, a)
  /\ UNCHANGED <<busy, batch, turnVars, watchVars, histVars, mishaps>>

-----------------------------------------------------------------------------
(* The watches and edits that the end of a turn may fail to serve          *)

\* Agent a goes quiet and no completion of its turn was heard.
Watching(a) == {w \in Registered : watcher[w].to = a}
Unheard(a)  == [watch : Watching(a)] \cup [edit : edits \cap {a}]

\* Watches and edits that are settled are not in need of an excuse.
Excuse(s) == excused' = excused \cup s

-----------------------------------------------------------------------------
(* A tick and the turns of its batch                                       *)

\* A trigger that neither wakes a watcher nor has a waiter is mail.
IsMail(t) == t \in Ordinary /\ waiter[t] = "none"

\* The triggers a tick dispatches when nothing is in flight.
Heads == {Head(pending[a]) : a \in {b \in Agent : pending[b] # <<>>}}

\* processTick, and dispatchTrigger up to its first await: nothing runs for an
\* agent that is not active, nor for mail that has been read meanwhile.  The
\* turn claims the waiter of its trigger.
Tick ==
  /\ batch = {} /\ Heads # {}
  /\ \E read \in SUBSET {t \in Heads : IsMail(t)} :
       LET run == {t \in Heads : place[target[t]] = "active"} \ read
       IN  /\ batch' = run
           /\ busy' = {target[t] : t \in run}
           /\ ran' = [t \in Trigger |->
                CASE t \in run -> "running"
                  [] t \in Heads \ run -> "dropped"
                  [] OTHER -> ran[t]]
           /\ waiter' = [t \in Trigger |->
                IF t \in run /\ waiter[t] = "waiting" THEN "claimed" ELSE waiter[t]]
           /\ Excuse(UNION {Unheard(target[t]) : t \in Heads \ run})
  /\ pending' = [a \in Agent |-> IF pending[a] = <<>> THEN <<>> ELSE Tail(pending[a])]
  /\ UNCHANGED <<place, target, aborted, blocked, watchVars, survivors, mishaps>>

Waits(t) ==
  \/ blocked[t].on = "watch" /\ watcher[blocked[t].id].state = "registered"
  \/ blocked[t].on = "turn" /\ waiter[blocked[t].id] \in {"waiting", "claimed"}

\* The turn is between two tool calls and nobody has asked it to stop.
Acting(t) == t \in batch /\ ran[t] = "running" /\ t \notin aborted /\ ~Waits(t)

\* spawn_agent with await_completion: the tool awaits the first turn.
SpawnAndAwait(t, a) ==
  /\ Acting(t)
  /\ place[a] # "active"
  /\ place' = [place EXCEPT ![a] = "active"]
  /\ \E u \in Ordinary :
       /\ EnqueueUserTurn(u, a)
       /\ blocked' = [blocked EXCEPT ![t] = [on |-> "turn", id |-> u]]
  /\ UNCHANGED <<busy, batch, ran, aborted, watchVars, histVars, mishaps>>

\* edit_agent on an agent that is busy: the edit is deferred.
EditAgent(t, a) ==
  /\ Acting(t) /\ target[t] # a
  /\ a \in busy
  /\ edits' = edits \cup {a}
  /\ Excuse(IF Ending(a) /\ pending[a] = <<>> THEN [edit : {a}] ELSE {})
  /\ UNCHANGED <<place, busy, queueVars, turnVars, waiter, watcher, survivors, mishaps>>

-----------------------------------------------------------------------------
(* waitForAgent                                                            *)

\* The queue counts what is addressed to the key and to the bare id.
Quiescent(a) == a \notin busy /\ \A b \in Namesakes(a) : pending[b] = <<>>

NewWatch(w) == watcher[w].state = "unused" /\ \A v \in 1..(w - 1) : watcher[v].state # "unused"

\* The fault registers without having asked whether the agent is quiescent.
Register_Fault(w, m, a, b) ==
  /\ watcher' = [watcher EXCEPT ![w] =
       [state |-> "registered", mode |-> m, from |-> a, to |-> b]]
  /\ Excuse(IF Ending(b) /\ pending[b] = <<>> THEN [watch : {w}] ELSE {})

Register(w, m, a, b) ==
  /\ ~Quiescent(b)
  /\ watcher' = [watcher EXCEPT ![w] =
       [state |-> "registered", mode |-> m, from |-> a, to |-> b]]
  /\ Excuse(IF pending[b] = <<>> /\ (IF b \in busy THEN Ending(b) ELSE ~Quiescent(b))
            THEN [watch : {w}] ELSE {})

\* A turn waits: when the watched agent is quiescent it has its answer at
\* once, otherwise the tool awaits the watcher.
WaitForAgent(t, b) ==
  /\ Acting(t) /\ place[b] = "active"
  /\ \E w \in Watch :
       /\ NewWatch(w)
       /\ Register(w, "wait", target[t], b)
       /\ blocked' = [blocked EXCEPT ![t] = [on |-> "watch", id |-> w]]
  /\ UNCHANGED <<place, busy, queueVars, ran, aborted, waiter, edits, survivors, mishaps>>

\* A turn asks to be woken: at once, if the watched agent is quiescent.
NotifyOfAgent(t, b) ==
  /\ Acting(t) /\ place[b] = "active"
  /\ \E w \in Watch :
       /\ NewWatch(w)
       /\ \/ Register(w, "notify", target[t], b) /\ UNCHANGED <<pending, target>>
          \/ /\ Quiescent(b)
             /\ watcher' = [watcher EXCEPT ![w] =
                  [state |-> "woken", mode |-> "notify", from |-> target[t], to |-> b]]
             /\ Enqueue(Wake(w), target[t])
             /\ UNCHANGED excused
  /\ UNCHANGED <<place, busy, batch, turnVars, waiter, edits, survivors, mishaps>>

\* The host waits in the name of the agent itself.
HostWaits(b) ==
  /\ place[b] = "active"
  /\ \E w \in Watch : NewWatch(w) /\ Register(w, "wait", b, b)
  /\ UNCHANGED <<place, busy, queueVars, turnVars, waiter, edits, survivors, mishaps>>

WatchTimeout(w) ==
  /\ watcher[w].state = "registered" /\ watcher[w].mode = "wait"
  /\ watcher' = [watcher EXCEPT ![w].state = "timedout"]
  /\ UNCHANGED <<place, busy, queueVars, turnVars, waiter, edits, histVars, mishaps>>

-----------------------------------------------------------------------------
(* The end of a turn                                                       *)

\* turn_complete names the agent by its bare id; it is heard when one active
\* agent has that id.  The fault takes every namesake for it.
Heard_Fault(t) == {w \in Registered : watcher[w].to \in Namesakes(target[t])}

Heard(t) ==
  {w \in Registered : Active \cap Namesakes(target[t]) = {watcher[w].to}}

\* The completion is heard by nobody when the bare id is ambiguous.
Ambiguous(t) == Active \cap Namesakes(target[t]) # {target[t]}

\* flushPendingAgentEdits applies or drops the edits of that bare id, and keeps
\* those of an agent in a busy state.
Flushed(t) ==
  {a \in edits \cap Namesakes(target[t]) : a = target[t] \/ a \notin busy \/ Ending(a)}

Woken(W) == {w \in W : watcher[w].mode = "notify" /\ place[watcher[w].from] = "active"}

\* The wake-ups among W, for each agent in the order of its watchers.
WakeUps(W) ==
  LET some == UNION {[1..n -> {Wake(w) : w \in Woken(W)}] : n \in 0..MaxWatches}
  IN  {q \in [Agent -> some] : \A a \in Agent :
         /\ \A i \in DOMAIN q[a] : watcher[q[a][i] - MaxTriggers].from = a
         /\ \A i, j \in DOMAIN q[a] : i < j => q[a][i] < q[a][j]
         /\ \A w \in Woken(W) : watcher[w].from = a => \E i \in DOMAIN q[a] : q[a][i] = Wake(w)}

SettleWatchers(W) ==
  /\ watcher' = [w \in Watch |->
       IF w \notin W THEN watcher[w]
       ELSE [watcher[w] EXCEPT !.state =
              IF @ # "registered" THEN @
              ELSE IF watcher[w].mode = "wait" THEN "completed"
              ELSE IF w \in Woken(W) THEN "woken" ELSE "dead"]]
  /\ target' = [t \in Trigger |->
       IF t \notin Ordinary /\ t - MaxTriggers \in Woken(W)
       THEN watcher[t - MaxTriggers].from ELSE target[t]]
  /\ \E q \in WakeUps(W) : pending' = [a \in Agent |-> pending[a] \o q[a]]

\* The turn has done its work and emits turn_complete; its promise is still on
\* the record.
Complete(t) ==
  /\ Acting(t)
  /\ ran' = [ran EXCEPT ![t] = "ending"]
  /\ SettleWatchers(Heard(t))
  /\ edits' = edits \ Flushed(t)
  /\ excused' = (excused \ [edit : Flushed(t)])
                \cup (IF Ambiguous(t) THEN [watch : Watching(target[t])] ELSE {})
  /\ UNCHANGED <<place, busy, batch, aborted, blocked, waiter, survivors, mishaps>>

\* How executeAgentTurn settles.
Outcome(t) ==
  IF ran[t] = "ending" THEN {"completed"}
  ELSE IF t \in aborted THEN {"cancelled"} ELSE {"failed", "cancelled"}

\* The promise of the turn settles: executeAgentTurn settles the waiter, the
\* record is free, and the tick has one turn less to wait for.  The fault
\* forgets the waiter of a turn that throws.
Release_Fault(t) ==
  /\ t \in batch
  /\ ran[t] = "ending" \/ ~Waits(t)
  /\ \E o \in Outcome(t) :
       /\ ran' = [ran EXCEPT ![t] = o]
       /\ waiter' = [waiter EXCEPT ![t] = IF @ = "claimed" /\ o # "failed" THEN o ELSE @]
       /\ Excuse(IF o = "completed" THEN {} ELSE Unheard(target[t]))
  /\ batch' = batch \ {t}
  /\ busy' = busy \ {target[t]}
  /\ UNCHANGED <<place, pending, target, aborted, blocked, watchVars, survivors, mishaps>>

Release(t) ==
  /\ t \in batch
  /\ ran[t] = "ending" \/ ~Waits(t)
  /\ \E o \in Outcome(t) :
       /\ ran' = [ran EXCEPT ![t] = o]
       /\ waiter' = [waiter EXCEPT ![t] = IF @ = "claimed" THEN o ELSE @]
       /\ Excuse(IF o = "completed" THEN {} ELSE Unheard(target[t]))
  /\ batch' = batch \ {t}
  /\ busy' = busy \ {target[t]}
  /\ UNCHANGED <<place, pending, target, aborted, blocked, watchVars, survivors, mishaps>>

-----------------------------------------------------------------------------
(* Mishaps                                                                 *)

Mishap == mishaps < MaxMishaps /\ mishaps' = mishaps + 1

\* The controllers of the agents of S are aborted.
Abort(S) ==
  aborted' = aborted \cup {t \in batch : target[t] \in S /\ ran[t] = "running"}

\* #rejectUserTurnWaiters: the waiters whose turn has not been dispatched.  The
\* fault finds none when it is given a key.
RejectUserTurnWaiters_Fault(S) ==
  waiter' = [t \in Trigger |->
    IF waiter[t] = "waiting" /\ S = Agent THEN "rejected" ELSE waiter[t]]

RejectUserTurnWaiters(S) ==
  waiter' = [t \in Trigger |->
    IF waiter[t] = "waiting" /\ target[t] \in S THEN "rejected" ELSE waiter[t]]

DropWatchers(S) ==
  watcher' = [w \in Watch |->
    IF w \in Registered /\ (watcher[w].from \in S \/ watcher[w].to \in S)
    THEN [watcher[w] EXCEPT !.state = "dead"] ELSE watcher[w]]

\* agent_recycled and agent_killed name the agent by its bare id.
KillAgent(a) ==
  /\ Mishap
  /\ place[a] = "active"
  /\ place' = [place EXCEPT ![a] = "recycled"]
  /\ busy' = busy \ {a}
  /\ Abort({a})
  /\ RejectUserTurnWaiters({a})
  /\ DropWatchers(Namesakes(a))
  /\ edits' = edits \ Namesakes(a)
  /\ UNCHANGED <<queueVars, ran, blocked, histVars>>

PurgeAgent(a) ==
  /\ Mishap
  /\ place[a] # "absent"
  /\ place' = [place EXCEPT ![a] = "absent"]
  /\ busy' = busy \ {a}
  /\ Abort({a})
  /\ RejectUserTurnWaiters(Agent)
  /\ \/ DropWatchers({a}) /\ UNCHANGED edits
     \/ /\ \A b \in Namesakes(a) \ {a} : place[b] = "absent"
        /\ DropWatchers(Namesakes(a))
        /\ edits' = edits \ Namesakes(a)
  /\ Excuse(Unheard(a))
  /\ UNCHANGED <<queueVars, ran, blocked, survivors>>

\* A record whose bare id means it alone is purged through the runtime.
EmptyRecycleBin ==
  LET bin   == {a \in Agent : place[a] = "recycled"}
      names == UNION {Namesakes(a) : a \in bin}
  IN  /\ Mishap
      /\ bin # {}
      /\ place' = [a \in Agent |-> IF a \in bin THEN "absent" ELSE place[a]]
      /\ RejectUserTurnWaiters(
           IF \E a \in bin : Active \cap Namesakes(a) = {} THEN Agent ELSE {})
      /\ DropWatchers(names)
      /\ edits' = edits \ names
      /\ UNCHANGED <<busy, queueVars, turnVars, histVars>>

RestoreAgent(a) ==
  /\ Mishap
  /\ place[a] = "recycled"
  /\ place' = [place EXCEPT ![a] = "active"]
  /\ UNCHANGED <<busy, queueVars, turnVars, waiter, watchVars, histVars>>

CancelAgent(a) ==
  /\ Mishap
  /\ a \in busy /\ ~Ending(a)
  /\ Abort({a})
  /\ UNCHANGED <<place, busy, queueVars, ran, blocked, waiter, watchVars, histVars>>

\* The record is free at once; the tick still waits for the turn.
UnstickAgent(a) ==
  /\ Mishap
  /\ a \in busy
  /\ busy' = busy \ {a}
  /\ Abort({a})
  /\ Excuse(Unheard(a))
  /\ UNCHANGED <<place, queueVars, ran, blocked, waiter, watchVars, survivors>>

\* The queue keeps its triggers.
Reset ==
  /\ Mishap
  /\ place' = [a \in Agent |-> "absent"]
  /\ busy' = {}
  /\ Abort(Agent)
  /\ RejectUserTurnWaiters(Agent)
  /\ watcher' = [w \in Watch |->
       IF w \in Registered THEN [watcher[w] EXCEPT !.state = "cleared"] ELSE watcher[w]]
  /\ edits' = {}
  /\ UNCHANGED <<queueVars, ran, blocked, histVars>>

\* The queue, the watchers and the deferred edits outlive the agents.
ImportSnapshot(p) ==
  /\ Mishap
  /\ place' = p
  /\ busy' = {}
  /\ Abort(Agent)
  /\ RejectUserTurnWaiters(Agent)
  /\ survivors' = survivors \cup Registered
  /\ Excuse(UNION {Unheard(a) : a \in Agent})
  /\ UNCHANGED <<queueVars, ran, blocked, watchVars>>

-----------------------------------------------------------------------------

Next ==
  \/ Tick \/ EmptyRecycleBin \/ Reset
  \/ \E a \in Agent :
       \/ UserTurn(a) \/ MailArrives(a) \/ Launch(a) \/ HostWaits(a)
       \/ KillAgent(a) \/ PurgeAgent(a) \/ RestoreAgent(a)
       \/ CancelAgent(a) \/ UnstickAgent(a)
  \/ \E t \in Trigger :
       \/ Complete(t) \/ Release(t)
       \/ \E a \in Agent :
            SpawnAndAwait(t, a) \/ EditAgent(t, a) \/ WaitForAgent(t, a) \/ NotifyOfAgent(t, a)
  \/ \E w \in Watch : WatchTimeout(w)
  \/ \E p \in [Agent -> {"active", "recycled", "absent"}] : ImportSnapshot(p)

\* The interval timer keeps ticking; a turn that waits for nothing comes to its
\* end; the timer of a waiting watcher fires.
Fairness ==
  /\ WF_vars(Tick)
  /\ \A t \in Trigger : WF_vars(Complete(t) \/ Release(t))
  /\ \A w \in Watch : WF_vars(WatchTimeout(w))

Spec == Init /\ [][Next]_vars /\ Fairness

-----------------------------------------------------------------------------
(* Properties                                                              *)

\* A promise of enqueueUserTurn that nobody has answered belongs to a trigger
\* that is still in the queue, for an agent that is still there to run it; so
\* no rejection, purge, reset or import leaves a caller waiting for nothing.
WaitingIsQueued ==
  \A t \in Trigger : waiter[t] = "waiting" =>
    target[t] \in Active /\ t \in Queued(target[t])

\* A promise is claimed exactly by the turn of its own trigger, and settles
\* with the outcome of that turn; a rejected promise is never answered again.
AnswerIsOwnTurn ==
  \A t \in Trigger :
    /\ waiter[t] = "claimed" => t \in batch /\ ran[t] \in {"running", "ending"}
    /\ waiter[t] \in Settled => waiter[t] = ran[t]
    /\ t \in batch => waiter[t] # "waiting"

\* A turn that nobody has asked to stop runs on an agent that is active and
\* known to be busy, and no two turns of the batch share an agent.
TurnsAreOwned ==
  /\ \A t \in batch : ran[t] = "running" /\ t \notin aborted =>
       target[t] \in Active \cap busy
  /\ \A t, u \in batch : target[t] = target[u] => t = u

\* As long as no snapshot is imported, whoever is registered as a watcher is
\* alive and watches an agent that is alive.
WatchedAreAlive ==
  \A w \in Registered \ survivors : {watcher[w].from, watcher[w].to} \subseteq Active

\* What holds at every moment of the promises, the turns and the watchers
\* together.
CInv ==
  /\ TypeOK
  /\ WaitingIsQueued
  /\ AnswerIsOwnTurn
  /\ TurnsAreOwned
  /\ WatchedAreAlive

\* No watch and no deferred edit is left behind on an agent that has gone quiet,
\* unless its work ended in a way that emits no turn_complete, or one that does
\* not say whose turn it was: see Excuse.
NothingForgotten ==
  \A a \in Active : a \notin busy /\ pending[a] = <<>> => Unheard(a) \subseteq excused

\* A wait is answered "completed" only when a turn of the very agent it watches
\* has completed, never for a namesake in another Realm.
NamesakesApart ==
  [][\A w \in Watch :
       watcher[w].state = "registered" /\ watcher'[w].state \in {"completed", "woken"} =>
         \E t \in batch : /\ target[t] = watcher[w].to
                          /\ ran[t] = "running" /\ ran'[t] = "ending"]_vars

Open(t) == waiter[t] \in {"waiting", "claimed"}

\* Every promise of enqueueUserTurn is settled at last, whatever happens to
\* agents, turns and watches meanwhile.
UserTurnsAreAnswered == \A t \in Ordinary : Open(t) ~> ~Open(t)

\* The only thing that keeps a promise open for ever is a turn that awaits the
\* first turn of an agent it has launched: the watches, the aborts and the
\* retired agents never do.
UserTurnsEnd ==
  \A t \in Ordinary : Open(t) ~> ~Open(t) \/ \E u \in batch : blocked[u].on = "turn" /\ Waits(u)
=============================================================================
