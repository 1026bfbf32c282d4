---------------------- MODULE TurnCoordination_proofs ----------------------
(***************************************************************************)
(* Proofs about the coordination of turns, for any agents and bare ids,    *)
(* any number of triggers and watches, and any number of mishaps.          *)
(*                                                                         *)
(* CInv is not inductive: that a promise settles with the outcome of its   *)
(* own turn needs that a trigger in the queue is there once and has not    *)
(* been run, and that a trigger is fresh when it is enqueued, the wake-up  *)
(* of a watcher included.  Books says so, and CInv /\ Books is inductive.  *)
(* NothingForgotten needs to speak of turns that have emitted their        *)
(* completion, and of all agents, whether active or not: see QInv.         *)
(***************************************************************************)
EXTENDS TurnCoordination, TLAPS

\* A trigger in the queue is filed under its target; one that is not a wake-up
\* is there once and has not been dispatched.
QueueBooks ==
  \A a \in Agent : \A i \in DOMAIN pending[a] :
    /\ target[pending[a][i]] = a
    /\ pending[a][i] \in Ordinary =>
         /\ pending[a][i] \notin batch /\ ran[pending[a][i]] = "no"
         /\ waiter[pending[a][i]] \in {"none", "waiting", "rejected"}
         /\ \A j \in DOMAIN pending[a] : pending[a][j] = pending[a][i] => j = i

\* A trigger without a target has no history; the batch is of turns under way;
\* nobody waits for a wake-up.
TriggerBooks ==
  /\ \A t \in Trigger : target[t] = Nobody => t \notin batch /\ ran[t] = "no" /\ waiter[t] = "none"
  /\ \A t \in batch : target[t] \in Agent /\ ran[t] \in {"running", "ending"}
  /\ \A t \in Trigger \ Ordinary : waiter[t] = "none"

\* The wake-up of a watcher is fresh until the watcher is settled.
WatchBooks ==
  \A w \in Watch :
    /\ watcher[w].state \in {"unused", "registered"} => target[Wake(w)] = Nobody
    /\ watcher[w].state = "registered" => watcher[w].from \in Agent /\ watcher[w].to \in Agent

Books == QueueBooks /\ TriggerBooks /\ WatchBooks
IInv  == CInv /\ Books

\* The type of an entry of #agentCompletionWatchers in TypeOK.
WatchRecord ==
  [state : {"unused", "registered", "completed", "dead", "timedout", "cleared", "woken"},
   mode : {"wait", "notify"}, from : Agent \cup {Nobody}, to : Agent \cup {Nobody}]

-----------------------------------------------------------------------------
(* Triggers and watches                                                    *)

LEMMA Numbers ==
  /\ MaxTriggers \in Nat /\ MaxWatches \in Nat /\ MaxMishaps \in Nat
  /\ Ordinary \subseteq Trigger
  /\ \A w \in Watch : Wake(w) \in Trigger \ Ordinary /\ Wake(w) - MaxTriggers = w
  /\ \A t \in Trigger \ Ordinary : t - MaxTriggers \in Watch /\ Wake(t - MaxTriggers) = t
  /\ Nobody \notin Agent
BY CoordinationAssumption DEF Ordinary, Trigger, Watch, Wake

LEMMA InitInv == Init => IInv
<1> SUFFICES ASSUME Init PROVE IInv
  OBVIOUS
<1> USE Numbers
<1>1. TypeOK
  BY DEF Init, TypeOK, Free, NoWatcher, Settled
<1>2. WaitingIsQueued /\ AnswerIsOwnTurn /\ TurnsAreOwned
  BY DEF Init, WaitingIsQueued, AnswerIsOwnTurn, TurnsAreOwned, Settled
<1>3. WatchedAreAlive
  BY DEF Init, WatchedAreAlive, Registered, NoWatcher
<1>4. Books
  BY DEF Init, Books, QueueBooks, TriggerBooks, WatchBooks, NoWatcher
<1> QED BY <1>1, <1>2, <1>3, <1>4 DEF IInv, CInv

\* Steps that neither enqueue nor dispatch, and settle at most promises of
\* triggers that wait, keep the books of the queue and the answers.
LEMMA QuietBooks ==
  ASSUME IInv, TypeOK', UNCHANGED <<pending, batch, target, ran>>,
         \A t \in Trigger : \/ waiter'[t] = waiter[t]
                            \/ waiter[t] = "waiting" /\ waiter'[t] = "rejected"
  PROVE  QueueBooks' /\ TriggerBooks' /\ AnswerIsOwnTurn'
<1> USE Numbers
<1>1. QueueBooks'
  <2> SUFFICES ASSUME NEW a \in Agent, NEW i \in DOMAIN pending[a]
               PROVE  /\ target[pending[a][i]] = a
                      /\ pending[a][i] \in Ordinary =>
                           /\ pending[a][i] \notin batch /\ ran[pending[a][i]] = "no"
                           /\ waiter'[pending[a][i]] \in {"none", "waiting", "rejected"}
                           /\ \A j \in DOMAIN pending[a] : pending[a][j] = pending[a][i] => j = i
    BY DEF QueueBooks
  <2>1. pending[a][i] \in Trigger
    BY DEF IInv, CInv, TypeOK
  <2> QED BY <2>1 DEF IInv, Books, QueueBooks
<1>2. TriggerBooks'
  BY DEF IInv, Books, TriggerBooks
<1>3. AnswerIsOwnTurn'
  BY DEF IInv, CInv, AnswerIsOwnTurn, Settled
<1> QED BY <1>1, <1>2, <1>3

\* A fresh trigger is appended, with a promise or without.
LEMMA Enqueueing ==
  ASSUME IInv, TypeOK', NEW t \in Trigger, NEW a \in Agent,
         target[t] = Nobody, Enqueue(t, a), UNCHANGED <<batch, ran>>,
         \/ waiter' = waiter
         \/ t \in Ordinary /\ waiter' = [waiter EXCEPT ![t] = "waiting"]
  PROVE  /\ QueueBooks' /\ TriggerBooks' /\ AnswerIsOwnTurn'
         /\ a \in Active' /\ Active \subseteq Active' => WaitingIsQueued'
         /\ Active \subseteq Active' /\ busy' = busy /\ aborted' = aborted => TurnsAreOwned'
<1> USE Numbers
<1>0. TypeOK
  BY DEF IInv, CInv
<1>1. /\ target' = [target EXCEPT ![t] = a]
      /\ pending' = [pending EXCEPT ![a] = Append(@, t)]
      /\ t \notin batch /\ ran[t] = "no" /\ waiter[t] = "none"
      /\ \A u \in Trigger : u # t => target'[u] = target[u] /\ waiter'[u] = waiter[u]
      /\ target'[t] = a /\ waiter'[t] \in {"none", "waiting"}
      /\ t \notin Ordinary => waiter'[t] = "none"
  BY <1>0 DEF IInv, Books, TriggerBooks, Enqueue, TypeOK
<1>2. \A b \in Agent : \A i \in DOMAIN pending[b] : pending[b][i] \in Trigger /\ pending[b][i] # t
  BY <1>0 DEF IInv, Books, QueueBooks, TypeOK
<1>3. \A b \in Agent : b # a => pending'[b] = pending[b]
  BY <1>0, <1>1 DEF TypeOK
<1>4. /\ DOMAIN pending'[a] = DOMAIN pending[a] \cup {Len(pending[a]) + 1}
      /\ Len(pending[a]) + 1 \notin DOMAIN pending[a]
      /\ \A i \in DOMAIN pending[a] : pending'[a][i] = pending[a][i]
      /\ pending'[a][Len(pending[a]) + 1] = t
  BY <1>0, <1>1 DEF TypeOK
<1>5. QueueBooks'
  <2>1. ASSUME NEW b \in Agent, NEW i \in DOMAIN pending'[b], pending'[b][i] # t
        PROVE  i \in DOMAIN pending[b] /\ pending'[b][i] = pending[b][i]
    BY <2>1, <1>3, <1>4
  <2>2. ASSUME NEW b \in Agent, NEW i \in DOMAIN pending'[b], pending'[b][i] = t
        PROVE  b = a /\ i = Len(pending[a]) + 1
    BY <2>2, <1>2, <1>3, <1>4
  <2>3. ASSUME NEW b \in Agent, NEW i \in DOMAIN pending'[b]
        PROVE  /\ target'[pending'[b][i]] = b
               /\ pending'[b][i] \in Ordinary =>
                    /\ pending'[b][i] \notin batch' /\ ran'[pending'[b][i]] = "no"
                    /\ waiter'[pending'[b][i]] \in {"none", "waiting", "rejected"}
                    /\ \A j \in DOMAIN pending'[b] : pending'[b][j] = pending'[b][i] => j = i
    <3>1. CASE pending'[b][i] = t
      BY <3>1, <2>2, <1>1
    <3>2. CASE pending'[b][i] # t
      <4>1. i \in DOMAIN pending[b] /\ pending'[b][i] = pending[b][i] /\ pending[b][i] \in Trigger
        BY <3>2, <2>1, <1>2
      <4>2. \A j \in DOMAIN pending'[b] : pending'[b][j] = pending'[b][i] =>
              j \in DOMAIN pending[b] /\ pending[b][j] = pending[b][i]
        BY <3>2, <2>1, <4>1
      <4> QED BY <3>2, <4>1, <4>2, <1>1 DEF IInv, Books, QueueBooks
    <3> QED BY <3>1, <3>2
  <2> QED BY <2>3 DEF QueueBooks
<1>6. TriggerBooks'
  <2>1. \A u \in Trigger : target'[u] = Nobody => u # t /\ target[u] = Nobody
    BY <1>1
  <2>2. \A u \in batch : u \in Trigger /\ u # t
    BY <1>0, <1>1 DEF TypeOK
  <2>3. \A u \in Trigger : target'[u] = Nobody => u \notin batch' /\ ran'[u] = "no" /\ waiter'[u] = "none"
    BY <1>1, <2>1 DEF IInv, Books, TriggerBooks
  <2>4. \A u \in batch' : target'[u] \in Agent /\ ran'[u] \in {"running", "ending"}
    BY <1>1, <2>2 DEF IInv, Books, TriggerBooks
  <2>5. \A u \in Trigger \ Ordinary : waiter'[u] = "none"
    BY <1>1 DEF IInv, Books, TriggerBooks
  <2> QED BY <2>3, <2>4, <2>5 DEF TriggerBooks
<1>7. AnswerIsOwnTurn'
  <2> SUFFICES ASSUME NEW u \in Trigger
               PROVE  /\ waiter'[u] = "claimed" => u \in batch /\ ran[u] \in {"running", "ending"}
                      /\ waiter'[u] \in Settled => waiter'[u] = ran[u]
                      /\ u \in batch => waiter'[u] # "waiting"
    BY DEF AnswerIsOwnTurn, Settled
  <2>1. CASE u = t
    BY <2>1, <1>1 DEF Settled
  <2>2. CASE u # t
    BY <2>2, <1>1 DEF IInv, CInv, AnswerIsOwnTurn
  <2> QED BY <2>1, <2>2
<1>8. ASSUME a \in Active', Active \subseteq Active' PROVE WaitingIsQueued'
  <2> SUFFICES ASSUME NEW u \in Trigger, waiter'[u] = "waiting"
               PROVE  target'[u] \in Active' /\ u \in Queued(target[u])'
    BY DEF WaitingIsQueued
  <2>1. CASE u = t
    BY <2>1, <1>1, <1>4, <1>8 DEF Queued
  <2>2. CASE u # t
    <3>1. target[u] \in Active /\ u \in Queued(target[u]) /\ target'[u] = target[u]
      BY <2>2, <1>1 DEF IInv, CInv, WaitingIsQueued
    <3>2. target[u] \in Agent /\ target[u] \in Active'
      BY <3>1, <1>8 DEF Active
    <3>3. PICK i \in DOMAIN pending[target[u]] : pending[target[u]][i] = u
      BY <3>1 DEF Queued
    <3>4. i \in DOMAIN pending'[target[u]] /\ pending'[target[u]][i] = u
      BY <3>2, <3>3, <1>3, <1>4
    <3> QED BY <3>1, <3>2, <3>4 DEF Queued
  <2> QED BY <2>1, <2>2
<1>9. ASSUME Active \subseteq Active', busy' = busy, aborted' = aborted PROVE TurnsAreOwned'
  <2>1. \A u \in batch : u \in Trigger /\ target'[u] = target[u]
    BY <1>0, <1>1 DEF TypeOK
  <2> QED BY <1>9, <2>1 DEF IInv, CInv, TurnsAreOwned
<1> QED BY <1>5, <1>6, <1>7, <1>8, <1>9

-----------------------------------------------------------------------------
(* Steps that leave the queue alone                                        *)

LEMMA Excusing ==
  ASSUME TypeOK, NEW a \in Agent
  PROVE  Unheard(a) \subseteq [watch : Watch] \cup [edit : Agent]
<1> QED BY DEF Unheard, Watching, Registered, TypeOK

\* A step that leaves the queue and the batch alone keeps the invariant when a
\* promise that still waits has an active agent, a turn that may go on owns its
\* agent, and a watcher that is still registered is alive and watches the living.
LEMMA QuietStep ==
  ASSUME IInv, TypeOK', UNCHANGED <<pending, batch, target, ran>>,
         \A t \in Trigger : \/ waiter'[t] = waiter[t]
                            \/ waiter[t] = "waiting" /\ waiter'[t] = "rejected",
         \A t \in Trigger : waiter'[t] = "waiting" => target[t] \in Active',
         \A t \in batch : ran[t] = "running" /\ t \notin aborted' =>
                            target[t] \in Active' /\ target[t] \in busy',
         \A w \in Watch : \/ watcher'[w] = watcher[w]
                          \/ watcher'[w].state \notin {"unused", "registered"}
                          \/ /\ watcher[w].state = "unused"
                             /\ watcher'[w].from \in Agent /\ watcher'[w].to \in Agent,
         \A w \in Watch : watcher'[w].state = "registered" /\ w \notin survivors' =>
                            watcher'[w].from \in Active' /\ watcher'[w].to \in Active'
  PROVE  IInv'
<1> USE Numbers
<1>1. QueueBooks' /\ TriggerBooks' /\ AnswerIsOwnTurn'
  BY QuietBooks
<1>2. WaitingIsQueued'
  <2> SUFFICES ASSUME NEW t \in Trigger, waiter'[t] = "waiting"
               PROVE  target[t] \in Active' /\ t \in Queued(target[t])'
    BY DEF WaitingIsQueued
  <2>1. t \in Queued(target[t])
    BY DEF IInv, CInv, WaitingIsQueued
  <2> QED BY <2>1 DEF Queued
<1>3. TurnsAreOwned'
  BY DEF IInv, CInv, TurnsAreOwned
<1>4. WatchedAreAlive'
  BY DEF WatchedAreAlive, Registered
<1>5. WatchBooks'
  <2> SUFFICES ASSUME NEW w \in Watch, watcher'[w].state \in {"unused", "registered"}
               PROVE  /\ target[Wake(w)] = Nobody
                      /\ watcher'[w].state = "registered" =>
                           watcher'[w].from \in Agent /\ watcher'[w].to \in Agent
    BY DEF WatchBooks
  <2>1. watcher'[w] = watcher[w] \/ watcher[w].state = "unused"
    OBVIOUS
  <2> QED BY <2>1 DEF IInv, Books, WatchBooks
<1> QED BY <1>1, <1>2, <1>3, <1>4, <1>5 DEF IInv, CInv, Books

\* What a waiting promise, a turn that may go on and a registered watcher have
\* before a step.
LEMMA Standing ==
  ASSUME IInv
  PROVE  /\ TypeOK
         /\ \A t \in Trigger : waiter[t] = "waiting" => target[t] \in Active
         /\ \A t \in batch : ran[t] = "running" /\ t \notin aborted =>
                               target[t] \in Active /\ target[t] \in busy
         /\ \A t \in batch : t \in Trigger /\ target[t] \in Agent
         /\ \A w \in Watch : watcher[w].state = "registered" /\ w \notin survivors =>
                               watcher[w].from \in Active /\ watcher[w].to \in Active
         /\ \A t \in Trigger : Acting(t) => target[t] \in Active /\ target[t] \in Agent
<1>1. TypeOK
  BY DEF IInv, CInv
<1>2. \A t \in batch : t \in Trigger /\ target[t] \in Agent
  BY <1>1 DEF IInv, Books, TriggerBooks, TypeOK
<1>3. /\ \A t \in Trigger : waiter[t] = "waiting" => target[t] \in Active
      /\ \A t \in batch : ran[t] = "running" /\ t \notin aborted =>
                            target[t] \in Active /\ target[t] \in busy
  BY DEF IInv, CInv, WaitingIsQueued, TurnsAreOwned
<1>4. \A w \in Watch : watcher[w].state = "registered" /\ w \notin survivors =>
                         watcher[w].from \in Active /\ watcher[w].to \in Active
  BY DEF IInv, CInv, WatchedAreAlive, Registered
<1> QED BY <1>1, <1>2, <1>3, <1>4 DEF Acting

LEMMA HostWaitsInv == ASSUME IInv, NEW b \in Agent, HostWaits(b) PROVE IInv'
<1> USE Numbers
<1>0. PICK w \in Watch : NewWatch(w) /\ Register(w, "wait", b, b)
  BY DEF HostWaits
<1>1. /\ UNCHANGED <<place, busy, pending, batch, target, ran, aborted, blocked, waiter, edits,
                     survivors, mishaps>>
      /\ place[b] = "active" /\ watcher[w].state = "unused"
      /\ watcher' = [watcher EXCEPT ![w] =
           [state |-> "registered", mode |-> "wait", from |-> b, to |-> b]]
      /\ excused' \subseteq excused \cup [watch : Watch]
  BY <1>0 DEF HostWaits, Register, NewWatch, queueVars, turnVars, Excuse
<1>2. TypeOK'
  BY <1>1, Standing DEF TypeOK
<1>3. Active' = Active /\ b \in Active
  BY <1>1 DEF Active
<1> QED BY <1>1, <1>2, <1>3, Standing, QuietStep DEF TypeOK

LEMMA WaitForAgentInv ==
  ASSUME IInv, NEW t \in Trigger, NEW b \in Agent, WaitForAgent(t, b) PROVE IInv'
<1> USE Numbers
<1>0. PICK w \in Watch : /\ NewWatch(w) /\ Register(w, "wait", target[t], b)
                         /\ blocked' = [blocked EXCEPT ![t] = [on |-> "watch", id |-> w]]
  BY DEF WaitForAgent
<1>1. /\ UNCHANGED <<place, busy, pending, batch, target, ran, aborted, waiter, edits,
                     survivors, mishaps>>
      /\ place[b] = "active" /\ watcher[w].state = "unused" /\ Acting(t)
      /\ watcher' = [watcher EXCEPT ![w] =
           [state |-> "registered", mode |-> "wait", from |-> target[t], to |-> b]]
      /\ excused' \subseteq excused \cup [watch : Watch]
  BY <1>0 DEF WaitForAgent, Register, NewWatch, queueVars, Excuse
<1>2. target[t] \in Active /\ target[t] \in Agent
  BY <1>1, Standing
<1>3. TypeOK'
  <2>1. w \in Nat
    BY DEF Watch
  <2> QED BY <1>0, <1>1, <1>2, <2>1, Standing DEF TypeOK
<1>4. Active' = Active /\ b \in Active
  BY <1>1 DEF Active
<1> QED BY <1>1, <1>2, <1>3, <1>4, Standing, QuietStep DEF TypeOK

LEMMA EditAgentInv ==
  ASSUME IInv, NEW t \in Trigger, NEW a \in Agent, EditAgent(t, a) PROVE IInv'
<1> USE Numbers
<1>1. /\ UNCHANGED <<place, busy, pending, batch, target, ran, aborted, blocked, waiter, watcher,
                     survivors, mishaps>>
      /\ edits' = edits \cup {a}
      /\ excused' \subseteq excused \cup [edit : Agent]
  BY DEF EditAgent, queueVars, turnVars, Excuse
<1>2. TypeOK'
  BY <1>1, Standing DEF TypeOK
<1>3. Active' = Active
  BY <1>1 DEF Active
<1> QED BY <1>1, <1>2, <1>3, Standing, QuietStep DEF TypeOK

LEMMA WatchTimeoutInv == ASSUME IInv, NEW w \in Watch, WatchTimeout(w) PROVE IInv'
<1> USE Numbers
<1>1. /\ UNCHANGED <<place, busy, pending, batch, target, ran, aborted, blocked, waiter, edits,
                     excused, survivors, mishaps>>
      /\ watcher' = [watcher EXCEPT ![w].state = "timedout"]
  BY DEF WatchTimeout, queueVars, turnVars, histVars
<1>2. TypeOK'
  BY <1>1, Standing DEF TypeOK
<1>3. Active' = Active
  BY <1>1 DEF Active
<1> QED BY <1>1, <1>2, <1>3, Standing, QuietStep DEF TypeOK

-----------------------------------------------------------------------------
(* Mishaps                                                                 *)

\* What the calls that a mishap is made of do.
LEMMA Rejecting ==
  ASSUME TypeOK, NEW S, RejectUserTurnWaiters(S)
  PROVE  /\ waiter' \in [Trigger -> {"none", "waiting", "claimed", "rejected"} \cup Settled]
         /\ \A t \in Trigger : \/ waiter'[t] = waiter[t]
                               \/ waiter[t] = "waiting" /\ waiter'[t] = "rejected"
         /\ \A t \in Trigger : waiter'[t] = "waiting" => waiter[t] = "waiting" /\ target[t] \notin S
BY DEF RejectUserTurnWaiters, TypeOK, Settled

LEMMA Dropping ==
  ASSUME TypeOK, NEW S, DropWatchers(S)
  PROVE  /\ watcher' \in [Watch -> WatchRecord]
         /\ \A w \in Watch : \/ watcher'[w] = watcher[w]
                             \/ watcher'[w].state \notin {"unused", "registered"}
         /\ \A w \in Watch : watcher'[w].state = "registered" =>
              /\ watcher'[w] = watcher[w]
              /\ watcher[w].from \notin S /\ watcher[w].to \notin S
BY DEF DropWatchers, TypeOK, Registered, WatchRecord

LEMMA Aborting ==
  ASSUME IInv, NEW S, Abort(S)
  PROVE  /\ aborted' \subseteq Trigger
         /\ aborted \subseteq aborted'
         /\ \A t \in batch : ran[t] = "running" /\ t \notin aborted' =>
              /\ t \notin aborted /\ target[t] \notin S
              /\ target[t] \in Active /\ target[t] \in busy
BY Standing DEF Abort, TypeOK

LEMMA Mishaps == ASSUME TypeOK, Mishap PROVE mishaps' \in 0..MaxMishaps
BY Numbers DEF Mishap, TypeOK

LEMMA KillInv == ASSUME IInv, NEW a \in Agent, KillAgent(a) PROVE IInv'
<1> USE Numbers
<1>1. /\ UNCHANGED <<pending, batch, target, ran, blocked, excused, survivors>>
      /\ place' = [place EXCEPT ![a] = "recycled"]
      /\ busy' = busy \ {a}
      /\ Abort({a}) /\ RejectUserTurnWaiters({a}) /\ DropWatchers(Namesakes(a)) /\ Mishap
      /\ edits' \subseteq edits
      /\ a \in Namesakes(a)
  BY DEF KillAgent, queueVars, histVars, Namesakes
<1>2. TypeOK'
  BY <1>1, Standing, Mishaps, Aborting, Rejecting, Dropping DEF TypeOK, WatchRecord
<1>3. Active' = Active \ {a}
  BY <1>1, Standing DEF Active, TypeOK
<1> QED BY <1>1, <1>2, <1>3, Standing, Aborting, Rejecting, Dropping, QuietStep

LEMMA PurgeInv == ASSUME IInv, NEW a \in Agent, PurgeAgent(a) PROVE IInv'
<1> USE Numbers
<1>1. /\ UNCHANGED <<pending, batch, target, ran, blocked, survivors>>
      /\ place' = [place EXCEPT ![a] = "absent"]
      /\ busy' = busy \ {a}
      /\ Abort({a}) /\ RejectUserTurnWaiters(Agent) /\ Mishap
      /\ edits' \subseteq edits
      /\ excused' = excused \cup Unheard(a)
  BY DEF PurgeAgent, queueVars, Excuse
<1>2. PICK S : a \in S /\ DropWatchers(S)
  <2>1. a \in {a} /\ a \in Namesakes(a)
    BY DEF Namesakes
  <2> QED BY <2>1 DEF PurgeAgent
<1>3. TypeOK'
  BY <1>1, <1>2, Standing, Mishaps, Aborting, Rejecting, Dropping, Excusing DEF TypeOK, WatchRecord
<1>4. Active' = Active \ {a}
  BY <1>1, Standing DEF Active, TypeOK
<1>5. \A t \in Trigger : waiter'[t] # "waiting"
  BY <1>1, Standing, Rejecting DEF Active
<1> QED BY <1>1, <1>2, <1>3, <1>4, <1>5, Standing, Aborting, Rejecting, Dropping, QuietStep

LEMMA EmptyRecycleBinInv == ASSUME IInv, EmptyRecycleBin PROVE IInv'
<1> USE Numbers
<1> DEFINE bin == {a \in Agent : place[a] = "recycled"}
           S   == IF \E a \in bin : Active \cap Namesakes(a) = {} THEN Agent ELSE {}
           N   == UNION {Namesakes(a) : a \in bin}
<1>1. /\ UNCHANGED <<busy, pending, batch, target, ran, aborted, blocked, excused, survivors>>
      /\ place' = [a \in Agent |-> IF a \in bin THEN "absent" ELSE place[a]]
      /\ RejectUserTurnWaiters(S) /\ DropWatchers(N) /\ Mishap
      /\ edits' \subseteq edits
  BY DEF EmptyRecycleBin, queueVars, turnVars, histVars
<1> HIDE DEF S, N
<1>2. TypeOK'
  BY <1>1, Standing, Mishaps, Rejecting, Dropping DEF TypeOK, WatchRecord
<1>3. Active' = Active
  BY <1>1, Standing DEF Active, TypeOK
<1> QED BY <1>1, <1>2, <1>3, Standing, Rejecting, Dropping, QuietStep

LEMMA RestoreInv == ASSUME IInv, NEW a \in Agent, RestoreAgent(a) PROVE IInv'
<1> USE Numbers
<1>1. /\ UNCHANGED <<busy, pending, batch, target, ran, aborted, blocked, waiter, watcher, edits,
                     excused, survivors>>
      /\ place' = [place EXCEPT ![a] = "active"] /\ Mishap
  BY DEF RestoreAgent, queueVars, turnVars, watchVars, histVars
<1>2. TypeOK'
  BY <1>1, Standing, Mishaps DEF TypeOK
<1>3. Active \subseteq Active'
  BY <1>1, Standing DEF Active, TypeOK
<1> QED BY <1>1, <1>2, <1>3, Standing, QuietStep

LEMMA CancelInv == ASSUME IInv, NEW a \in Agent, CancelAgent(a) PROVE IInv'
<1> USE Numbers
<1>1. /\ UNCHANGED <<place, busy, pending, batch, target, ran, blocked, waiter, watcher, edits,
                     excused, survivors>>
      /\ Abort({a}) /\ Mishap
  BY DEF CancelAgent, queueVars, watchVars, histVars
<1>2. TypeOK'
  BY <1>1, Standing, Mishaps, Aborting DEF TypeOK
<1>3. Active' = Active
  BY <1>1 DEF Active
<1> QED BY <1>1, <1>2, <1>3, Standing, Aborting, QuietStep

LEMMA UnstickInv == ASSUME IInv, NEW a \in Agent, UnstickAgent(a) PROVE IInv'
<1> USE Numbers
<1>1. /\ UNCHANGED <<place, pending, batch, target, ran, blocked, waiter, watcher, edits, survivors>>
      /\ busy' = busy \ {a}
      /\ Abort({a}) /\ Mishap
      /\ excused' = excused \cup Unheard(a)
  BY DEF UnstickAgent, queueVars, watchVars, Excuse
<1>2. TypeOK'
  BY <1>1, Standing, Mishaps, Aborting, Excusing DEF TypeOK
<1>3. Active' = Active
  BY <1>1 DEF Active
<1> QED BY <1>1, <1>2, <1>3, Standing, Aborting, QuietStep

LEMMA ResetInv == ASSUME IInv, Reset PROVE IInv'
<1> USE Numbers
<1>1. /\ UNCHANGED <<pending, batch, target, ran, blocked, excused, survivors>>
      /\ place' = [a \in Agent |-> "absent"]
      /\ busy' = {} /\ edits' = {}
      /\ Abort(Agent) /\ RejectUserTurnWaiters(Agent) /\ Mishap
      /\ watcher' = [w \in Watch |->
           IF w \in Registered THEN [watcher[w] EXCEPT !.state = "cleared"] ELSE watcher[w]]
  BY DEF Reset, queueVars, histVars
<1>2. \A w \in Watch : /\ watcher'[w].state # "registered"
                       /\ watcher'[w] = watcher[w] \/ watcher'[w].state = "cleared"
  BY <1>1, Standing DEF Registered, TypeOK
<1>3. watcher' \in [Watch -> WatchRecord]
  <2>1. watcher \in [Watch -> WatchRecord]
    BY Standing DEF TypeOK, WatchRecord
  <2>2. \A r \in WatchRecord : [r EXCEPT !.state = "cleared"] \in WatchRecord
    BY DEF WatchRecord
  <2> QED BY <1>1, <2>1, <2>2
<1>4. TypeOK'
  BY <1>1, <1>3, Standing, Mishaps, Aborting, Rejecting DEF TypeOK, WatchRecord
<1>5. /\ \A t \in Trigger : waiter'[t] # "waiting"
      /\ \A t \in batch : ran[t] = "running" => t \in aborted'
  BY <1>1, Standing, Rejecting, Aborting DEF Active
<1> QED BY <1>1, <1>2, <1>4, <1>5, Standing, Rejecting, QuietStep

LEMMA ImportInv ==
  ASSUME IInv, NEW p \in [Agent -> {"active", "recycled", "absent"}], ImportSnapshot(p)
  PROVE  IInv'
<1> USE Numbers
<1>1. /\ UNCHANGED <<pending, batch, target, ran, blocked, watcher, edits>>
      /\ place' = p /\ busy' = {}
      /\ Abort(Agent) /\ RejectUserTurnWaiters(Agent) /\ Mishap
      /\ survivors' = survivors \cup Registered
      /\ excused' = excused \cup UNION {Unheard(a) : a \in Agent}
  BY DEF ImportSnapshot, queueVars, watchVars, Excuse
<1>2. UNION {Unheard(a) : a \in Agent} \subseteq [watch : Watch] \cup [edit : Agent]
  BY Standing, Excusing
<1>3. TypeOK'
  BY <1>1, <1>2, Standing, Mishaps, Aborting, Rejecting DEF TypeOK, Registered
<1>4. /\ \A t \in Trigger : waiter'[t] # "waiting"
      /\ \A t \in batch : ran[t] = "running" => t \in aborted'
  BY <1>1, Standing, Rejecting, Aborting DEF Active
<1> QED BY <1>1, <1>3, <1>4, Standing, Rejecting, QuietStep DEF Registered

-----------------------------------------------------------------------------
(* Steps that enqueue                                                      *)

LEMMA Appending ==
  ASSUME TypeOK, NEW t \in Trigger, NEW a \in Agent, Enqueue(t, a)
  PROVE  /\ pending' \in [Agent -> Seq(Trigger)]
         /\ target' \in [Trigger -> Agent \cup {Nobody}]
BY DEF Enqueue, TypeOK

\* A user, mail or a launch enqueues an ordinary trigger for an agent that is
\* active after the step; nothing happens to turns and watches.
LEMMA OrdinaryTrigger ==
  ASSUME IInv, TypeOK', NEW t \in Ordinary, NEW a \in Agent,
         target[t] = Nobody, Enqueue(t, a),
         UNCHANGED <<busy, batch, ran, aborted, watcher, survivors>>,
         waiter' = waiter \/ waiter' = [waiter EXCEPT ![t] = "waiting"],
         a \in Active', Active \subseteq Active'
  PROVE  IInv'
<1> USE Numbers
<1>1. /\ QueueBooks' /\ TriggerBooks' /\ AnswerIsOwnTurn' /\ WaitingIsQueued' /\ TurnsAreOwned'
  BY Enqueueing
<1>2. WatchedAreAlive'
  BY Standing DEF WatchedAreAlive, Registered
<1>3. WatchBooks'
  BY Standing DEF WatchBooks, IInv, Books, Enqueue, TypeOK
<1> QED BY <1>1, <1>2, <1>3 DEF IInv, CInv, Books

LEMMA UserTurnInv == ASSUME IInv, NEW a \in Agent, UserTurn(a) PROVE IInv'
<1> USE Numbers
<1>0. PICK t \in Ordinary : EnqueueUserTurn(t, a)
  BY DEF UserTurn
<1>1. /\ UNCHANGED <<place, busy, batch, ran, aborted, blocked, watcher, edits, excused, survivors,
                     mishaps>>
      /\ place[a] = "active" /\ target[t] = Nobody /\ Enqueue(t, a)
      /\ waiter' = [waiter EXCEPT ![t] = "waiting"]
  BY <1>0 DEF UserTurn, EnqueueUserTurn, New, turnVars, watchVars, histVars
<1>2. TypeOK'
  BY <1>1, Standing, Appending DEF TypeOK
<1>3. Active' = Active /\ a \in Active
  BY <1>1 DEF Active
<1> QED BY <1>1, <1>2, <1>3, OrdinaryTrigger

LEMMA MailInv == ASSUME IInv, NEW a \in Agent, MailArrives(a) PROVE IInv'
<1> USE Numbers
<1>0. PICK t \in Ordinary : New(t) /\ Enqueue(t, a)
  BY DEF MailArrives
<1>1. /\ UNCHANGED <<place, busy, batch, ran, aborted, blocked, waiter, watcher, edits, excused,
                     survivors, mishaps>>
      /\ place[a] = "active" /\ target[t] = Nobody
  BY <1>0 DEF MailArrives, New, turnVars, watchVars, histVars
<1>2. TypeOK'
  BY <1>0, <1>1, Standing, Appending DEF TypeOK
<1>3. Active' = Active /\ a \in Active
  BY <1>1 DEF Active
<1> QED BY <1>0, <1>1, <1>2, <1>3, OrdinaryTrigger

LEMMA LaunchInv == ASSUME IInv, NEW a \in Agent, Launch(a) PROVE IInv'
<1> USE Numbers
<1>1. /\ UNCHANGED <<busy, batch, ran, aborted, blocked, watcher, edits, excused, survivors, mishaps>>
      /\ place' = [place EXCEPT ![a] = "active"]
  BY DEF Launch, turnVars, watchVars, histVars
<1>2. a \in Active' /\ Active \subseteq Active'
  BY <1>1, Standing DEF Active, TypeOK
<1>3. CASE UNCHANGED <<pending, target, waiter>>
  <2>1. TypeOK'
    BY <1>1, <1>3, Standing DEF TypeOK
  <2> QED BY <1>1, <1>2, <1>3, <2>1, Standing, QuietStep
<1>4. CASE \E t \in Ordinary : EnqueueUserTurn(t, a)
  <2>0. PICK t \in Ordinary : EnqueueUserTurn(t, a)
    BY <1>4
  <2>1. /\ target[t] = Nobody /\ Enqueue(t, a)
        /\ waiter' = [waiter EXCEPT ![t] = "waiting"]
    BY <2>0 DEF EnqueueUserTurn, New
  <2>2. TypeOK'
    BY <1>1, <2>1, Standing, Appending DEF TypeOK
  <2> QED BY <1>1, <1>2, <2>1, <2>2, OrdinaryTrigger
<1> QED BY <1>3, <1>4 DEF Launch

LEMMA SpawnInv ==
  ASSUME IInv, NEW t \in Trigger, NEW a \in Agent, SpawnAndAwait(t, a) PROVE IInv'
<1> USE Numbers
<1>0. PICK u \in Ordinary : /\ EnqueueUserTurn(u, a)
                            /\ blocked' = [blocked EXCEPT ![t] = [on |-> "turn", id |-> u]]
  BY DEF SpawnAndAwait
<1>1. /\ UNCHANGED <<busy, batch, ran, aborted, watcher, edits, excused, survivors, mishaps>>
      /\ place' = [place EXCEPT ![a] = "active"]
      /\ target[u] = Nobody /\ Enqueue(u, a)
      /\ waiter' = [waiter EXCEPT ![u] = "waiting"]
  BY <1>0 DEF SpawnAndAwait, EnqueueUserTurn, New, watchVars, histVars
<1>2. TypeOK'
  <2>1. u \in Nat
    BY DEF Ordinary
  <2> QED BY <1>0, <1>1, <2>1, Standing, Appending DEF TypeOK
<1>3. a \in Active' /\ Active \subseteq Active'
  BY <1>1, Standing DEF Active, TypeOK
<1> QED BY <1>1, <1>2, <1>3, OrdinaryTrigger

\* The watcher of a quiescent agent is woken at once.
LEMMA NotifyInv ==
  ASSUME IInv, NEW t \in Trigger, NEW b \in Agent, NotifyOfAgent(t, b) PROVE IInv'
<1> USE Numbers
<1>0. PICK w \in Watch :
        /\ NewWatch(w)
        /\ \/ Register(w, "notify", target[t], b) /\ UNCHANGED <<pending, target>>
           \/ /\ Quiescent(b)
              /\ watcher' = [watcher EXCEPT ![w] =
                   [state |-> "woken", mode |-> "notify", from |-> target[t], to |-> b]]
              /\ Enqueue(Wake(w), target[t])
              /\ UNCHANGED excused
  BY DEF NotifyOfAgent
<1>1. /\ UNCHANGED <<place, busy, batch, ran, aborted, blocked, waiter, edits, survivors, mishaps>>
      /\ place[b] = "active" /\ watcher[w].state = "unused" /\ Acting(t)
  BY <1>0 DEF NotifyOfAgent, NewWatch, turnVars
<1>2. target[t] \in Active /\ target[t] \in Agent
  BY <1>1, Standing
<1>3. Active' = Active /\ b \in Active
  BY <1>1 DEF Active
<1>4. CASE Register(w, "notify", target[t], b) /\ UNCHANGED <<pending, target>>
  <2>1. /\ watcher' = [watcher EXCEPT ![w] =
             [state |-> "registered", mode |-> "notify", from |-> target[t], to |-> b]]
        /\ excused' \subseteq excused \cup [watch : Watch]
    BY <1>4 DEF Register, Excuse
  <2>2. TypeOK'
    BY <1>1, <1>2, <1>4, <2>1, Standing DEF TypeOK
  <2> QED BY <1>1, <1>2, <1>3, <1>4, <2>1, <2>2, Standing, QuietStep DEF TypeOK
<1>5. CASE /\ watcher' = [watcher EXCEPT ![w] =
                [state |-> "woken", mode |-> "notify", from |-> target[t], to |-> b]]
           /\ Enqueue(Wake(w), target[t])
           /\ UNCHANGED excused
  <2>1. TypeOK'
    BY <1>1, <1>2, <1>5, Standing, Appending DEF TypeOK
  <2>2. target[Wake(w)] = Nobody
    BY <1>1 DEF IInv, Books, WatchBooks
  <2>3. /\ QueueBooks' /\ TriggerBooks' /\ AnswerIsOwnTurn' /\ WaitingIsQueued' /\ TurnsAreOwned'
    BY <1>1, <1>2, <1>3, <1>5, <2>1, <2>2, Enqueueing
  <2>4. WatchedAreAlive'
    BY <1>1, <1>3, <1>5, Standing DEF WatchedAreAlive, Registered, TypeOK
  <2>5. WatchBooks'
    <3> SUFFICES ASSUME NEW v \in Watch, watcher'[v].state \in {"unused", "registered"}
                 PROVE  /\ target'[Wake(v)] = Nobody
                        /\ watcher'[v].state = "registered" =>
                             watcher'[v].from \in Agent /\ watcher'[v].to \in Agent
      BY DEF WatchBooks
    <3>1. v # w /\ watcher'[v] = watcher[v]
      BY <1>5, Standing DEF TypeOK
    <3>2. Wake(v) # Wake(w)
      BY <3>1
    <3>3. target'[Wake(v)] = target[Wake(v)]
      BY <1>5, <3>2, Standing DEF Enqueue, TypeOK
    <3> QED BY <3>1, <3>3 DEF IInv, Books, WatchBooks
  <2> QED BY <2>1, <2>3, <2>4, <2>5 DEF IInv, CInv, Books
<1> QED BY <1>0, <1>4, <1>5

-----------------------------------------------------------------------------
(* A tick, and the end of a turn                                           *)

LEMMA TickInv == ASSUME IInv, Tick PROVE IInv'
<1> USE Numbers
<1>0. PICK read \in SUBSET {t \in Heads : IsMail(t)} :
        LET run == {t \in Heads : place[target[t]] = "active"} \ read
        IN  /\ batch' = run
            /\ busy' = {target[t] : t \in run}
            /\ ran' = [t \in Trigger |->
                 CASE t \in run -> "running"
                   [] t \in Heads \ run -> "dropped"
                   [] OTHER -> ran[t]]
            /\ waiter' = [t \in Trigger |->
                 IF t \in run /\ waiter[t] = "waiting" THEN "claimed" ELSE waiter[t]]
            /\ Excuse(UNION {Unheard(target[t]) : t \in Heads \ run})
  BY DEF Tick
<1> DEFINE run == {t \in Heads : place[target[t]] = "active"} \ read
<1>1. /\ UNCHANGED <<place, target, aborted, blocked, watcher, edits, survivors, mishaps>>
      /\ batch = {} /\ batch' = run
      /\ busy' = {target[t] : t \in run}
      /\ waiter' = [t \in Trigger |->
           IF t \in run /\ waiter[t] = "waiting" THEN "claimed" ELSE waiter[t]]
      /\ excused' = excused \cup UNION {Unheard(target[t]) : t \in Heads \ run}
      /\ pending' = [a \in Agent |-> IF pending[a] = <<>> THEN <<>> ELSE Tail(pending[a])]
  BY <1>0 DEF Tick, watchVars, Excuse
<1>2. TypeOK
  BY Standing
<1>3. \A t \in Heads : /\ t \in Trigger /\ target[t] \in Agent
                       /\ pending[target[t]] # <<>> /\ t = pending[target[t]][1]
                       /\ 1 \in DOMAIN pending[target[t]]
  <2> SUFFICES ASSUME NEW a \in Agent, pending[a] # <<>>
               PROVE  /\ pending[a][1] \in Trigger /\ target[pending[a][1]] = a
                      /\ 1 \in DOMAIN pending[a] /\ Head(pending[a]) = pending[a][1]
    BY DEF Heads
  <2>1. 1 \in DOMAIN pending[a] /\ Head(pending[a]) = pending[a][1] /\ pending[a][1] \in Trigger
    BY <1>2 DEF TypeOK
  <2> QED BY <2>1 DEF IInv, Books, QueueBooks
<1>4. /\ run \subseteq Heads /\ run \subseteq Trigger
      /\ \A t \in run : target[t] \in Agent /\ place[target[t]] = "active"
      /\ \A t \in run : ran'[t] = "running"
      /\ \A t \in Trigger \ Heads : ran'[t] = ran[t]
      /\ ran' \in [Trigger -> {"no", "running", "ending", "dropped"} \cup Settled]
  <2>1. run \subseteq Heads /\ run \subseteq Trigger
    BY <1>3
  <2>2. ran' = [t \in Trigger |->
                 CASE t \in run -> "running"
                   [] t \in Heads \ run -> "dropped"
                   [] OTHER -> ran[t]]
    BY <1>0
  <2> QED BY <1>2, <1>3, <2>1, <2>2 DEF TypeOK
<1> HIDE DEF run
<1>5. \A t \in Heads : t \in Ordinary => ran[t] = "no" /\ waiter[t] \in {"none", "waiting", "rejected"}
  BY <1>3 DEF IInv, Books, QueueBooks
<1>6. \A t \in Trigger \ Ordinary : waiter[t] = "none"
  BY DEF IInv, Books, TriggerBooks
<1>7. \A a \in Agent : \A i \in DOMAIN pending'[a] :
        /\ pending[a] # <<>> /\ i + 1 \in DOMAIN pending[a] /\ pending'[a][i] = pending[a][i + 1]
        /\ i \in Nat /\ i # 0
  BY <1>1, <1>2 DEF TypeOK
<1>8. TypeOK'
  <2>1. UNION {Unheard(target[t]) : t \in Heads \ run} \subseteq [watch : Watch] \cup [edit : Agent]
    BY <1>2, <1>3, Excusing
  <2>2. pending' \in [Agent -> Seq(Trigger)]
    BY <1>1, <1>2 DEF TypeOK
  <2>3. waiter' \in [Trigger -> {"none", "waiting", "claimed", "rejected"} \cup Settled]
    BY <1>1, <1>2 DEF TypeOK
  <2> QED BY <1>1, <1>2, <1>4, <2>1, <2>2, <2>3 DEF TypeOK
<1>9. QueueBooks'
  <2> SUFFICES ASSUME NEW a \in Agent, NEW i \in DOMAIN pending'[a]
               PROVE  /\ target[pending'[a][i]] = a
                      /\ pending'[a][i] \in Ordinary =>
                           /\ pending'[a][i] \notin batch' /\ ran'[pending'[a][i]] = "no"
                           /\ waiter'[pending'[a][i]] \in {"none", "waiting", "rejected"}
                           /\ \A j \in DOMAIN pending'[a] : pending'[a][j] = pending'[a][i] => j = i
    BY <1>1 DEF QueueBooks
  <2> DEFINE t == pending[a][i + 1]
  <2>1. /\ t = pending'[a][i] /\ i + 1 \in DOMAIN pending[a] /\ t \in Trigger
        /\ target[t] = a /\ i + 1 # 1
    BY <1>2, <1>7 DEF IInv, Books, QueueBooks, TypeOK
  <2> HIDE DEF t
  <2>2. ASSUME t \in Ordinary
        PROVE  /\ t \notin Heads /\ ran[t] = "no" /\ waiter[t] \in {"none", "waiting", "rejected"}
               /\ \A j \in DOMAIN pending'[a] : pending'[a][j] = t => j = i
    <3>1. /\ ran[t] = "no" /\ waiter[t] \in {"none", "waiting", "rejected"}
          /\ \A j \in DOMAIN pending[a] : pending[a][j] = t => j = i + 1
      BY <2>1, <2>2 DEF IInv, Books, QueueBooks, t
    <3>2. t \notin Heads
      BY <1>3, <2>1, <3>1
    <3>3. \A j \in DOMAIN pending'[a] : pending'[a][j] = t => j = i
      <4> SUFFICES ASSUME NEW j \in DOMAIN pending'[a], pending'[a][j] = t PROVE j = i
        OBVIOUS
      <4>1. j + 1 \in DOMAIN pending[a] /\ pending[a][j + 1] = t /\ j \in Nat /\ i \in Nat
        BY <1>7
      <4> QED BY <3>1, <4>1
    <3> QED BY <3>1, <3>2, <3>3
  <2>3. ASSUME t \in Ordinary PROVE t \notin batch' /\ ran'[t] = ran[t] /\ waiter'[t] = waiter[t]
    BY <1>1, <1>4, <2>1, <2>2, <2>3
  <2> QED BY <2>1, <2>2, <2>3
<1>10. TriggerBooks'
  <2>1. \A t \in Heads : target[t] # Nobody
    BY <1>3
  <2> QED BY <1>1, <1>4, <1>6, <2>1 DEF IInv, Books, TriggerBooks
<1>11. WaitingIsQueued'
  <2> SUFFICES ASSUME NEW t \in Trigger, waiter'[t] = "waiting"
               PROVE  target[t] \in Active' /\ t \in Queued(target[t])'
    BY <1>1 DEF WaitingIsQueued
  <2>1. waiter[t] = "waiting" /\ t \notin run
    BY <1>1
  <2>2. target[t] \in Active /\ t \in Queued(target[t])
    BY <2>1 DEF IInv, CInv, WaitingIsQueued
  <2>3. t \notin Heads
    BY <2>1, <2>2 DEF run, IsMail, Active
  <2>4. PICK i \in DOMAIN pending[target[t]] : pending[target[t]][i] = t
    BY <2>2 DEF Queued
  <2>5. target[t] \in Agent /\ pending[target[t]] # <<>> /\ i # 1
    BY <1>2, <2>2, <2>3, <2>4 DEF Heads, Active, TypeOK
  <2>6. i - 1 \in DOMAIN pending'[target[t]] /\ pending'[target[t]][i - 1] = t
    BY <1>1, <1>2, <2>4, <2>5 DEF TypeOK
  <2> QED BY <1>1, <2>2, <2>6 DEF Queued, Active
<1>12. AnswerIsOwnTurn'
  <2>1. \A t \in Trigger : waiter[t] # "claimed" /\ (waiter[t] \in Settled => waiter[t] = ran[t])
    BY <1>1 DEF IInv, CInv, AnswerIsOwnTurn
  <2>2. \A t \in Heads : waiter[t] \in {"none", "waiting", "rejected"}
    BY <1>3, <1>5, <1>6
  <2> SUFFICES ASSUME NEW t \in Trigger
               PROVE  /\ waiter'[t] = "claimed" => t \in batch' /\ ran'[t] \in {"running", "ending"}
                      /\ waiter'[t] \in Settled => waiter'[t] = ran'[t]
                      /\ t \in batch' => waiter'[t] # "waiting"
    BY DEF AnswerIsOwnTurn, Settled
  <2>3. CASE t \in run
    BY <1>1, <1>4, <2>2, <2>3 DEF Settled
  <2>4. CASE t \notin run
    <3>1. waiter'[t] = waiter[t] /\ t \notin batch'
      BY <1>1, <2>4
    <3> QED BY <1>4, <2>1, <2>2, <3>1 DEF Settled
  <2> QED BY <2>3, <2>4
<1>13. TurnsAreOwned'
  BY <1>1, <1>3, <1>4 DEF TurnsAreOwned, Active
<1>14. WatchedAreAlive' /\ WatchBooks'
  BY <1>1 DEF IInv, CInv, Books, WatchedAreAlive, WatchBooks, Registered, Active
<1> QED BY <1>8, <1>9, <1>10, <1>11, <1>12, <1>13, <1>14 DEF IInv, CInv, Books

LEMMA ReleaseInv == ASSUME IInv, NEW t \in Trigger, Release(t) PROVE IInv'
<1> USE Numbers
<1>0. PICK o \in Outcome(t) :
        /\ ran' = [ran EXCEPT ![t] = o]
        /\ waiter' = [waiter EXCEPT ![t] = IF @ = "claimed" THEN o ELSE @]
        /\ Excuse(IF o = "completed" THEN {} ELSE Unheard(target[t]))
  BY DEF Release
<1>1. /\ UNCHANGED <<place, pending, target, aborted, blocked, watcher, edits, survivors, mishaps>>
      /\ t \in batch /\ batch' = batch \ {t} /\ busy' = busy \ {target[t]}
  BY DEF Release, watchVars
<1>2. o \in Settled
  BY <1>0 DEF Outcome, Settled
<1>3. TypeOK /\ target[t] \in Agent /\ ran[t] \in {"running", "ending"}
  BY <1>1, Standing DEF IInv, Books, TriggerBooks
<1>4. /\ ran'[t] = o /\ \A u \in Trigger : u # t => ran'[u] = ran[u] /\ waiter'[u] = waiter[u]
      /\ waiter'[t] = IF waiter[t] = "claimed" THEN o ELSE waiter[t]
  BY <1>0, <1>3 DEF TypeOK
<1>5. /\ waiter[t] \notin Settled /\ waiter[t] # "waiting"
      /\ t \notin Ordinary => waiter[t] = "none"
  BY <1>1, <1>3 DEF IInv, CInv, Books, TriggerBooks, AnswerIsOwnTurn, Settled
<1>6. TypeOK'
  <2>1. excused' \subseteq [watch : Watch] \cup [edit : Agent]
    BY <1>0, <1>3, Excusing DEF Excuse, TypeOK
  <2>2. /\ ran' \in [Trigger -> {"no", "running", "ending", "dropped"} \cup Settled]
        /\ waiter' \in [Trigger -> {"none", "waiting", "claimed", "rejected"} \cup Settled]
    BY <1>0, <1>2, <1>3 DEF TypeOK
  <2> QED BY <1>1, <1>3, <2>1, <2>2 DEF TypeOK
<1>7. QueueBooks'
  <2> SUFFICES ASSUME NEW a \in Agent, NEW i \in DOMAIN pending[a]
               PROVE  /\ target[pending[a][i]] = a
                      /\ pending[a][i] \in Ordinary =>
                           /\ pending[a][i] \notin batch' /\ ran'[pending[a][i]] = "no"
                           /\ waiter'[pending[a][i]] \in {"none", "waiting", "rejected"}
                           /\ \A j \in DOMAIN pending[a] : pending[a][j] = pending[a][i] => j = i
    BY <1>1 DEF QueueBooks
  <2>1. /\ target[pending[a][i]] = a /\ pending[a][i] \in Trigger
        /\ pending[a][i] \in Ordinary =>
             /\ pending[a][i] \notin batch /\ ran[pending[a][i]] = "no"
             /\ waiter[pending[a][i]] \in {"none", "waiting", "rejected"}
             /\ \A j \in DOMAIN pending[a] : pending[a][j] = pending[a][i] => j = i
    BY <1>3 DEF IInv, Books, QueueBooks, TypeOK
  <2> QED BY <1>1, <1>4, <2>1
<1>8. TriggerBooks'
  <2>1. \A u \in Trigger : target[u] = Nobody => u # t
    BY <1>3
  <2> QED BY <1>1, <1>3, <1>4, <1>5, <2>1 DEF IInv, Books, TriggerBooks, TypeOK
<1>9. AnswerIsOwnTurn'
  <2> SUFFICES ASSUME NEW u \in Trigger
               PROVE  /\ waiter'[u] = "claimed" => u \in batch' /\ ran'[u] \in {"running", "ending"}
                      /\ waiter'[u] \in Settled => waiter'[u] = ran'[u]
                      /\ u \in batch' => waiter'[u] # "waiting"
    BY DEF AnswerIsOwnTurn, Settled
  <2>1. CASE u = t
    BY <1>1, <1>2, <1>4, <1>5, <2>1 DEF Settled
  <2>2. CASE u # t
    BY <1>1, <1>4, <2>2 DEF IInv, CInv, AnswerIsOwnTurn, Settled
  <2> QED BY <2>1, <2>2
<1>10. WaitingIsQueued'
  <2> SUFFICES ASSUME NEW u \in Trigger, waiter'[u] = "waiting"
               PROVE  target[u] \in Active' /\ u \in Queued(target[u])'
    BY <1>1 DEF WaitingIsQueued
  <2>1. waiter[u] = "waiting"
    BY <1>2, <1>4, <1>5 DEF Settled
  <2> QED BY <1>1, <2>1 DEF IInv, CInv, WaitingIsQueued, Queued, Active
<1>11. TurnsAreOwned'
  BY <1>1, <1>3, <1>4 DEF IInv, CInv, TurnsAreOwned, Active, TypeOK
<1>12. WatchedAreAlive' /\ WatchBooks'
  BY <1>1 DEF IInv, CInv, Books, WatchedAreAlive, WatchBooks, Registered, Active
<1> QED BY <1>6, <1>7, <1>8, <1>9, <1>10, <1>11, <1>12 DEF IInv, CInv, Books

\* The triggers that wake watchers are fresh and distinct from all others, and
\* a watcher that is settled is registered no longer.
LEMMA Settling ==
  ASSUME IInv, NEW W \in SUBSET Registered, SettleWatchers(W)
  PROVE  /\ watcher' \in [Watch -> WatchRecord]
         /\ \A w \in Watch : \/ watcher'[w] = watcher[w] /\ w \notin W
                             \/ w \in W /\ watcher'[w].state \in {"completed", "woken", "dead"}
         /\ target' \in [Trigger -> Agent \cup {Nobody}]
         /\ \A t \in Trigger :
              \/ target'[t] = target[t]
              \/ /\ t \notin Ordinary /\ target[t] = Nobody /\ t - MaxTriggers \in W
                 /\ target'[t] \in Agent
         /\ \A w \in Watch : w \notin W => target'[Wake(w)] = target[Wake(w)]
<1> USE Numbers
<1>0. TypeOK
  BY Standing
<1>1. watcher \in [Watch -> WatchRecord] /\ W \subseteq Watch
  BY <1>0 DEF TypeOK, WatchRecord, Registered
<1>2. \A w \in W : watcher[w].state = "registered"
  BY DEF Registered
<1>3. \A w \in W : \E s \in {"completed", "woken", "dead"} :
        watcher'[w] = [watcher[w] EXCEPT !.state = s]
  BY <1>1, <1>2 DEF SettleWatchers
<1>4. \A r \in WatchRecord : \A s \in {"completed", "woken", "dead"} :
        [r EXCEPT !.state = s] \in WatchRecord /\ [r EXCEPT !.state = s].state = s
  BY DEF WatchRecord
<1>5. \A w \in Watch : w \notin W => watcher'[w] = watcher[w]
  BY DEF SettleWatchers
<1>6. \A w \in W : watcher'[w] \in WatchRecord /\ watcher'[w].state \in {"completed", "woken", "dead"}
  <2> SUFFICES ASSUME NEW w \in W
               PROVE  /\ watcher'[w] \in WatchRecord
                      /\ watcher'[w].state \in {"completed", "woken", "dead"}
    OBVIOUS
  <2>1. PICK s \in {"completed", "woken", "dead"} : watcher'[w] = [watcher[w] EXCEPT !.state = s]
    BY <1>3
  <2>2. watcher[w] \in WatchRecord
    BY <1>1
  <2>3. /\ [watcher[w] EXCEPT !.state = s] \in WatchRecord
        /\ [watcher[w] EXCEPT !.state = s].state = s
    BY <1>4, <2>2, Zenon
  <2> QED BY <2>1, <2>3
<1>7. watcher' \in [Watch -> WatchRecord]
  <2>1. watcher' = [w \in Watch |-> watcher'[w]]
    BY DEF SettleWatchers
  <2>2. \A w \in Watch : watcher'[w] \in WatchRecord
    BY <1>1, <1>5, <1>6
  <2> QED BY <2>1, <2>2
<1>8. \A w \in Woken(W) : w \in W /\ watcher[w].from \in Agent /\ target[Wake(w)] = Nobody
  BY <1>1, <1>2 DEF IInv, Books, WatchBooks, Woken
<1>9. \A t \in Trigger :
        target'[t] = IF t \notin Ordinary /\ t - MaxTriggers \in Woken(W)
                     THEN watcher[t - MaxTriggers].from ELSE target[t]
  BY DEF SettleWatchers
<1>10. \A t \in Trigger :
         \/ target'[t] = target[t]
         \/ /\ t \notin Ordinary /\ target[t] = Nobody /\ t - MaxTriggers \in W
            /\ target'[t] \in Agent
  BY <1>8, <1>9
<1>11. target' \in [Trigger -> Agent \cup {Nobody}]
  <2>1. target' = [t \in Trigger |-> target'[t]]
    BY DEF SettleWatchers
  <2> QED BY <1>0, <1>10, <2>1 DEF TypeOK
<1>12. \A w \in Watch : w \notin W => target'[Wake(w)] = target[Wake(w)]
  BY <1>8, <1>9
<1> QED BY <1>5, <1>6, <1>7, <1>10, <1>11, <1>12

LEMMA Joining ==
  ASSUME NEW S, NEW s \in Seq(S), NEW u \in Seq(S)
  PROVE  /\ s \o u \in Seq(S)
         /\ \A i \in DOMAIN s : i \in DOMAIN (s \o u) /\ (s \o u)[i] = s[i]
         /\ \A i \in DOMAIN (s \o u) :
              i \in DOMAIN s \/ \E j \in 1..Len(u) : (s \o u)[i] = u[j]
<1>1. /\ s \o u \in Seq(S) /\ DOMAIN (s \o u) = 1..(Len(s) + Len(u)) /\ DOMAIN s = 1..Len(s)
      /\ Len(s) \in Nat /\ Len(u) \in Nat
  OBVIOUS
<1>2. \A i \in 1..(Len(s) + Len(u)) :
        (s \o u)[i] = IF i <= Len(s) THEN s[i] ELSE u[i - Len(s)]
  OBVIOUS
<1>3. ASSUME NEW i \in DOMAIN (s \o u), i \notin DOMAIN s
      PROVE  i - Len(s) \in 1..Len(u) /\ (s \o u)[i] = u[i - Len(s)]
  BY <1>1, <1>2, <1>3
<1>4. \A i \in DOMAIN s : i \in DOMAIN (s \o u) /\ (s \o u)[i] = s[i]
  BY <1>1, <1>2
<1> QED BY <1>1, <1>3, <1>4

\* What the queue gains when watchers are woken.
LEMMA Waking ==
  ASSUME IInv, NEW W \in SUBSET Registered, SettleWatchers(W)
  PROVE  /\ pending' \in [Agent -> Seq(Trigger)]
         /\ \A a \in Agent : \A i \in DOMAIN pending[a] :
              i \in DOMAIN pending'[a] /\ pending'[a][i] = pending[a][i]
         /\ \A a \in Agent : \A i \in DOMAIN pending'[a] :
              \/ i \in DOMAIN pending[a]
              \/ pending'[a][i] \notin Ordinary /\ target'[pending'[a][i]] = a
<1> USE Numbers
<1>0. PICK q \in WakeUps(W) : pending' = [a \in Agent |-> pending[a] \o q[a]]
  BY DEF SettleWatchers
<1>1. TypeOK /\ W \subseteq Watch
  BY Standing DEF Registered
<1>2. \A a \in Agent : \E n \in 0..MaxWatches : q[a] \in [1..n -> {Wake(w) : w \in Woken(W)}]
  <2> DEFINE some == UNION {[1..n -> {Wake(w) : w \in Woken(W)}] : n \in 0..MaxWatches}
  <2>1. q \in [Agent -> some]
    BY DEF WakeUps
  <2> QED BY <2>1
<1>3. \A w \in Woken(W) : w \in Watch /\ Wake(w) \in Trigger /\ Wake(w) \notin Ordinary
  BY <1>1 DEF Woken
<1>4. ASSUME NEW a \in Agent
      PROVE  /\ q[a] \in Seq(Trigger)
             /\ \A i \in 1..Len(q[a]) :
                  /\ q[a][i] \in Trigger \ Ordinary
                  /\ q[a][i] - MaxTriggers \in Woken(W)
                  /\ watcher[q[a][i] - MaxTriggers].from = a
  <2>1. PICK n \in 0..MaxWatches : q[a] \in [1..n -> {Wake(w) : w \in Woken(W)}]
    BY <1>2
  <2>2. n \in Nat /\ \A i \in 1..n : q[a][i] \in {Wake(w) : w \in Woken(W)}
    BY <2>1
  <2>3. \A i \in 1..n : q[a][i] \in Trigger \ Ordinary /\ q[a][i] - MaxTriggers \in Woken(W)
    BY <1>3, <2>2
  <2>4. q[a] \in [1..n -> Trigger]
    BY <2>1, <2>3
  <2>5. q[a] \in Seq(Trigger) /\ Len(q[a]) = n /\ DOMAIN q[a] = 1..n
    BY <2>2, <2>4
  <2>6. \A i \in DOMAIN q[a] : watcher[q[a][i] - MaxTriggers].from = a
    BY DEF WakeUps
  <2> QED BY <2>3, <2>5, <2>6
<1>5. ASSUME NEW a \in Agent
      PROVE  /\ pending[a] \o q[a] \in Seq(Trigger)
             /\ \A i \in DOMAIN pending[a] :
                  i \in DOMAIN (pending[a] \o q[a]) /\ (pending[a] \o q[a])[i] = pending[a][i]
             /\ \A i \in DOMAIN (pending[a] \o q[a]) :
                  i \in DOMAIN pending[a] \/
                  \E j \in 1..Len(q[a]) : (pending[a] \o q[a])[i] = q[a][j]
  <2> DEFINE s == pending[a]
             u == q[a]
  <2>1. s \in Seq(Trigger) /\ u \in Seq(Trigger)
    BY <1>1, <1>4 DEF TypeOK
  <2> HIDE DEF s, u
  <2>2. s \o u \in Seq(Trigger)
    BY <2>1
  <2>3. \A i \in DOMAIN s : i \in DOMAIN (s \o u) /\ (s \o u)[i] = s[i]
    BY <2>1, Joining
  <2>4. \A i \in DOMAIN (s \o u) : i \in DOMAIN s \/ \E j \in 1..Len(u) : (s \o u)[i] = u[j]
    BY <2>1, Joining
  <2> QED BY <2>2, <2>3, <2>4, Zenon DEF s, u
<1>6. \A t \in Trigger : t \notin Ordinary /\ t - MaxTriggers \in Woken(W) =>
        target'[t] = watcher[t - MaxTriggers].from
  BY DEF SettleWatchers
<1>7. ASSUME NEW a \in Agent, NEW i \in DOMAIN pending'[a]
      PROVE  \/ i \in DOMAIN pending[a]
             \/ pending'[a][i] \notin Ordinary /\ target'[pending'[a][i]] = a
  <2>1. pending'[a] = pending[a] \o q[a]
    BY <1>0
  <2> SUFFICES ASSUME i \notin DOMAIN pending[a]
               PROVE  pending'[a][i] \notin Ordinary /\ target'[pending'[a][i]] = a
    OBVIOUS
  <2>2. PICK j \in 1..Len(q[a]) : pending'[a][i] = q[a][j]
    <3>1. i \in DOMAIN (pending[a] \o q[a])
      BY <2>1
    <3>2. \E j \in 1..Len(q[a]) : (pending[a] \o q[a])[i] = q[a][j]
      BY <1>5, <3>1, Zenon
    <3> QED BY <2>1, <3>2
  <2> QED BY <1>4, <1>6, <2>2
<1>8. \A a \in Agent : pending'[a] \in Seq(Trigger)
  BY <1>0, <1>5
<1>9. pending' \in [Agent -> Seq(Trigger)]
  BY <1>0, <1>8
<1>10. \A a \in Agent : \A i \in DOMAIN pending[a] :
         i \in DOMAIN pending'[a] /\ pending'[a][i] = pending[a][i]
  BY <1>0, <1>5
<1> QED BY <1>7, <1>9, <1>10

LEMMA CompleteInv == ASSUME IInv, NEW t \in Trigger, Complete(t) PROVE IInv'
<1> USE Numbers
<1> DEFINE W == Heard(t)
<1>1. /\ UNCHANGED <<place, busy, batch, aborted, blocked, waiter, survivors, mishaps>>
      /\ Acting(t) /\ SettleWatchers(W) /\ W \in SUBSET Registered
      /\ ran' = [ran EXCEPT ![t] = "ending"]
      /\ edits' \subseteq edits
      /\ excused' \subseteq excused \cup [watch : Watching(target[t])]
  BY DEF Complete, Heard
<1> HIDE DEF W
<1>2. TypeOK /\ t \in batch /\ ran[t] = "running"
  BY <1>1, Standing DEF Acting
<1>3. /\ ran'[t] = "ending" /\ \A u \in Trigger : u # t => ran'[u] = ran[u]
      /\ ran' \in [Trigger -> {"no", "running", "ending", "dropped"} \cup Settled]
  BY <1>1, <1>2 DEF TypeOK
<1>4. /\ \A u \in Trigger : target[u] # Nobody => target'[u] = target[u]
      /\ \A u \in Trigger : target'[u] = Nobody => target[u] = Nobody
  BY <1>1, Settling
<1>5. TypeOK'
  <2>1. excused' \subseteq [watch : Watch] \cup [edit : Agent]
    BY <1>1, <1>2 DEF TypeOK, Watching, Registered
  <2> QED BY <1>1, <1>2, <1>3, <2>1, Settling, Waking DEF TypeOK, WatchRecord
<1>6. QueueBooks'
  <2>1. ASSUME NEW a \in Agent, NEW i \in DOMAIN pending'[a], i \in DOMAIN pending[a]
        PROVE  /\ pending'[a][i] = pending[a][i] /\ pending[a][i] \in Trigger
               /\ target'[pending'[a][i]] = a
               /\ pending'[a][i] \in Ordinary =>
                    /\ pending'[a][i] \notin batch' /\ ran'[pending'[a][i]] = "no"
                    /\ waiter'[pending'[a][i]] \in {"none", "waiting", "rejected"}
                    /\ \A j \in DOMAIN pending[a] : pending[a][j] = pending[a][i] => j = i
    <3>1. pending'[a][i] = pending[a][i]
      BY <1>1, <2>1, Waking
    <3>2. pending[a][i] \in Trigger
      BY <1>2, <2>1 DEF TypeOK
    <3>3. /\ target[pending[a][i]] = a
          /\ pending[a][i] \in Ordinary =>
               /\ pending[a][i] \notin batch /\ ran[pending[a][i]] = "no"
               /\ waiter[pending[a][i]] \in {"none", "waiting", "rejected"}
               /\ \A j \in DOMAIN pending[a] : pending[a][j] = pending[a][i] => j = i
      BY <2>1 DEF IInv, Books, QueueBooks
    <3>4. target'[pending[a][i]] = a
      BY <1>4, <3>2, <3>3
    <3> QED BY <1>1, <1>2, <1>3, <3>1, <3>2, <3>3, <3>4
  <2>2. ASSUME NEW a \in Agent, NEW i \in DOMAIN pending'[a], i \notin DOMAIN pending[a]
        PROVE  pending'[a][i] \notin Ordinary /\ target'[pending'[a][i]] = a
    BY <1>1, <2>2, Waking
  <2>3. ASSUME NEW a \in Agent, NEW i \in DOMAIN pending'[a], pending'[a][i] \in Ordinary
        PROVE  \A j \in DOMAIN pending'[a] : pending'[a][j] = pending'[a][i] => j = i
    <3>1. i \in DOMAIN pending[a]
      BY <2>2, <2>3
    <3>2. \A j \in DOMAIN pending'[a] : pending'[a][j] = pending'[a][i] => j \in DOMAIN pending[a]
      BY <2>2, <2>3
    <3>3. \A j \in DOMAIN pending[a] : j \in DOMAIN pending'[a] /\ pending'[a][j] = pending[a][j]
      BY <1>1, Waking
    <3> QED BY <2>1, <2>3, <3>1, <3>2, <3>3
  <2> QED BY <2>1, <2>2, <2>3 DEF QueueBooks
<1>7. TriggerBooks'
  <2>1. \A u \in Trigger : target'[u] = Nobody => u # t
    BY <1>2, <1>4, Standing
  <2>2. \A u \in Trigger : target'[u] = Nobody => u \notin batch' /\ ran'[u] = "no" /\ waiter'[u] = "none"
    BY <1>1, <1>3, <1>4, <2>1 DEF IInv, Books, TriggerBooks
  <2>3. \A u \in batch' : target'[u] \in Agent /\ ran'[u] \in {"running", "ending"}
    BY <1>1, <1>2, <1>3, <1>4 DEF IInv, Books, TriggerBooks, TypeOK
  <2>4. \A u \in Trigger \ Ordinary : waiter'[u] = "none"
    BY <1>1 DEF IInv, Books, TriggerBooks
  <2> QED BY <2>2, <2>3, <2>4 DEF TriggerBooks
<1>8. WaitingIsQueued'
  <2> SUFFICES ASSUME NEW u \in Trigger, waiter'[u] = "waiting"
               PROVE  target'[u] \in Active' /\ u \in Queued(target[u])'
    BY DEF WaitingIsQueued
  <2>1. target[u] \in Active /\ u \in Queued(target[u]) /\ target[u] \in Agent
    BY <1>1 DEF IInv, CInv, WaitingIsQueued, Active
  <2>2. target'[u] = target[u]
    BY <1>4, <2>1
  <2>3. PICK i \in DOMAIN pending[target[u]] : pending[target[u]][i] = u
    BY <2>1 DEF Queued
  <2>4. i \in DOMAIN pending'[target[u]] /\ pending'[target[u]][i] = u
    BY <1>1, <2>1, <2>3, Waking
  <2> QED BY <1>1, <2>1, <2>2, <2>4 DEF Queued, Active
<1>9. AnswerIsOwnTurn'
  BY <1>1, <1>2, <1>3 DEF IInv, CInv, AnswerIsOwnTurn, Settled
<1>10. TurnsAreOwned'
  <2>1. \A u \in batch : u \in Trigger /\ target'[u] = target[u]
    BY <1>4, Standing
  <2>2. \A u \in batch : ran'[u] = "running" => ran[u] = "running"
    BY <1>3, <2>1
  <2> QED BY <1>1, <2>1, <2>2 DEF IInv, CInv, TurnsAreOwned, Active
<1>11. WatchedAreAlive'
  <2>1. \A w \in Watch : watcher'[w].state = "registered" => watcher'[w] = watcher[w]
    BY <1>1, Settling
  <2> QED BY <1>1, <2>1, Standing DEF WatchedAreAlive, Registered, Active
<1>12. WatchBooks'
  <2> SUFFICES ASSUME NEW w \in Watch, watcher'[w].state \in {"unused", "registered"}
               PROVE  /\ target'[Wake(w)] = Nobody
                      /\ watcher'[w].state = "registered" =>
                           watcher'[w].from \in Agent /\ watcher'[w].to \in Agent
    BY DEF WatchBooks
  <2>1. w \notin W /\ watcher'[w] = watcher[w]
    BY <1>1, Settling
  <2>2. target'[Wake(w)] = target[Wake(w)]
    BY <1>1, <2>1, Settling
  <2> QED BY <2>1, <2>2 DEF IInv, Books, WatchBooks
<1> QED BY <1>5, <1>6, <1>7, <1>8, <1>9, <1>10, <1>11, <1>12 DEF IInv, CInv, Books

LEMMA NextInv == IInv /\ [Next]_vars => IInv'
<1> SUFFICES ASSUME IInv, [Next]_vars PROVE IInv'
  OBVIOUS
<1>1. CASE Tick
  BY <1>1, TickInv
<1>2. CASE EmptyRecycleBin
  BY <1>2, EmptyRecycleBinInv
<1>3. CASE Reset
  BY <1>3, ResetInv
<1>4. ASSUME NEW a \in Agent,
             \/ UserTurn(a) \/ MailArrives(a) \/ Launch(a) \/ HostWaits(a)
             \/ KillAgent(a) \/ PurgeAgent(a) \/ RestoreAgent(a)
             \/ CancelAgent(a) \/ UnstickAgent(a)
      PROVE  IInv'
  BY <1>4, UserTurnInv, MailInv, LaunchInv, HostWaitsInv, KillInv, PurgeInv, RestoreInv,
     CancelInv, UnstickInv
<1>5. ASSUME NEW t \in Trigger, Complete(t) \/ Release(t) PROVE IInv'
  BY <1>5, CompleteInv, ReleaseInv
<1>6. ASSUME NEW t \in Trigger, NEW a \in Agent,
             SpawnAndAwait(t, a) \/ EditAgent(t, a) \/ WaitForAgent(t, a) \/ NotifyOfAgent(t, a)
      PROVE  IInv'
  BY <1>6, SpawnInv, EditAgentInv, WaitForAgentInv, NotifyInv
<1>7. ASSUME NEW w \in Watch, WatchTimeout(w) PROVE IInv'
  BY <1>7, WatchTimeoutInv
<1>8. ASSUME NEW p \in [Agent -> {"active", "recycled", "absent"}], ImportSnapshot(p) PROVE IInv'
  BY <1>8, ImportInv
<1>9. CASE UNCHANGED vars
  BY <1>9 DEF vars, queueVars, turnVars, watchVars, histVars, IInv, CInv, TypeOK, WaitingIsQueued,
     AnswerIsOwnTurn, TurnsAreOwned, WatchedAreAlive, Books, QueueBooks, TriggerBooks, WatchBooks,
     Active, Queued, Registered
<1> QED BY <1>1, <1>2, <1>3, <1>4, <1>5, <1>6, <1>7, <1>8, <1>9 DEF Next

LEMMA Induction == Spec => []IInv
<1> QED BY InitInv, NextInv, PTL DEF Spec

-----------------------------------------------------------------------------
(* Promises and completions                                                *)

\* Whatever is killed, purged, restored, reset or imported at any moment: a
\* promise of enqueueUserTurn waits only while its trigger is queued for an
\* active agent (#rejectUserTurnWaiters, runtime/index.ts), it settles with the
\* outcome of its own turn (dispatchTrigger), a turn that may go on owns its
\* agent, and watchers are alive and watch the living (waitForAgent).
THEOREM PromisesAreKept == Spec => []CInv
<1>1. IInv => CInv
  BY DEF IInv
<1> QED BY <1>1, Induction, PTL

\* The type invariant.
THEOREM CoordinationTypes == Spec => []TypeOK
<1>1. IInv => TypeOK
  BY DEF IInv, CInv
<1> QED BY <1>1, Induction, PTL

LEMMA NamesakeStep ==
  ASSUME IInv, [Next]_vars, NEW w \in Watch,
         watcher[w].state = "registered", watcher'[w].state \in {"completed", "woken"}
  PROVE  \E t \in batch : target[t] = watcher[w].to /\ ran[t] = "running" /\ ran'[t] = "ending"
<1> USE Numbers
<1>0. TypeOK
  BY Standing
<1>1. ASSUME NEW t \in Trigger, Complete(t)
      PROVE  target[t] = watcher[w].to /\ t \in batch /\ ran[t] = "running" /\ ran'[t] = "ending"
  <2>1. Acting(t) /\ SettleWatchers(Heard(t)) /\ ran' = [ran EXCEPT ![t] = "ending"]
    BY <1>1 DEF Complete
  <2>2. w \in Heard(t)
    BY <2>1 DEF SettleWatchers
  <2>3. target[t] \in Active \cap Namesakes(target[t])
    BY <2>1, Standing DEF Namesakes
  <2> QED BY <1>0, <2>1, <2>2, <2>3 DEF Heard, Acting, TypeOK
<1>2. ASSUME NEW v \in Watch, NEW m, NEW a, NEW b, NewWatch(v), Register(v, m, a, b) PROVE FALSE
  BY <1>0, <1>2 DEF NewWatch, Register, TypeOK
<1>3. ASSUME NEW S, DropWatchers(S) PROVE FALSE
  BY <1>3, <1>0 DEF DropWatchers, TypeOK
<1>4. ASSUME NEW t \in Trigger, NEW b \in Agent, NotifyOfAgent(t, b) PROVE FALSE
  <2>1. PICK v \in Watch :
          /\ NewWatch(v)
          /\ \/ Register(v, "notify", target[t], b)
             \/ watcher' = [watcher EXCEPT ![v] =
                  [state |-> "woken", mode |-> "notify", from |-> target[t], to |-> b]]
    BY <1>4 DEF NotifyOfAgent
  <2>2. watcher[v].state = "unused"
    BY <2>1 DEF NewWatch
  <2> QED BY <1>0, <1>2, <2>1, <2>2 DEF TypeOK
<1>5. ASSUME Reset PROVE FALSE
  BY <1>0, <1>5 DEF Reset, Registered, TypeOK
<1>6. ASSUME NEW v \in Watch, WatchTimeout(v) PROVE FALSE
  BY <1>0, <1>6 DEF WatchTimeout, TypeOK
<1>7. watcher' # watcher
  OBVIOUS
<1>8. ASSUME NEW a \in Agent, KillAgent(a) \/ PurgeAgent(a) PROVE FALSE
  BY <1>3, <1>8 DEF KillAgent, PurgeAgent
<1>9. ASSUME EmptyRecycleBin PROVE FALSE
  BY <1>3, <1>9 DEF EmptyRecycleBin
<1>10. ASSUME NEW a \in Agent, HostWaits(a) PROVE FALSE
  BY <1>2, <1>10 DEF HostWaits
<1>11. ASSUME NEW t \in Trigger, NEW a \in Agent, WaitForAgent(t, a) PROVE FALSE
  BY <1>2, <1>11 DEF WaitForAgent
<1>12. PICK t \in Trigger : Complete(t)
  BY <1>4, <1>5, <1>6, <1>7, <1>8, <1>9, <1>10, <1>11
     DEF Next, Tick, UserTurn, MailArrives, Launch, RestoreAgent, CancelAgent, UnstickAgent,
         Release, SpawnAndAwait, EditAgent, ImportSnapshot, vars, watchVars
<1> QED BY <1>1, <1>12

\* Whoever waits for an agent with waitForAgent is told that it has finished
\* only when a turn of that very agent completes, never when a turn of another
\* agent of the same bare id does, although turn_complete names the bare id.
THEOREM CompletionsAreOwn == Spec => NamesakesApart
<1>1. IInv /\ [Next]_vars =>
        [\A w \in Watch :
           watcher[w].state = "registered" /\ watcher'[w].state \in {"completed", "woken"} =>
             \E t \in batch : /\ target[t] = watcher[w].to
                              /\ ran[t] = "running" /\ ran'[t] = "ending"]_vars
  BY NamesakeStep
<1> QED BY <1>1, Induction, PTL DEF Spec, NamesakesApart

-----------------------------------------------------------------------------
(* Watches and edits on agents that have gone quiet                        *)

\* No turn of the agent will complete any more unless another is enqueued.
Quiet(a) == (a \notin busy \/ Ending(a)) /\ pending[a] = <<>>

\* Its watches and its edit have their excuse.
Accounted(a) ==
  /\ \A w \in Watch : watcher[w].state = "registered" /\ watcher[w].to = a => [watch |-> w] \in excused
  /\ a \in edits => [edit |-> a] \in excused

\* NothingForgotten is not inductive: a turn that has emitted its completion
\* still counts as work, and what is recycled now may be restored.
QInv ==
  /\ \A a \in Agent : Quiet(a) => Accounted(a)
  /\ \A a \in busy : \E t \in batch : target[t] = a

LEMMA Accounts ==
  ASSUME NEW a \in Agent
  PROVE  Accounted(a) <=> Unheard(a) \subseteq excused
<1>1. ASSUME Accounted(a) PROVE Unheard(a) \subseteq excused
  <2> SUFFICES ASSUME NEW r \in Unheard(a) PROVE r \in excused
    OBVIOUS
  <2>1. CASE r \in [watch : Watching(a)]
    <3>1. PICK w \in Watching(a) : r = [watch |-> w]
      BY <2>1
    <3> QED BY <1>1, <3>1 DEF Accounted, Watching, Registered
  <2>2. CASE r \in [edit : edits \cap {a}]
    <3>1. a \in edits /\ r = [edit |-> a]
      BY <2>2
    <3> QED BY <1>1, <3>1 DEF Accounted
  <2> QED BY <2>1, <2>2 DEF Unheard
<1>2. ASSUME Unheard(a) \subseteq excused PROVE Accounted(a)
  BY <1>2 DEF Accounted, Unheard, Watching, Registered
<1> QED BY <1>1, <1>2

\* A step that registers nothing, defers nothing and ends no turn only has to
\* account for the agents whose record it frees.
LEMMA CalmStep ==
  ASSUME QInv, UNCHANGED batch,
         \A t \in batch : ran'[t] = ran[t] /\ target'[t] = target[t],
         \A a \in Agent : pending'[a] = <<>> => pending[a] = <<>>,
         \A w \in Watch : watcher'[w].state = "registered" => watcher'[w] = watcher[w],
         edits' \subseteq edits, excused \subseteq excused', busy' \subseteq busy,
         \A a \in Agent : a \in busy /\ a \notin busy' => Accounted(a)'
  PROVE  QInv'
<1>1. \A a \in Agent : Ending(a)' => Ending(a)
  BY DEF Ending
<1>2. ASSUME NEW a \in Agent, Quiet(a)' PROVE Accounted(a)'
  <2>1. CASE a \in busy /\ a \notin busy'
    BY <2>1
  <2>2. CASE ~(a \in busy /\ a \notin busy')
    BY <1>1, <1>2, <2>2 DEF QInv, Quiet, Accounted
  <2> QED BY <2>1, <2>2
<1>3. \A a \in busy' : \E t \in batch' : target'[t] = a
  BY DEF QInv
<1> QED BY <1>2, <1>3 DEF QInv

\* Enqueueing only makes an agent less quiet.
LEMMA EnqueueCalm ==
  ASSUME IInv, QInv, NEW t \in Trigger, NEW a \in Agent, target[t] = Nobody, Enqueue(t, a),
         UNCHANGED <<batch, ran, watcher, edits, excused, busy>>
  PROVE  QInv'
<1> USE Numbers
<1>1. \A b \in Agent : pending'[b] = <<>> => pending[b] = <<>>
  BY Standing DEF Enqueue, TypeOK
<1>2. \A u \in batch : target'[u] = target[u]
  BY Standing DEF Enqueue, TypeOK
<1> QED BY <1>1, <1>2, CalmStep

LEMMA EnqueuersKeepQInv ==
  ASSUME IInv, QInv, NEW a \in Agent,
         UserTurn(a) \/ MailArrives(a) \/ Launch(a) \/ \E t \in Trigger : SpawnAndAwait(t, a)
  PROVE  QInv'
<1> USE Numbers
<1>1. UNCHANGED <<batch, ran, watcher, edits, excused, busy>>
  BY DEF UserTurn, MailArrives, Launch, SpawnAndAwait, turnVars, watchVars, histVars
<1>2. CASE \E t \in Ordinary : target[t] = Nobody /\ Enqueue(t, a)
  BY <1>1, <1>2, EnqueueCalm
<1>3. CASE UNCHANGED <<pending, target>>
  BY <1>1, <1>3, CalmStep
<1> QED BY <1>2, <1>3 DEF UserTurn, MailArrives, Launch, SpawnAndAwait, EnqueueUserTurn, New

LEMMA MishapsKeepQInv ==
  ASSUME IInv, QInv, NEW a \in Agent,
         KillAgent(a) \/ PurgeAgent(a) \/ RestoreAgent(a) \/ CancelAgent(a) \/ UnstickAgent(a)
  PROVE  QInv'
<1> USE Numbers
<1>0. TypeOK
  BY Standing
<1>1. CASE KillAgent(a)
  <2>1. /\ UNCHANGED <<pending, batch, target, ran, excused>> /\ busy' = busy \ {a}
        /\ DropWatchers(Namesakes(a)) /\ a \in Namesakes(a) /\ edits' = edits \ Namesakes(a)
    BY <1>1 DEF KillAgent, queueVars, histVars, Namesakes
  <2>2. Accounted(a)'
    BY <1>0, <2>1, Dropping DEF Accounted
  <2> QED BY <1>0, <2>1, <2>2, Dropping, CalmStep
<1>2. CASE PurgeAgent(a)
  <2>1. /\ UNCHANGED <<pending, batch, target, ran>> /\ busy' = busy \ {a}
        /\ \E S : DropWatchers(S)
        /\ edits' \subseteq edits /\ excused' = excused \cup Unheard(a)
    BY <1>2 DEF PurgeAgent, queueVars, Excuse
  <2>2. \A w \in Watch : watcher'[w].state = "registered" => watcher'[w] = watcher[w]
    BY <1>0, <2>1, Dropping
  <2>3. Accounted(a)'
    BY <2>1, <2>2 DEF Accounted, Unheard, Watching, Registered
  <2> QED BY <2>1, <2>2, <2>3, CalmStep
<1>3. CASE RestoreAgent(a) \/ CancelAgent(a)
  <2>1. UNCHANGED <<busy, pending, batch, target, ran, watcher, edits, excused>>
    BY <1>3 DEF RestoreAgent, CancelAgent, queueVars, turnVars, watchVars, histVars
  <2> QED BY <2>1, CalmStep
<1>4. CASE UnstickAgent(a)
  <2>1. /\ UNCHANGED <<pending, batch, target, ran, watcher, edits>> /\ busy' = busy \ {a}
        /\ excused' = excused \cup Unheard(a)
    BY <1>4 DEF UnstickAgent, queueVars, watchVars, Excuse
  <2>2. Accounted(a)'
    BY <2>1 DEF Accounted, Unheard, Watching, Registered
  <2> QED BY <2>1, <2>2, CalmStep
<1> QED BY <1>1, <1>2, <1>3, <1>4

LEMMA UpheavalsKeepQInv ==
  ASSUME IInv, QInv,
         \/ EmptyRecycleBin \/ Reset
         \/ \E p \in [Agent -> {"active", "recycled", "absent"}] : ImportSnapshot(p)
         \/ \E w \in Watch : WatchTimeout(w)
  PROVE  QInv'
<1> USE Numbers
<1>0. TypeOK
  BY Standing
<1>1. CASE EmptyRecycleBin
  <2>1. /\ UNCHANGED <<busy, pending, batch, target, ran, excused>>
        /\ \E S : DropWatchers(S)
        /\ edits' \subseteq edits
    BY <1>1 DEF EmptyRecycleBin, queueVars, turnVars, histVars
  <2>2. \A w \in Watch : watcher'[w].state = "registered" => watcher'[w] = watcher[w]
    BY <1>0, <2>1, Dropping
  <2> QED BY <2>1, <2>2, CalmStep
<1>2. CASE Reset
  <2>1. /\ UNCHANGED <<pending, batch, target, ran, excused>> /\ busy' = {} /\ edits' = {}
        /\ \A w \in Watch : watcher'[w].state # "registered"
    BY <1>0, <1>2 DEF Reset, queueVars, histVars, Registered, TypeOK
  <2>2. \A a \in Agent : Accounted(a)'
    BY <2>1 DEF Accounted
  <2> QED BY <2>1, <2>2, CalmStep
<1>3. ASSUME NEW p \in [Agent -> {"active", "recycled", "absent"}], ImportSnapshot(p)
      PROVE  QInv'
  <2>1. /\ UNCHANGED <<pending, batch, target, ran, watcher, edits>> /\ busy' = {}
        /\ excused' = excused \cup UNION {Unheard(a) : a \in Agent}
    BY <1>3 DEF ImportSnapshot, queueVars, watchVars, Excuse
  <2>2. ASSUME NEW a \in Agent PROVE Accounted(a)'
    <3>1. Unheard(a) \subseteq excused'
      BY <2>1
    <3> QED BY <2>1, <3>1 DEF Accounted, Unheard, Watching, Registered
  <2> QED BY <2>1, <2>2, CalmStep
<1>4. ASSUME NEW w \in Watch, WatchTimeout(w) PROVE QInv'
  <2>1. /\ UNCHANGED <<busy, pending, batch, target, ran, edits, excused>>
        /\ watcher' = [watcher EXCEPT ![w].state = "timedout"]
    BY <1>4 DEF WatchTimeout, queueVars, turnVars, histVars
  <2>2. \A v \in Watch : watcher'[v].state = "registered" => watcher'[v] = watcher[v]
    BY <1>0, <2>1 DEF TypeOK
  <2> QED BY <2>1, <2>2, CalmStep
<1> QED BY <1>1, <1>2, <1>3, <1>4

\* A watch that is registered on a quiet agent has its excuse from the start.
LEMMA RegisterKeepsQInv ==
  ASSUME IInv, QInv, NEW w \in Watch, NEW m, NEW a \in Agent, NEW b \in Agent,
         Register(w, m, a, b), UNCHANGED <<busy, pending, batch, target, ran, edits>>
  PROVE  QInv'
<1> USE Numbers
<1>0. TypeOK
  BY Standing
<1>1. /\ ~Quiescent(b)
      /\ watcher' = [watcher EXCEPT ![w] =
           [state |-> "registered", mode |-> m, from |-> a, to |-> b]]
      /\ excused \subseteq excused'
  BY DEF Register, Excuse
<1>2. \A c \in Agent : (Ending(c)' <=> Ending(c)) /\ (Quiet(c)' <=> Quiet(c))
  BY DEF Ending, Quiet
<1>3. Quiet(b) => [watch |-> w] \in excused'
  <2> SUFFICES ASSUME Quiet(b)
               PROVE  [watch |-> w] \in excused'
    OBVIOUS
  <2>1. pending[b] = <<>> /\ (IF b \in busy THEN Ending(b) ELSE ~Quiescent(b))
    BY <1>1 DEF Quiet
  <2> QED BY <2>1 DEF Register, Excuse
<1>4. ASSUME NEW c \in Agent, Quiet(c) PROVE Accounted(c)'
  <2>1. Accounted(c)
    BY <1>4 DEF QInv
  <2>2. ASSUME NEW v \in Watch, watcher'[v].state = "registered", watcher'[v].to = c
        PROVE  [watch |-> v] \in excused'
    <3>1. CASE v = w
      BY <1>0, <1>1, <1>3, <1>4, <2>2, <3>1 DEF TypeOK
    <3>2. CASE v # w
      BY <1>0, <1>1, <2>1, <2>2, <3>2 DEF Accounted, TypeOK
    <3> QED BY <3>1, <3>2
  <2> QED BY <1>1, <2>1, <2>2 DEF Accounted
<1> QED BY <1>2, <1>4 DEF QInv

LEMMA WatchersKeepQInv ==
  ASSUME IInv, QInv, NEW b \in Agent,
         \/ HostWaits(b)
         \/ \E t \in Trigger : WaitForAgent(t, b) \/ NotifyOfAgent(t, b)
  PROVE  QInv'
<1> USE Numbers
<1>1. CASE HostWaits(b)
  BY <1>1, RegisterKeepsQInv DEF HostWaits, queueVars, turnVars
<1>2. ASSUME NEW t \in Trigger, WaitForAgent(t, b) PROVE QInv'
  <2>1. target[t] \in Agent
    BY <1>2, Standing DEF WaitForAgent
  <2> QED BY <1>2, <2>1, RegisterKeepsQInv DEF WaitForAgent, queueVars
<1>3. ASSUME NEW t \in Trigger, NotifyOfAgent(t, b) PROVE QInv'
  <2>1. target[t] \in Agent
    BY <1>3, Standing DEF NotifyOfAgent
  <2>2. /\ UNCHANGED <<busy, batch, ran, edits>>
        /\ \E w \in Watch :
             /\ watcher[w].state = "unused"
             /\ \/ Register(w, "notify", target[t], b) /\ UNCHANGED <<pending, target>>
                \/ /\ watcher' = [watcher EXCEPT ![w] =
                        [state |-> "woken", mode |-> "notify", from |-> target[t], to |-> b]]
                   /\ Enqueue(Wake(w), target[t])
                   /\ UNCHANGED excused
    BY <1>3 DEF NotifyOfAgent, NewWatch, turnVars
  <2>3. PICK w \in Watch :
             /\ watcher[w].state = "unused"
             /\ \/ Register(w, "notify", target[t], b) /\ UNCHANGED <<pending, target>>
                \/ /\ watcher' = [watcher EXCEPT ![w] =
                        [state |-> "woken", mode |-> "notify", from |-> target[t], to |-> b]]
                   /\ Enqueue(Wake(w), target[t])
                   /\ UNCHANGED excused
    BY <2>2
  <2>4. CASE Register(w, "notify", target[t], b) /\ UNCHANGED <<pending, target>>
    BY <2>1, <2>2, <2>4, RegisterKeepsQInv
  <2>5. CASE /\ watcher' = [watcher EXCEPT ![w] =
                  [state |-> "woken", mode |-> "notify", from |-> target[t], to |-> b]]
             /\ Enqueue(Wake(w), target[t])
             /\ UNCHANGED excused
    <3>1. TypeOK /\ target[Wake(w)] = Nobody
      BY <2>3, Standing DEF IInv, Books, WatchBooks
    <3>2. \A v \in Watch : watcher'[v].state = "registered" => watcher'[v] = watcher[v]
      BY <2>5, <3>1 DEF TypeOK
    <3>3. \A c \in Agent : pending'[c] = <<>> => pending[c] = <<>>
      BY <2>1, <2>5, <3>1 DEF Enqueue, TypeOK
    <3>4. \A u \in batch : target'[u] = target[u]
      BY <2>1, <2>5, <3>1, Standing DEF Enqueue, TypeOK
    <3> QED BY <2>2, <2>5, <3>2, <3>3, <3>4, CalmStep
  <2> QED BY <2>3, <2>4, <2>5
<1> QED BY <1>1, <1>2, <1>3

LEMMA EditKeepsQInv ==
  ASSUME IInv, QInv, NEW t \in Trigger, NEW a \in Agent, EditAgent(t, a) PROVE QInv'
<1>1. /\ UNCHANGED <<busy, pending, batch, target, ran, watcher>>
      /\ a \in busy /\ edits' = edits \cup {a} /\ excused \subseteq excused'
      /\ Ending(a) /\ pending[a] = <<>> => [edit |-> a] \in excused'
  BY DEF EditAgent, queueVars, turnVars, Excuse
<1>2. \A c \in Agent : Quiet(c)' <=> Quiet(c)
  BY <1>1 DEF Ending, Quiet
<1>3. ASSUME NEW c \in Agent, Quiet(c) PROVE Accounted(c)'
  <2>1. Accounted(c)
    BY <1>3 DEF QInv
  <2>2. c = a => [edit |-> c] \in excused'
    BY <1>1, <1>3 DEF Quiet
  <2> QED BY <1>1, <2>1, <2>2 DEF Accounted
<1> QED BY <1>1, <1>2, <1>3 DEF QInv

\* A tick finds no turn under way, so that whoever gets no turn was quiet
\* before or had its triggers dropped.
LEMMA TickKeepsQInv == ASSUME IInv, QInv, Tick PROVE QInv'
<1> USE Numbers
<1>0. PICK read \in SUBSET {t \in Heads : IsMail(t)} :
        LET run == {t \in Heads : place[target[t]] = "active"} \ read
        IN  /\ batch' = run
            /\ busy' = {target[t] : t \in run}
            /\ ran' = [t \in Trigger |->
                 CASE t \in run -> "running"
                   [] t \in Heads \ run -> "dropped"
                   [] OTHER -> ran[t]]
            /\ waiter' = [t \in Trigger |->
                 IF t \in run /\ waiter[t] = "waiting" THEN "claimed" ELSE waiter[t]]
            /\ Excuse(UNION {Unheard(target[t]) : t \in Heads \ run})
  BY DEF Tick
<1> DEFINE run == {t \in Heads : place[target[t]] = "active"} \ read
<1>1. /\ UNCHANGED <<target, watcher, edits>>
      /\ batch = {} /\ batch' = run
      /\ busy' = {target[t] : t \in run}
      /\ excused' = excused \cup UNION {Unheard(target[t]) : t \in Heads \ run}
      /\ pending' = [a \in Agent |-> IF pending[a] = <<>> THEN <<>> ELSE Tail(pending[a])]
  BY <1>0 DEF Tick, watchVars, Excuse
<1>2. \A t \in run : t \in Trigger /\ ran'[t] = "running"
  <2>1. \A t \in Heads : t \in Trigger
    BY Standing DEF Heads, TypeOK
  <2> QED BY <1>0, <2>1
<1> HIDE DEF run
<1>3. busy = {}
  BY <1>1 DEF QInv
<1>4. \A a \in Agent : ~Ending(a)'
  BY <1>1, <1>2 DEF Ending
<1>5. ASSUME NEW a \in Agent, Quiet(a)' PROVE Accounted(a)'
  <2>1. a \notin busy'
    BY <1>4, <1>5 DEF Quiet
  <2>2. CASE pending[a] = <<>>
    <3>1. Accounted(a)
      BY <1>3, <2>2 DEF QInv, Quiet
    <3> QED BY <1>1, <3>1 DEF Accounted
  <2>3. CASE pending[a] # <<>>
    <3>1. Head(pending[a]) \in Heads
      BY <2>3 DEF Heads
    <3>2. target[Head(pending[a])] = a
      <4>1. 1 \in DOMAIN pending[a] /\ Head(pending[a]) = pending[a][1]
        BY <2>3, Standing DEF TypeOK
      <4> QED BY <4>1 DEF IInv, Books, QueueBooks
    <3>3. Head(pending[a]) \notin run
      BY <1>1, <2>1, <3>2
    <3>4. Unheard(a) \subseteq excused'
      BY <1>1, <3>1, <3>2, <3>3
    <3> QED BY <1>1, <3>4 DEF Accounted, Unheard, Watching, Registered
  <2> QED BY <2>2, <2>3
<1> QED BY <1>1, <1>5 DEF QInv

LEMMA ReleaseKeepsQInv == ASSUME IInv, QInv, NEW t \in Trigger, Release(t) PROVE QInv'
<1> USE Numbers
<1>0. PICK o \in Outcome(t) :
        /\ ran' = [ran EXCEPT ![t] = o]
        /\ Excuse(IF o = "completed" THEN {} ELSE Unheard(target[t]))
  BY DEF Release
<1>1. /\ UNCHANGED <<pending, target, watcher, edits>>
      /\ t \in batch /\ batch' = batch \ {t} /\ busy' = busy \ {target[t]}
      /\ excused \subseteq excused'
  BY <1>0 DEF Release, watchVars, Excuse
<1>2. TypeOK /\ \A u \in batch : u # t => target[u] # target[t] /\ ran'[u] = ran[u]
  <2>1. TypeOK /\ \A u \in batch : u # t => target[u] # target[t]
    BY <1>1 DEF IInv, CInv, TurnsAreOwned
  <2> QED BY <1>0, <2>1 DEF TypeOK
<1>3. ASSUME NEW a \in Agent, a # target[t], Quiet(a)' PROVE Accounted(a)'
  <2>1. Quiet(a)
    BY <1>1, <1>2, <1>3 DEF Quiet, Ending
  <2> QED BY <1>1, <2>1 DEF QInv, Accounted
<1>4. ASSUME target[t] \in Agent, Quiet(target[t])' PROVE Accounted(target[t])'
  <2>1. pending[target[t]] = <<>>
    BY <1>1, <1>4 DEF Quiet
  <2>2. CASE ran[t] = "ending"
    <3>1. Quiet(target[t])
      BY <1>1, <2>1, <2>2 DEF Quiet, Ending
    <3> QED BY <1>1, <1>4, <3>1 DEF QInv, Accounted
  <2>3. CASE ran[t] # "ending"
    <3>1. Unheard(target[t]) \subseteq excused'
      BY <1>0, <2>3 DEF Outcome, Excuse
    <3> QED BY <1>1, <3>1 DEF Accounted, Unheard, Watching, Registered
  <2> QED BY <2>2, <2>3
<1>5. \A a \in busy' : \E u \in batch' : target'[u] = a
  BY <1>1 DEF QInv
<1> QED BY <1>1, <1>3, <1>4, <1>5 DEF QInv

\* The completion of a turn serves the watchers of its agent, or excuses them
\* when its bare id is ambiguous, and the edit of the agent.
LEMMA CompleteKeepsQInv == ASSUME IInv, QInv, NEW t \in Trigger, Complete(t) PROVE QInv'
<1> USE Numbers
<1> DEFINE W == Heard(t)
<1>1. /\ UNCHANGED <<busy, batch>>
      /\ Acting(t) /\ SettleWatchers(W) /\ W \in SUBSET Registered
      /\ ran' = [ran EXCEPT ![t] = "ending"]
      /\ edits' = edits \ Flushed(t)
      /\ excused' = (excused \ [edit : Flushed(t)])
                    \cup (IF Ambiguous(t) THEN [watch : Watching(target[t])] ELSE {})
  BY DEF Complete, Heard
<1> HIDE DEF W
<1>2. /\ TypeOK /\ t \in batch /\ ran[t] = "running" /\ target[t] \in Agent
      /\ \A u \in batch : u \in Trigger /\ target[u] \in Agent
      /\ \A u \in batch : u # t => target[u] # target[t]
  BY <1>1, Standing DEF Acting, IInv, CInv, TurnsAreOwned
<1>3. /\ \A u \in batch : target'[u] = target[u]
      /\ \A u \in batch : u # t => ran'[u] = ran[u]
      /\ \A w \in Watch : watcher'[w].state = "registered" => watcher'[w] = watcher[w] /\ w \notin W
  <2>1. \A u \in batch : target'[u] = target[u]
    BY <1>1, <1>2, Settling
  <2>2. \A u \in batch : u # t => ran'[u] = ran[u]
    BY <1>1, <1>2 DEF TypeOK
  <2>3. \A w \in Watch : watcher'[w].state = "registered" => watcher'[w] = watcher[w] /\ w \notin W
    BY <1>1, Settling
  <2> QED BY <2>1, <2>2, <2>3
<1>4. \A a \in Agent : pending'[a] = <<>> => pending[a] = <<>>
  <2>1. \A a \in Agent : \A i \in DOMAIN pending[a] : i \in DOMAIN pending'[a]
    BY <1>1, Waking
  <2>2. pending' \in [Agent -> Seq(Trigger)]
    BY <1>1, Waking
  <2> QED BY <1>2, <2>1, <2>2 DEF TypeOK
<1>5. /\ \A w \in Watch : [watch |-> w] \in excused => [watch |-> w] \in excused'
      /\ \A a \in Agent : [edit |-> a] \in excused /\ a \notin Flushed(t) => [edit |-> a] \in excused'
  <2>1. \A w \in Watch : [watch |-> w] \notin [edit : Flushed(t)]
    OBVIOUS
  <2>2. \A a \in Agent : a \notin Flushed(t) => [edit |-> a] \notin [edit : Flushed(t)]
    OBVIOUS
  <2> QED BY <1>1, <2>1, <2>2
<1>6. ASSUME NEW a \in Agent, a # target[t], Quiet(a)' PROVE Accounted(a)'
  <2>1. Quiet(a)
    BY <1>1, <1>2, <1>3, <1>4, <1>6 DEF Quiet, Ending
  <2>2. Accounted(a)
    BY <2>1 DEF QInv
  <2> QED BY <1>1, <1>3, <1>5, <2>2 DEF Accounted
<1>7. Accounted(target[t])'
  <2>1. target[t] \notin edits'
    BY <1>1, <1>2 DEF Flushed, Namesakes
  <2>2. ASSUME NEW w \in Watch, watcher'[w].state = "registered", watcher'[w].to = target[t]
        PROVE  [watch |-> w] \in excused'
    <3>1. w \in Registered /\ watcher[w].to = target[t] /\ w \notin W
      BY <1>3, <2>2 DEF Registered
    <3>2. Ambiguous(t)
      BY <3>1 DEF W, Heard, Ambiguous
    <3> QED BY <1>1, <3>1, <3>2 DEF Watching
  <2> QED BY <1>2, <1>3, <2>1, <2>2 DEF Accounted
<1>8. \A a \in busy' : \E u \in batch' : target'[u] = a
  BY <1>1, <1>3 DEF QInv
<1>9. target'[t] = target[t]
  BY <1>2, <1>3
<1> QED BY <1>6, <1>7, <1>8, <1>9 DEF QInv

LEMMA QInduction == Spec => []QInv
<1>1. Init => QInv
  BY DEF Init, QInv, Accounted, NoWatcher
<1>2. IInv /\ QInv /\ [Next]_vars => QInv'
  <2> SUFFICES ASSUME IInv, QInv, [Next]_vars PROVE QInv'
    OBVIOUS
  <2>1. CASE Tick
    BY <2>1, TickKeepsQInv
  <2>2. CASE UNCHANGED vars
    BY <2>2 DEF vars, queueVars, turnVars, watchVars, histVars, QInv, Quiet, Ending, Accounted
  <2>3. ASSUME NEW a \in Agent,
               \/ UserTurn(a) \/ MailArrives(a) \/ Launch(a) \/ HostWaits(a)
               \/ KillAgent(a) \/ PurgeAgent(a) \/ RestoreAgent(a)
               \/ CancelAgent(a) \/ UnstickAgent(a)
        PROVE  QInv'
    BY <2>3, EnqueuersKeepQInv, WatchersKeepQInv, MishapsKeepQInv
  <2>4. ASSUME NEW t \in Trigger, Complete(t) \/ Release(t) PROVE QInv'
    BY <2>4, CompleteKeepsQInv, ReleaseKeepsQInv
  <2>5. ASSUME NEW t \in Trigger, NEW a \in Agent,
               SpawnAndAwait(t, a) \/ EditAgent(t, a) \/ WaitForAgent(t, a) \/ NotifyOfAgent(t, a)
        PROVE  QInv'
    BY <2>5, EnqueuersKeepQInv, EditKeepsQInv, WatchersKeepQInv
  <2> QED BY <2>1, <2>2, <2>3, <2>4, <2>5, UpheavalsKeepQInv DEF Next
<1> QED BY <1>1, <1>2, Induction, PTL DEF Spec

\* No watch of waitForAgent and no deferred edit is left on an agent that has
\* gone quiet, but for the endings that emit no turn_complete or one that does
\* not say whose turn it was (runtime/index.ts, the listener of turn_complete).
THEOREM NobodyIsForgotten == Spec => []NothingForgotten
<1>1. QInv => NothingForgotten
  <2> SUFFICES ASSUME QInv, NEW a \in Active, a \notin busy, pending[a] = <<>>
               PROVE  Unheard(a) \subseteq excused
    BY DEF NothingForgotten
  <2>1. a \in Agent /\ Accounted(a)
    BY DEF QInv, Quiet, Active
  <2> QED BY <2>1, Accounts
<1> QED BY <1>1, QInduction, PTL
=============================================================================
