-------------------------- MODULE RuntimeScheduler --------------------------
(***************************************************************************)
(* The alarms agents set (runtime/runtimeScheduler/index.ts), with the     *)
(* agents they belong to, the host's timers, the mail that ends an alarm   *)
(* early, the snapshots that keep it, and the calls by which               *)
(* runtime/index.ts tears it down, replaces it and merges another Realm    *)
(* into it.                                                                *)
(*                                                                         *)
(* An alarm belongs to a reference: the canonical key of an agent, or what *)
(* the caller wrote if that denotes no agent.  Only the data of a pending  *)
(* alarm are kept: a row that is deleted reads cancelled.  An import makes *)
(* new task objects, and the callback of a host timer acts on the object   *)
(* it was made for; which object that is tells gen.                        *)
(*                                                                         *)
(* A definition whose name ends in _Fault is a seeded fault, as in         *)
(* TriggerQueue.                                                           *)
(***************************************************************************)
EXTENDS AgentIdentity, Naturals

CONSTANTS
  Resident,     \* agents of the preset the engine starts with
  Undying,      \* bound: agents nobody kills; all with realmBypass are, since
                \* an agent that is restored has lost it
  Timer,        \* timer ids
  Condition,    \* timerCondition: "never", "any", or the bare id of a sender
  Duration,     \* durations asked for
  MaxDelay,     \* the longest delay a timer of the host can keep
  MaxTime,      \* bound: the clock stops there
  MaxMishaps    \* bound: kills, purges, restarts, imports

ASSUME SchedulerAssumption ==
  /\ Resident \subseteq Key
  /\ \A a \in Key : RealmOf[a] = Bypass => a \in Undying
  /\ Duration \subseteq Nat \ {0}
  /\ MaxDelay \in Nat /\ MaxTime \in Nat /\ MaxMishaps \in Nat
  /\ {"never", "any"} \cap Bare = {}
  /\ Condition \subseteq {"never", "any"} \cup Bare

Ref       == Key \cup Bare
Place     == {"active", "recycled", "absent"}
NoRow(s)  == [status |-> s]
Row ==
  [status : {"unused", "triggered", "cancelled"}]
  \cup [status : {"pending"}, owner : Ref, cond : Condition, fireAt : Nat]

VARIABLES
  now,        \* Date.now()
  place,      \* #agents, #recycleBin of the runtime
  task,       \* #scheduledTasks
  timeouts,   \* timers of the host that have not fired
  gen,        \* how often the task objects have been replaced
  listening,  \* the bus has the subscription of #bindBusTimerListener
  stored,     \* the last snapshot saved
  rings,      \* history: triggers enqueued for an alarm since it was (re-)read
  ghosts,     \* history: pending alarms that have outlived their owner
  mishaps     \* history: how many disturbances there were

history == <<rings, ghosts>>
alarmVars == <<now, place, task, timeouts, gen, listening, stored, history, mishaps>>

PendingTasks == {i \in Timer : task[i].status = "pending"}
ActiveAgents == {a \in Key : place[a] = "active"}
Namesakes(r) == {a \in Key : BareOf[a] = r}

AlarmsTypeOK ==
  /\ now \in 0..MaxTime
  /\ place \in [Key -> Place]
  /\ task \in [Timer -> Row]
  /\ timeouts \subseteq [id : Timer, gen : Nat, due : Nat]
  /\ gen \in Nat
  /\ listening \in BOOLEAN
  /\ stored \in [place : [Key -> Place], task : [Timer -> Row]]
  /\ rings \in [Timer -> Nat]
  /\ ghosts \subseteq Timer
  /\ mishaps \in 0..MaxMishaps

AlarmsInit ==
  /\ now = 0
  /\ place = [a \in Key |-> IF a \in Resident THEN "active" ELSE "absent"]
  /\ task = [i \in Timer |-> NoRow("unused")]
  /\ timeouts = {}
  /\ gen = 0
  /\ listening = TRUE
  /\ stored = [place |-> place, task |-> task]
  /\ rings = [i \in Timer |-> 0]
  /\ ghosts = {}
  /\ mishaps = 0

-----------------------------------------------------------------------------
(* Identities                                                              *)

\* Which of the agents of L a reference denotes: the one of that key, or the
\* only one of that bare id.
Denotes(r, L) ==
  {a \in L : a = r \/ (BareOf[a] = r /\ L \cap Namesakes(r) = {a})}

\* The reference an alarm is kept under.
Stored(r, L) == IF Denotes(r, L) = {} THEN r ELSE CHOOSE a \in Denotes(r, L) : TRUE

-----------------------------------------------------------------------------
(* Setting an alarm, and the timer of the host                             *)

\* When the host calls back for an alarm of time f: at once if f has passed,
\* and at once as well if the delay is more than it can keep.
Due(f) == IF f =< now \/ f - now > MaxDelay THEN now ELSE f

\* The alarm of a reference the caller may wake.
Schedule(i, r, c, d) ==
  /\ task[i].status = "unused"
  /\ now + d =< MaxTime \/ d > MaxDelay
  /\ LET owner == Stored(r, ActiveAgents)
     IN  task' = [task EXCEPT ![i] =
           [status |-> "pending", owner |-> owner, cond |-> c, fireAt |-> now + d]]
  /\ timeouts' = timeouts \cup {[id |-> i, gen |-> gen, due |-> Due(now + d)]}
  /\ UNCHANGED <<now, place, gen, listening, stored, history, mishaps>>

Tick ==
  /\ now < MaxTime
  /\ now' = now + 1
  /\ UNCHANGED <<place, task, timeouts, gen, listening, stored, history, mishaps>>

\* The callback of a host timer: the object it belongs to enqueues its trigger
\* if it is still pending.
ExecuteTimerTrigger(x) ==
  /\ x \in timeouts /\ x.due =< now
  /\ timeouts' = timeouts \ {x}
  /\ task' = IF x.gen = gen /\ x.id \in PendingTasks
             THEN [task EXCEPT ![x.id] = NoRow("triggered")] ELSE task
  /\ rings' = IF x.gen # gen \/ x.id \in PendingTasks
              THEN [rings EXCEPT ![x.id] = @ + 1] ELSE rings
  /\ UNCHANGED <<now, place, gen, listening, stored, ghosts, mishaps>>

-----------------------------------------------------------------------------
(* Cancellation                                                            *)

\* The pending alarms of S are cancelled and their host timers cleared.
Cancelled(S) == [i \in Timer |-> IF i \in S THEN NoRow("cancelled") ELSE task[i]]
Cleared(S)   == {x \in timeouts : ~(x.id \in S /\ x.gen = gen)}

CancelAlarms(S) == task' = Cancelled(S) /\ timeouts' = Cleared(S)

\* The owner of the alarm, or the host, takes it back.
CancelSchedule(i) ==
  /\ i \in PendingTasks
  /\ CancelAlarms({i})
  /\ UNCHANGED <<now, place, gen, listening, stored, history, mishaps>>

CancelAll ==
  /\ PendingTasks # {}
  /\ CancelAlarms(PendingTasks)
  /\ UNCHANGED <<now, place, gen, listening, stored, history, mishaps>>

\* Where the agent a reference denotes lives, if it denotes one.
ScopeOf(r) == {RealmOf[a] : a \in Denotes(r, ActiveAgents)}

\* Whether mail that names bare id s as its sender may end an alarm of r.  A
\* sender with realmBypass reaches every alarm, and only such a one the alarm of
\* an owner with realmBypass; for the rest the sender is of the Realm of the
\* owner, or no agent at all, and an owner that denotes nobody counts as one
\* without Realm.  The fault takes an ambiguous sender for no agent.
SenderScopeMatchesTimer_Fault(s, r) ==
  \/ ScopeOf(s) = {Bypass}
  \/ /\ ScopeOf(r) # {Bypass}
     /\ \/ s = r
        \/ ScopeOf(s) = {}
        \/ ScopeOf(s) = IF ScopeOf(r) = {} THEN {NoRealm} ELSE ScopeOf(r)

SenderScopeMatchesTimer(s, r) ==
  \/ ScopeOf(s) = {Bypass}
  \/ /\ ScopeOf(r) # {Bypass}
     /\ \/ s = r
        \/ ActiveAgents \cap Namesakes(s) = {}
        \/ ScopeOf(s) = IF ScopeOf(r) = {} THEN {NoRealm} ELSE ScopeOf(r)

\* The alarms that mail from s to bare id t, or to all ("any"), ends early.
SatisfiedTasks(s, t) ==
  {i \in PendingTasks :
     /\ t \in {"any", task[i].owner} \/ task[i].owner \in Namesakes(t)
     /\ SenderScopeMatchesTimer(s, task[i].owner)
     /\ task[i].cond \in {"any", s}}

\* The mail of an active agent, or of a sender that is no agent.
HandleIncomingMessageForTimers(s, t) ==
  /\ listening
  /\ Namesakes(s) = {} \/ ActiveAgents \cap Namesakes(s) # {}
  /\ SatisfiedTasks(s, t) # {}
  /\ CancelAlarms(SatisfiedTasks(s, t))
  /\ UNCHANGED <<now, place, gen, listening, stored, history, mishaps>>

-----------------------------------------------------------------------------
(* The lives of agents                                                     *)

Mishap == mishaps < MaxMishaps /\ mishaps' = mishaps + 1

\* An agent is launched, or restored from the recycle bin.
Launch(a) ==
  /\ place[a] # "active"
  /\ place' = [place EXCEPT ![a] = "active"]
  /\ UNCHANGED <<now, task, timeouts, gen, listening, stored, history, mishaps>>

\* The pending alarms kept under the key of a, or under its bare id, which the
\* fault forgets.
TaskOwnedByReference_Fault(a) == {i \in PendingTasks : task[i].owner = a}

TaskOwnedByReference(a) == {i \in PendingTasks : task[i].owner \in {a, BareOf[a]}}

\* The agents D go.  What is pending for them, and stays so, haunts the engine.
Haunt(D) ==
  ghosts' = {i \in PendingTasks :
               /\ task'[i].status = "pending"
               /\ i \in ghosts \/ (\E a \in D : task[i].owner \in {a, BareOf[a]})}

\* killAgent and purgeAgent of the runtime: the agent goes first, then its alarms.
TeardownForAgent(a, p) ==
  /\ Mishap
  /\ a \notin Undying
  /\ place[a] # "absent" /\ place[a] # p
  /\ place' = [place EXCEPT ![a] = p]
  /\ CancelAlarms(TaskOwnedByReference(a))
  /\ Haunt({a})
  /\ UNCHANGED <<now, gen, listening, stored, rings>>

RuntimeKillAgent(a)  == TeardownForAgent(a, "recycled")
RuntimePurgeAgent(a) == TeardownForAgent(a, "absent")

\* Another agent, active or in the bin, has the bare id of a.
Shared(a) == \E b \in Namesakes(BareOf[a]) \ {a} : place[b] # "absent"

\* The records of the bin go one by one.  The last of a bare id that no active
\* agent has is purged through the runtime, the others without a teardown.
EmptyRecycleBin ==
  LET bin == {a \in Key : place[a] = "recycled"}
  IN  /\ Mishap
      /\ bin # {}
      /\ place' = [a \in Key |-> IF a \in bin THEN "absent" ELSE place[a]]
      /\ \E last \in SUBSET bin :
           /\ \A a \in bin :
                IF ActiveAgents \cap Namesakes(BareOf[a]) = {}
                THEN \E b \in bin : last \cap Namesakes(BareOf[a]) = {b}
                ELSE last \cap Namesakes(BareOf[a]) = {}
           /\ CancelAlarms(UNION {TaskOwnedByReference(a) : a \in last})
      /\ Haunt({a \in bin : ~Shared(a)})
      /\ UNCHANGED <<now, gen, listening, stored, rings>>

\* reset of the runtime: cancelAll, then the scheduler forgets its rows; the bus
\* listener is bound again.
Reset ==
  /\ Mishap
  /\ place' = [a \in Key |-> "absent"]
  /\ CancelAlarms(PendingTasks)
  /\ listening' = TRUE
  /\ Haunt(Key)
  /\ UNCHANGED <<now, gen, stored, rings>>

-----------------------------------------------------------------------------
(* Snapshots                                                               *)

\* exportSchedules, in a snapshot that is saved.
Save ==
  /\ stored' = [place |-> place, task |-> task]
  /\ stored' # stored
  /\ UNCHANGED <<now, place, task, timeouts, gen, listening, history, mishaps>>

\* What the rows of a snapshot are read as when the agents of L are active: the
\* references are resolved once more.
Reread(rows, L) ==
  [i \in Timer |->
     IF rows[i].status = "pending" THEN [rows[i] EXCEPT !.owner = Stored(@, L)] ELSE rows[i]]

\* importSchedules: new objects, of which the pending ones get a host timer; the
\* old timers are cleared.  The fault makes no timer for an alarm that is overdue.
ImportSchedules_Fault(rows) ==
  /\ task' = rows
  /\ gen' = gen + 1
  /\ timeouts' =
       {[id |-> i, gen |-> gen + 1, due |-> Due(rows[i].fireAt)] :
          i \in {j \in Timer : rows[j].status = "pending" /\ rows[j].fireAt > now}}

ImportSchedules(rows) ==
  /\ task' = rows
  /\ gen' = gen + 1
  /\ timeouts' =
       {[id |-> i, gen |-> gen + 1, due |-> Due(rows[i].fireAt)] :
          i \in {j \in Timer : rows[j].status = "pending"}}

\* The alarms of the last snapshot; one that was set later is gone.
Recalled ==
  [i \in Timer |->
     IF stored.task[i].status = "unused" /\ task[i].status # "unused"
     THEN NoRow("cancelled") ELSE stored.task[i]]

\* importSnapshot in a running engine, or in a new one after a restart, whose
\* predecessor's timers are gone: agents first, then alarms, then the listener.
ImportSnapshot ==
  /\ Mishap
  /\ place' = stored.place
  /\ ImportSchedules(Reread(Recalled, {a \in Key : stored.place[a] = "active"}))
  /\ rings' = [i \in Timer |-> 0]
  /\ listening' = TRUE
  /\ ghosts' = {}
  /\ UNCHANGED <<now, stored>>

\* importRealmSlice: an agent and an alarm of it are added, or the import fails
\* and is rolled back.  Either way all rows are read again, and the bus has been
\* rebuilt without the listener.
ImportRealmSchedules(a) ==
  /\ Mishap
  /\ place[a] = "absent" /\ RealmOf[a] \in Realm
  /\ \/ /\ place' = [place EXCEPT ![a] = "active"]
        /\ \/ ImportSchedules(Reread(task, ActiveAgents \cup {a}))
           \/ \E i \in Timer, c \in Condition, f \in 0..MaxTime :
                /\ task[i].status = "unused"
                /\ ImportSchedules(Reread([task EXCEPT ![i] =
                     [status |-> "pending", owner |-> a, cond |-> c, fireAt |-> f]],
                     ActiveAgents \cup {a}))
     \/ place' = place /\ ImportSchedules(Reread(task, ActiveAgents))
  /\ listening' = FALSE
  /\ UNCHANGED <<now, stored, history>>

-----------------------------------------------------------------------------

AlarmsNext ==
  \/ Tick \/ CancelAll \/ EmptyRecycleBin \/ Reset \/ Save \/ ImportSnapshot
  \/ \E x \in timeouts : ExecuteTimerTrigger(x)
  \/ \E i \in Timer :
       \/ CancelSchedule(i)
       \/ \E r \in Ref, c \in Condition, d \in Duration : Schedule(i, r, c, d)
  \/ \E a \in Key :
       Launch(a) \/ RuntimeKillAgent(a) \/ RuntimePurgeAgent(a) \/ ImportRealmSchedules(a)
  \/ \E s \in Bare, t \in Bare \cup {"any"} : HandleIncomingMessageForTimers(s, t)

\* The clock goes on, and the host calls back for every timer that is due.
Fairness ==
  /\ WF_alarmVars(Tick)
  /\ \A i \in Timer : WF_alarmVars(\E x \in timeouts : x.id = i /\ ExecuteTimerTrigger(x))

AlarmsSpec == AlarmsInit /\ [][AlarmsNext]_alarmVars
FairSpec == AlarmsSpec /\ Fairness

-----------------------------------------------------------------------------
(* Properties                                                              *)

\* The host has exactly one timer for every pending alarm, made for the object
\* that is in #scheduledTasks, and no other, after any import, rollback,
\* teardown and cancellation (schedule, importSchedules, teardownForAgent).
Armed ==
  /\ \A x \in timeouts : x.id \in PendingTasks /\ x.gen = gen
  /\ \A i \in PendingTasks : \E x \in timeouts : x.id = i
  /\ \A x, y \in timeouts : x.id = y.id => x = y

\* The host calls back when the alarm is due, neither later, unless that time
\* had passed when the timer was made, nor earlier, unless the delay was more
\* than the host can keep.
OnTime ==
  \A x \in timeouts :
    LET f == task[x.id].fireAt
    IN  /\ x.due =< f \/ x.due =< now
        /\ x.due >= f \/ f - x.due > MaxDelay

\* No alarm is pending for an agent that has died since it was set, whatever
\* reference it is kept under and however its agent came back
\* (teardownForAgent), unless emptyRecycleBin removed the agent while another had
\* its bare id: that record is purged without the scheduler being told, although
\* the comments of emptyRecycleBin, in the runtime and in the lifecycle manager
\* (INV-PURGE), have the teardown run for each.
NoGhostAlarm == ghosts = {}

\* An alarm enqueues one trigger at most, and reads triggered from then on, until
\* it is read from a snapshot that is older.
RingsOnce == \A i \in Timer : rings[i] =< (IF task[i].status = "triggered" THEN 1 ELSE 0)

\* What holds of the alarms at every moment.
AInv == AlarmsTypeOK /\ Armed /\ OnTime /\ NoGhostAlarm /\ RingsOnce

\* Mail of an agent ends the alarm of an agent of its own Realm only, although
\* mail names its sender by a bare id that agents of several Realms may have; if
\* the owner is gone an agent without Realm may end it, and one with realmBypass
\* may end any, but nobody else the alarm of such a one
\* (handleIncomingMessageForTimers, #senderScopeMatchesTimer).
RealmsApart ==
  [][\A b \in ActiveAgents, t \in Bare \cup {"any"}, i \in PendingTasks :
       /\ HandleIncomingMessageForTimers(BareOf[b], t)
       /\ task[i].owner \in Key /\ task'[i].status = "cancelled"
       => RealmOf[b] \in {Bypass, IF task[i].owner \in ActiveAgents
                                  THEN RealmOf[task[i].owner] ELSE NoRealm}]_alarmVars

\* Every alarm goes off or is cancelled at last, also one that was due while the
\* engine was down or that has been read again with a Realm (importSchedules).
AlarmsGoOff ==
  \A i \in Timer :
    (i \in PendingTasks /\ task[i].fireAt =< MaxTime) ~> (i \notin PendingTasks)
=============================================================================
