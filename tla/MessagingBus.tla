---------------------------- MODULE MessagingBus ----------------------------
(***************************************************************************)
(* Mail between agents (src/lib/sandbox/messagingBus/index.ts).            *)
(*                                                                         *)
(* sendMessage resolves the recipient through the identity port at the     *)
(* moment of the call, puts a copy into the queue of each recipient and    *)
(* then tells the subscribers.  Reading moves a copy from the queue to the *)
(* archive.  A waitForMail that the mail at hand does not satisfy          *)
(* subscribes to every message of the bus and stays pending until one      *)
(* satisfies it, its timer fires or the signal of its turn aborts.         *)
(*                                                                         *)
(* Operations are called from the turn of an agent, with the context of    *)
(* that agent, or by the host, which sends with the internal principal.  A *)
(* turn checks its signal before each tool call and makes one at a time    *)
(* (turnExecutionEngine/index.ts:2853-2960), hence callers are active and  *)
(* an agent has at most one pending wait.  The order inside a queue, times *)
(* and contents are left out, and so are the mail subscriptions by which   *)
(* delivery queues a trigger.                                              *)
(*                                                                         *)
(* A definition whose name ends in _Fault is a seeded fault, as in         *)
(* TriggerQueue.                                                           *)
(***************************************************************************)
EXTENDS AgentIdentity, Naturals

CONSTANTS
  Host,            \* the sender outside any agent
  All,             \* the recipient 'all'
  Message,         \* messages, each sent at most once
  From, To,        \* From[m], To[m]: sender and recipient as the caller gives them
  Wait,            \* calls of waitForMail, each made at most once
  WaitOf,          \* WaitOf[w]: [owner, senders, all, mark, read, poll]
  Founders,        \* agents that are registered to begin with
  MaxChanges,      \* bound: registrations, kills and purges
  MaxInstalls      \* bound: Realms installed from an archive

ASSUME BusAssumption ==
  /\ {Host, All} \cap (Key \cup Bare) = {}
  /\ Founders \subseteq Key

ASSUME MailAssumption ==
  /\ From \in [Message -> Key \cup {Host}]
  /\ To \in [Message -> Key \cup Bare \cup {All}]
  /\ WaitOf \in [Wait -> [owner : Key, senders : SUBSET (Bare \cup {Host}),
                          all : BOOLEAN, mark : BOOLEAN, read : BOOLEAN, poll : BOOLEAN]]

VARIABLES
  registered,  \* #registeredAgents: the active agents, which the identity port knows
  terminated,  \* #terminatedAgents: agents in the recycle bin
  queue,       \* #activeQueues
  archive,     \* #archives
  receipt,     \* receipt[m]: what sendMessage answered, "none" before the call
  wait,        \* wait[w]: "new", "pending", or how it resolved
  collected,   \* collected[w]: collectedMessages
  hearing,     \* pending waits whose subscription is in #subscriptions
  delivered,   \* history: copies put into k's queue since k was last purged
  changes, installs

mail     == <<queue, archive, delivered>>
waits    == <<wait, collected, hearing>>
counters == <<changes, installs>>
vars     == <<registered, terminated, mail, receipt, waits, counters>>

Pending     == {w \in Wait : wait[w] = "pending"}
Owner(w)    == WaitOf[w].owner
WaitsOf(k)  == {w \in Pending : Owner(w) = k}
Active(k)   == k \in registered /\ WaitsOf(k) = {}

TypeOK ==
  /\ registered \subseteq Key /\ terminated \subseteq Key
  /\ queue \in [Key -> SUBSET Message]
  /\ archive \in [Key -> SUBSET Message]
  /\ receipt \in [Message -> {"none", "sent", "terminated", "denied", "unknown"}]
  /\ wait \in [Wait -> {"new", "pending", "ready", "timedOut", "aborted"}]
  /\ collected \in [Wait -> SUBSET Message]
  /\ hearing \subseteq Pending
  /\ delivered \in [Key -> SUBSET Message]

Init ==
  /\ registered = Founders
  /\ terminated = {}
  /\ queue = [k \in Key |-> {}]
  /\ archive = [k \in Key |-> {}]
  /\ receipt = [m \in Message |-> "none"]
  /\ wait = [w \in Wait |-> "new"]
  /\ collected = [w \in Wait |-> {}]
  /\ hearing = {}
  /\ delivered = [k \in Key |-> {}]
  /\ changes = 0 /\ installs = 0

-----------------------------------------------------------------------------
(* Who gets a message                                                      *)

Scope(s)    == IF s = Host THEN Bypass ELSE RealmOf[s]
SenderId(m) == IF From[m] = Host THEN Host ELSE BareOf[From[m]]

\* One-way bypass: scope r reaches agent k.
Reaches(r, k) == r \in {Bypass, RealmOf[k]}

\* The agents a recipient reference denotes for a sender of scope r: an exact
\* key, else the bare id in that scope, else the bare id anywhere.
Denoted(i, r) ==
  LET anywhere == {k \in registered : BareOf[k] = i}
      inScope  == {k \in anywhere : r # Bypass /\ RealmOf[k] = r}
  IN  IF i \in registered THEN {i}
      ELSE IF inScope # {} THEN inScope ELSE anywhere

\* The receipt of a direct message.
Verdict(m) ==
  LET r == Scope(From[m])
      D == Denoted(To[m], r)
  IN  IF D = {} THEN (IF To[m] \in terminated THEN "terminated" ELSE "unknown")
      ELSE IF \E k \in D : D = {k} /\ Reaches(r, k) THEN "sent" ELSE "denied"

\* The mailboxes a message is put into.
Recipients(m) ==
  IF To[m] = All
  THEN {k \in registered : Reaches(Scope(From[m]), k) /\ k # From[m]}
  ELSE IF Verdict(m) = "sent" THEN Denoted(To[m], Scope(From[m])) ELSE {}

-----------------------------------------------------------------------------
(* What a wait takes                                                       *)

Wants(w, m) == WaitOf[w].senders = {} \/ SenderId(m) \in WaitOf[w].senders

\* isSatisfied
Satisfied(w, S) ==
  IF WaitOf[w].senders # {} /\ WaitOf[w].all
  THEN \A s \in WaitOf[w].senders : \E m \in S : SenderId(m) = s
  ELSE S # {}

\* The subscriber of a wait compares bare ids: it also takes mail for an agent
\* of that name in another Realm, and broadcasts of other Realms, but no
\* broadcast that comes from its own bare id.
IsForRecipient(w, m, R) ==
  IF To[m] = All
  THEN SenderId(m) # BareOf[Owner(w)]
  ELSE \E k \in R : BareOf[k] = BareOf[Owner(w)]

\* The waits that take message m, which was put into the queues of R.
Takers(m, R) ==
  {w \in hearing : IsForRecipient(w, m, R) /\ Wants(w, m)}

\* A copy for each agent of R; then the subscribers of 'all' run.  A wait that
\* marks moves its copy from the queue to the archive, and archives a message
\* that its queue does not hold just as well.
Deliver(m, R) ==
  LET W == Takers(m, R)
      A == {Owner(w) : w \in {v \in W : WaitOf[v].mark}}
  IN  /\ queue' = [k \in Key |-> IF k \in R \ A THEN queue[k] \cup {m} ELSE queue[k]]
      /\ archive' = [k \in Key |-> IF k \in A THEN archive[k] \cup {m} ELSE archive[k]]
      /\ delivered' = [k \in Key |-> IF k \in R THEN delivered[k] \cup {m} ELSE delivered[k]]
      /\ collected' = [w \in Wait |-> IF w \in W THEN collected[w] \cup {m} ELSE collected[w]]

\* A wait for several senders resolves at the first message.
Resolve_Fault(W) ==
  LET done == {w \in W : collected'[w] # {}}
  IN  /\ wait' = [w \in Wait |-> IF w \in done THEN "ready" ELSE wait[w]]
      /\ hearing' = hearing \ done

\* Of the waits W, those that are satisfied by now resolve and unsubscribe.
Resolve(W) ==
  LET done == {w \in W : Satisfied(w, collected'[w])}
  IN  /\ wait' = [w \in Wait |-> IF w \in done THEN "ready" ELSE wait[w]]
      /\ hearing' = hearing \ done

\* finish and cleanup of the pending waits W.
Finish(W, how) ==
  /\ wait' = [w \in Wait |-> IF w \in W THEN how ELSE wait[w]]
  /\ hearing' = hearing \ W
  /\ UNCHANGED collected

-----------------------------------------------------------------------------
(* Mail                                                                    *)

MaySend(m) == receipt[m] = "none" /\ (From[m] = Host \/ Active(From[m]))

SendMessage(m) ==
  /\ MaySend(m) /\ To[m] # All
  /\ receipt' = [receipt EXCEPT ![m] = Verdict(m)]
  /\ \/ /\ Verdict(m) = "sent"
        /\ Deliver(m, Recipients(m))
        /\ Resolve(Takers(m, Recipients(m)))
     \/ /\ Verdict(m) # "sent"
        /\ UNCHANGED <<mail, waits>>
  /\ UNCHANGED <<registered, terminated, counters>>

Broadcast(m) ==
  /\ MaySend(m) /\ To[m] = All
  /\ receipt' = [receipt EXCEPT ![m] = "sent"]
  /\ Deliver(m, Recipients(m))
  /\ Resolve(Takers(m, Recipients(m)))
  /\ UNCHANGED <<registered, terminated, counters>>

\* readMessage with mark_as_read; without it, or for a message of the archive,
\* nothing changes.
ReadMessage(k, m) ==
  /\ Active(k)
  /\ m \in queue[k]
  /\ queue' = [queue EXCEPT ![k] = @ \ {m}]
  /\ archive' = [archive EXCEPT ![k] = @ \cup {m}]
  /\ UNCHANGED <<registered, terminated, delivered, receipt, waits, counters>>

DrainInbox(k) ==
  /\ Active(k)
  /\ queue' = [queue EXCEPT ![k] = {}]
  /\ archive' = [archive EXCEPT ![k] = @ \cup queue[k]]
  /\ UNCHANGED <<registered, terminated, delivered, receipt, waits, counters>>

-----------------------------------------------------------------------------
(* Waits                                                                   *)

\* The mail at hand is only looked at when read mail counts as well.
AtHand_Fault(w) ==
  {m \in archive[Owner(w)] : WaitOf[w].read /\ Wants(w, m)}

\* The mail a wait finds when it begins.
AtHand(w) ==
  {m \in queue[Owner(w)] \cup (IF WaitOf[w].read THEN archive[Owner(w)] ELSE {}) :
     Wants(w, m)}

\* waitForMail up to its suspension.  What it finds is taken at once; a wait
\* that is not satisfied polls, finds its signal aborted, or suspends.
WaitForMail(w) ==
  LET k == Owner(w)
  IN  /\ wait[w] = "new" /\ Active(k)
      /\ collected' = [collected EXCEPT ![w] = AtHand(w)]
      /\ \/ /\ WaitOf[w].mark
            /\ queue' = [queue EXCEPT ![k] = @ \ AtHand(w)]
            /\ archive' = [archive EXCEPT ![k] = @ \cup AtHand(w)]
         \/ ~WaitOf[w].mark /\ UNCHANGED <<queue, archive>>
      /\ \E s \in {"ready", "timedOut", "aborted", "pending"} :
           /\ s = "ready" <=> Satisfied(w, AtHand(w))
           /\ s # "ready" => (s = "timedOut" <=> WaitOf[w].poll)
           /\ wait' = [wait EXCEPT ![w] = s]
           /\ hearing' = IF s = "pending" THEN hearing \cup {w} ELSE hearing
      /\ UNCHANGED <<registered, terminated, delivered, receipt, counters>>

WaitTimeout(w) ==
  /\ w \in Pending
  /\ Finish({w}, "timedOut")
  /\ UNCHANGED <<registered, terminated, mail, receipt, counters>>

\* The turn of k is cancelled, and with it what it waits for.
Abort(k) ==
  /\ WaitsOf(k) # {}
  /\ Finish(WaitsOf(k), "aborted")
  /\ UNCHANGED <<registered, terminated, mail, receipt, counters>>

-----------------------------------------------------------------------------
(* Agents come and go                                                      *)

Change == changes < MaxChanges /\ changes' = changes + 1 /\ UNCHANGED installs

\* launchAgent, also under the id of an agent in the recycle bin, and
\* restoreAgent: a mailbox that exists is taken over as it is.
RegisterAgent(k) ==
  /\ Change
  /\ k \notin registered
  /\ registered' = registered \cup {k}
  /\ terminated' = terminated \ {k}
  /\ UNCHANGED <<mail, receipt, waits>>

\* A kill aborts the turn first and leaves the mailbox behind.
MarkAgentTerminated(k) ==
  /\ Change
  /\ k \in registered
  /\ Finish(WaitsOf(k), "aborted")
  /\ registered' = registered \ {k}
  /\ terminated' = terminated \cup {k}
  /\ UNCHANGED <<mail, receipt>>

PurgeAgent(k) ==
  /\ Change
  /\ k \in registered \cup terminated
  /\ Finish(WaitsOf(k), "aborted")
  /\ registered' = registered \ {k}
  /\ terminated' = terminated \ {k}
  /\ queue' = [queue EXCEPT ![k] = {}]
  /\ archive' = [archive EXCEPT ![k] = {}]
  /\ delivered' = [delivered EXCEPT ![k] = {}]
  /\ UNCHANGED receipt

\* Installing a Realm takes over the archives and forgets the queues.
ImportRealmSlice_Fault(S, D) ==
  /\ installs < MaxInstalls /\ installs' = installs + 1
  /\ S \cap D = {}
  /\ (S \cup D) \cap (registered \cup terminated) = {}
  /\ \/ registered' = registered \cup S /\ terminated' = terminated \cup D
     \/ UNCHANGED <<registered, terminated>>
  /\ queue' = [k \in Key |-> {}]
  /\ UNCHANGED <<archive, delivered, receipt, waits, changes>>

\* importRealmSlice adds agents of one Realm to the running engine, S active and
\* D recycled, or rolls back.  Either way the bus is rebuilt from a snapshot:
\* mailboxes stay the same, but importSnapshot resets every subscription, and
\* only those that queue mail triggers are made again.
ImportRealmSlice(S, D) ==
  /\ installs < MaxInstalls /\ installs' = installs + 1
  /\ S \cap D = {}
  /\ (S \cup D) \cap (registered \cup terminated) = {}
  /\ \/ registered' = registered \cup S /\ terminated' = terminated \cup D
     \/ UNCHANGED <<registered, terminated>>
  /\ hearing' = {}
  /\ UNCHANGED <<mail, receipt, wait, collected, changes>>

Next ==
  \/ \E m \in Message : SendMessage(m) \/ Broadcast(m)
  \/ \E k \in Key, m \in Message : ReadMessage(k, m)
  \/ \E k \in Key : DrainInbox(k) \/ Abort(k)
  \/ \E w \in Wait : WaitForMail(w) \/ WaitTimeout(w)
  \/ \E k \in Key : RegisterAgent(k) \/ MarkAgentTerminated(k) \/ PurgeAgent(k)
  \/ \E r \in Realm : \E S, D \in SUBSET {k \in Key : RealmOf[k] = r} : ImportRealmSlice(S, D)

Spec == Init /\ [][Next]_vars

-----------------------------------------------------------------------------
(* Properties                                                              *)

\* What waits of k that mark have taken, from its mailbox or past it.
TakenFor(k) ==
  {m \in Message : \E w \in Wait : Owner(w) = k /\ WaitOf[w].mark /\ m \in collected[w]}

\* Every copy is in one place: unread in the queue or read in the archive.  The
\* archive may hold more than was delivered, but only what a wait overheard.
Conserved ==
  \A k \in Key :
    /\ queue[k] \cap archive[k] = {}
    /\ queue[k] \subseteq delivered[k]
    /\ delivered[k] \subseteq queue[k] \cup archive[k]
    /\ archive[k] \subseteq delivered[k] \cup TakenFor(k)

\* The agents that may get m: the director's mail and the host's crosses Realms,
\* everybody else's stays in the Realm, or outside all Realms, of the sender.
Lawful(m) ==
  IF From[m] = Host \/ (From[m] \in Key /\ RealmOf[From[m]] = Bypass)
  THEN Key
  ELSE {k \in Key : RealmOf[k] = RealmOf[From[m]]}

\* Only messages that were sent are anywhere, and in queues only lawful ones.
Sent ==
  /\ \A k \in Key : \A m \in delivered[k] : k \in Lawful(m)
  /\ \A k \in Key : \A m \in delivered[k] \cup archive[k] : receipt[m] = "sent"
  /\ \A w \in Wait : \A m \in collected[w] : receipt[m] = "sent" /\ Wants(w, m)

\* A wait is pending exactly as long as it must be: it belongs to an active
\* agent, which has no other, and what it has got is not enough; a resolved one
\* is called ready if it got enough.
WaitsHonest ==
  /\ registered \cap terminated = {}
  /\ \A w \in Pending : Owner(w) \in registered /\ WaitsOf(Owner(w)) = {w}
  /\ \A w \in Wait : wait[w] = "new" => collected[w] = {}
  /\ \A w \in Wait :
       wait[w] # "new" => (Satisfied(w, collected[w]) <=> wait[w] = "ready")

\* A waiting agent never sleeps on mail it waits for: whatever its queue holds
\* that the wait wants, the wait has, and has removed if it marks.  Broadcasts
\* from the bare id of the owner are not heard.
NotSleepingOn(w) ==
  \A m \in queue[Owner(w)] :
    Wants(w, m) /\ ~(To[m] = All /\ SenderId(m) = BareOf[Owner(w)])
      => ~WaitOf[w].mark /\ m \in collected[w]

HeardMail == \A w \in hearing : NotSleepingOn(w)

\* Type, place of every copy and state of every wait (sendMessage, readMessage,
\* drainInbox, waitForMail, purgeAgent).
BInv == TypeOK /\ Conserved /\ Sent /\ WaitsHonest

\* BInv with the mail of the waits that are subscribed: the inductive invariant.
IInv == BInv /\ HeardMail

Service == INSTANCE MailService WITH
  members  <- registered,
  posted   <- {m \in Message : receipt[m] # "none"},
  unread   <- queue,
  read     <- [k \in Key |-> archive[k] \cap delivered[k]],
  Audience <- [m \in Message |-> Lawful(m)]

\* The bus keeps the promise of MailService, through waits that take mail the
\* moment it arrives and agents that come and go (sendMessage, waitForMail,
\* drainInbox, importSnapshot).
ImplementsService == Service!Spec
=============================================================================
