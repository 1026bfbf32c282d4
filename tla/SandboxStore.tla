---------------------------- MODULE SandboxStore ----------------------------
(***************************************************************************)
(* The session as the store keeps it (sandboxStore/index.svelte.ts) and as *)
(* it is stored (sandboxPersistence/): the Realms and their members, the   *)
(* calls that install and remove a whole Realm, the debounced save, the    *)
(* synchronous write of the template catalog, and the restarts.            *)
(*                                                                         *)
(* All that turns and mail change is one number, said.  The storage holds  *)
(* one entry; how much room is left is up to the host.  The launch of a    *)
(* Realm awaits the initial turn of each member, and anything may happen   *)
(* meanwhile; the other calls are synchronous.                             *)
(*                                                                         *)
(* A definition whose name ends in _Fault is a seeded fault, as in         *)
(* TriggerQueue.                                                           *)
(***************************************************************************)
EXTENDS Naturals, Sequences

CONSTANTS
  Realm,        \* ids of Realms
  Generic,      \* GENERIC_REALM_ID: always there, never deleted
  Id,           \* bare ids of agents
  Members,      \* what a launch from the template makes, in this order
  Template,     \* ids of templates that can be imported
  MaxOps        \* bound: operations of the user, the agents and the host

ASSUME StoreAssumption ==
  /\ Generic \in Realm
  /\ Members \in Seq(Id) /\ Len(Members) > 0
  /\ MaxOps \in Nat

Place     == {"active", "recycled", "none"}
Places    == [Realm -> [Id -> Place]]
NoMembers == [r \in Realm |-> [i \in Id |-> "none"]]
Session   == [realms : SUBSET Realm, place : Places, imports : SUBSET Template, said : Nat]
Fresh     == [realms |-> {Generic}, place |-> NoMembers, imports |-> {}, said |-> 0]
None      == [kind |-> "none"]
Corrupt   == [kind |-> "corrupt"]
Saved(s)  == [kind |-> "session", session |-> s]

VARIABLES
  up,        \* the page is open
  realms,    \* #realmRegistry
  place,     \* #agents and #recycleBin of the runtime
  imports,   \* #realmTemplateImports
  said,      \* what turns and mail have added to the session
  step,      \* launch of a Realm: which member's initial turn is awaited, 0: none
  pending,   \* the debounced save has a supplier and its timer
  heard,     \* the bus has the subscription of #handleBusMessage
  entry,     \* the entry in localStorage
  room,      \* what localStorage takes: any entry, the probe and some, nothing
  receipts,  \* history: templates whose import was accepted and not undone
  missed,    \* history: a write or a restore has failed, or a change scheduled none
  ops        \* history: how many operations there were

mem  == <<realms, place, imports, said>>
vars == <<up, mem, step, pending, heard, entry, room, receipts, missed, ops>>

serialize == [realms |-> realms, place |-> place, imports |-> imports, said |-> said]
Stored    == IF entry.kind = "session" THEN entry.session ELSE Fresh
Unsaved   == serialize # Stored

Operation == up /\ ops < MaxOps /\ ops' = ops + 1
Idle      == UNCHANGED <<up, heard, room>>

Become(s) ==
  /\ realms' = s.realms /\ place' = s.place
  /\ imports' = s.imports /\ said' = s.said

---------------------------------------------------------------------------
(* The storage and the debounced save                                      *)

\* Whether an entry can be written: the availability probe is written first.
CanWrite == IF room = "ample" THEN {TRUE} ELSE IF room = "tight" THEN BOOLEAN ELSE {FALSE}

\* A write of the session as it is after the step; the entry stays if it fails.
Write(ok) ==
  /\ entry' = IF ok THEN Saved(serialize') ELSE entry
  /\ missed' = ~ok

scheduleAutoSave_Fault ==
  /\ pending' = (pending \/ \A r \in Realm : step[r] = 0)
  /\ UNCHANGED <<entry, missed>>

\* The supplier runs when the timer fires, so it sees what changed since.
scheduleAutoSave == pending' = TRUE /\ UNCHANGED <<entry, missed>>

\* A change for which no save is scheduled; one that is pending covers it.
Unscheduled ==
  /\ missed' = (missed \/ ~pending)
  /\ UNCHANGED <<pending, entry>>

flush_Fault ==
  /\ up /\ pending /\ \A r \in Realm : step[r] = 0
  /\ UNCHANGED <<mem, step, receipts, ops>> /\ Idle
  /\ pending' = FALSE
  /\ \E ok \in CanWrite : Write(ok)

\* The timer: the supplier is dropped before the write, which is not repeated.
flush ==
  /\ up /\ pending
  /\ UNCHANGED <<mem, step, receipts, ops>> /\ Idle
  /\ pending' = FALSE
  /\ \E ok \in CanWrite : Write(ok)

saveToStorage ==
  /\ Operation
  /\ UNCHANGED <<mem, step, receipts>> /\ Idle
  /\ pending' = FALSE
  /\ \E ok \in CanWrite : Write(ok)

---------------------------------------------------------------------------
(* Agents.  The user interface names them by their canonical keys.         *)

MayJoin(r, i) == r \in realms /\ place[r][i] # "active"

launchAgent(r, i) ==
  /\ Operation
  /\ MayJoin(r, i)
  /\ place' = [place EXCEPT ![r][i] = "active"]
  /\ scheduleAutoSave
  /\ UNCHANGED <<realms, imports, said, step, receipts>> /\ Idle

killAgent(r, i) ==
  /\ Operation
  /\ place[r][i] = "active"
  /\ place' = [place EXCEPT ![r][i] = "recycled"]
  /\ scheduleAutoSave
  /\ UNCHANGED <<realms, imports, said, step, receipts>> /\ Idle

restoreAgent(r, i) ==
  /\ Operation
  /\ place[r][i] = "recycled"
  /\ place' = [place EXCEPT ![r][i] = "active"]
  /\ scheduleAutoSave
  /\ UNCHANGED <<realms, imports, said, step, receipts>> /\ Idle

purgeAgent(r, i) ==
  /\ Operation
  /\ place[r][i] # "none"
  /\ place' = [place EXCEPT ![r][i] = "none"]
  /\ scheduleAutoSave
  /\ UNCHANGED <<realms, imports, said, step, receipts>> /\ Idle

emptyRecycleBin ==
  /\ Operation
  /\ \E r \in Realm, i \in Id : place[r][i] = "recycled"
  /\ place' = [r \in Realm |-> [i \in Id |->
                 IF place[r][i] = "recycled" THEN "none" ELSE place[r][i]]]
  /\ scheduleAutoSave
  /\ UNCHANGED <<realms, imports, said, step, receipts>> /\ Idle

---------------------------------------------------------------------------
(* Turns and mail                                                          *)

Speaker == \E r \in Realm, i \in Id : place[r][i] = "active"

\* A turn of the user, and a background turn that completes.
triggerTurn ==
  /\ Operation /\ Speaker
  /\ said' = said + 1
  /\ scheduleAutoSave
  /\ UNCHANGED <<realms, place, imports, step, receipts>> /\ Idle

\* A background turn that fails: no event of it is one that schedules a save.
FailedTurn ==
  /\ Operation /\ Speaker
  /\ said' = said + 1
  /\ Unscheduled
  /\ UNCHANGED <<realms, place, imports, step, receipts>> /\ Idle

handleBusMessage ==
  /\ Operation
  /\ said' = said + 1
  /\ IF heard THEN scheduleAutoSave ELSE Unscheduled
  /\ UNCHANGED <<realms, place, imports, step, receipts>> /\ Idle

---------------------------------------------------------------------------
(* Removing a Realm.  Its members are purged by their bare ids.            *)

Holders(p, i, where) == {s \in Realm : p[s][i] = where}
Unique(S)            == \E s \in S : S = {s}

\* Whom a bare id denotes for a purge: the one active agent of that id, or else
\* the one recycled agent of that id.
PurgeTarget(p, i) ==
  LET A == Holders(p, i, "active")
      B == Holders(p, i, "recycled")
  IN  IF Unique(A) THEN A ELSE IF Unique(B) THEN B ELSE {}

Purged(p, I) ==
  [s \in Realm |-> [i \in Id |->
     IF i \in I /\ s \in PurgeTarget(p, i) THEN "none" ELSE p[s][i]]]

Of(p, r)     == {i \in Id : p[r][i] # "none"}
Active(p, r) == {i \in Id : p[r][i] = "active"}

\* A call of purgeAgent that resolves nobody is a failure, and the record stays.
Resolved(p, I) == \A i \in I : PurgeTarget(p, i) # {}

deleteRealm(r) ==
  /\ Operation
  /\ r \in realms \ {Generic}
  /\ place' = Purged(place, Of(place, r))
  /\ realms' = IF Resolved(place, Of(place, r)) THEN realms \ {r} ELSE realms
  /\ scheduleAutoSave
  /\ UNCHANGED <<imports, said, step, receipts>> /\ Idle

---------------------------------------------------------------------------
(* Launching a Realm from a template                                       *)

createRealm(r) ==
  /\ Operation
  /\ r \notin realms /\ step[r] = 0
  /\ realms' = realms \cup {r}
  /\ scheduleAutoSave
  /\ UNCHANGED <<place, imports, said, step, receipts>> /\ Idle

\* The record and the first member, whose initial turn is then awaited.
launchRealmFromTemplate(r) ==
  /\ Operation
  /\ r \notin realms /\ step[r] = 0
  /\ realms' = realms \cup {r}
  /\ place' = [place EXCEPT ![r][Members[1]] = "active"]
  /\ step' = [step EXCEPT ![r] = 1]
  /\ scheduleAutoSave
  /\ UNCHANGED <<imports, said, receipts>> /\ Idle

\* The awaited turn has ended and its agent is still there: the next member.
LaunchNext(r) ==
  LET k == step[r] IN
  /\ up /\ k \in 1 .. Len(Members) - 1
  /\ place[r][Members[k]] = "active"
  /\ place[r][Members[k + 1]] # "active"
  /\ place' = [place EXCEPT ![r][Members[k + 1]] = "active"]
  /\ step' = [step EXCEPT ![r] = k + 1]
  /\ scheduleAutoSave
  /\ UNCHANGED <<realms, imports, said, receipts, ops>> /\ Idle

LaunchDone(r) ==
  /\ up /\ step[r] = Len(Members)
  /\ place[r][Members[Len(Members)]] = "active"
  /\ r \in realms
  /\ step' = [step EXCEPT ![r] = 0]
  /\ scheduleAutoSave
  /\ UNCHANGED <<mem, receipts, ops>> /\ Idle

\* What is left of the members after a rollback: the active ones are purged, and
\* what deleteRealm then finds.
Swept(p, r) == Purged(p, Active(p, r))

rollbackRealmLaunch_Fault(r) ==
  /\ up /\ step[r] > 0
  /\ place' = Swept(place, r)
  /\ realms' = IF Of(Swept(place, r), r) = {} THEN realms \ {r} ELSE realms
  /\ step' = [step EXCEPT ![r] = 0]
  /\ IF r \in realms \/ Active(place, r) # {}
       THEN scheduleAutoSave ELSE UNCHANGED <<pending, entry, missed>>
  /\ UNCHANGED <<imports, said, receipts, ops>> /\ Idle

\* The turn, the snapshot of the member, a placement or a directive fails.
rollbackRealmLaunch(r) ==
  LET q == Swept(place, r) IN
  /\ up /\ step[r] > 0
  /\ IF r \in realms
       THEN /\ place' = Purged(q, Of(q, r))
            /\ realms' = IF Resolved(q, Of(q, r)) THEN realms \ {r} ELSE realms
       ELSE place' = q /\ realms' = realms
  /\ step' = [step EXCEPT ![r] = 0]
  /\ IF r \in realms \/ Active(place, r) # {}
       THEN scheduleAutoSave ELSE UNCHANGED <<pending, entry, missed>>
  /\ UNCHANGED <<imports, said, receipts, ops>> /\ Idle

---------------------------------------------------------------------------
(* The catalog of templates, which is written at once                      *)

persistRealmTemplateRegistry_Fault(I, ok) ==
  /\ imports' = I /\ receipts' = I
  /\ scheduleAutoSave

\* A pending save is flushed, and then the session is written.  If that fails the
\* catalog is put back; the save that was pending is gone.
persistRealmTemplateRegistry(I, ok) ==
  /\ pending' = FALSE
  /\ IF ok
       THEN imports' = I /\ receipts' = I /\ Write(TRUE)
       ELSE /\ missed' = (missed \/ pending)
            /\ UNCHANGED <<imports, receipts, entry>>

importRealmTemplate(t) ==
  /\ Operation
  /\ UNCHANGED <<realms, place, said, step>> /\ Idle
  /\ \E ok \in CanWrite : persistRealmTemplateRegistry(imports \cup {t}, ok)

deleteRealmTemplate(t) ==
  /\ Operation
  /\ t \in imports
  /\ UNCHANGED <<realms, place, said, step>> /\ Idle
  /\ \E ok \in CanWrite : persistRealmTemplateRegistry(imports \ {t}, ok)

\* The session in the middle of an import, before the members are installed.
Midway(R, I) == [realms |-> R, place |-> place, imports |-> I, said |-> said]

\* A Realm comes with its members and perhaps a template.  The bus is replaced.
importRealmArchive(r) ==
  /\ Operation
  /\ r \notin realms /\ step[r] = 0
  /\ realms' = realms \cup {r}
  /\ \E m \in [Id -> Place] : place' = [place EXCEPT ![r] = m]
  /\ heard' = FALSE
  /\ pending' = TRUE
  /\ \/ UNCHANGED <<imports, receipts, entry, missed>>
     \/ \E t \in Template \ imports :
          /\ TRUE \in CanWrite
          /\ imports' = imports \cup {t} /\ receipts' = imports'
          /\ entry' = Saved(Midway(realms', imports'))
          /\ missed' = FALSE
  /\ UNCHANGED <<said, step, up, room>>

\* A template written with a new Realm stays if the write that would take it back
\* fails, in the catalog and, with the record of the Realm, in storage.
TemplateStays(r, t) ==
  /\ CanWrite = BOOLEAN
  /\ imports' = imports \cup {t} /\ receipts' = imports'
  /\ pending' = FALSE /\ missed' = TRUE
  /\ entry' = Saved(Midway(realms \cup {r}, imports'))

\* The files or the slice of the runtime are refused, or the template cannot be
\* written: all is undone.  The bus may have been replaced by then.
ImportRefused(r) ==
  /\ Operation
  /\ r \notin realms /\ step[r] = 0
  /\ heard' \in {heard, FALSE}
  /\ UNCHANGED <<realms, place, said, step, up, room>>
  /\ \/ pending' = TRUE /\ UNCHANGED <<imports, receipts, entry, missed>>
     \/ \E t \in Template \ imports :
          \/ UNCHANGED <<imports, receipts>>
             /\ TRUE \in CanWrite /\ pending' = FALSE /\ Write(TRUE)
          \/ TemplateStays(r, t)

---------------------------------------------------------------------------
(* Restarts, and what the host does                                        *)

Closed ==
  /\ up' = FALSE
  /\ Become(Fresh)
  /\ step' = [r \in Realm |-> 0]
  /\ pending' = FALSE /\ heard' = FALSE
  /\ UNCHANGED <<room, receipts, ops>>

Crash == up /\ Closed /\ UNCHANGED <<entry, missed>>

\* beforeunload and pagehide flush the pending save.
handleUnload ==
  /\ up /\ Closed
  /\ IF pending
       THEN \E ok \in CanWrite :
              /\ entry' = IF ok THEN Saved(serialize) ELSE entry
              /\ missed' = ~ok
       ELSE UNCHANGED <<entry, missed>>

Start ==
  /\ ~up /\ up' = TRUE
  /\ pending' = FALSE
  /\ UNCHANGED <<step, room, receipts, ops>>

\* No entry, or one that cannot be read, which is put aside.
BootFresh ==
  /\ Start
  /\ entry.kind # "session"
  /\ entry' = None
  /\ Become(Fresh)
  /\ heard' = TRUE /\ missed' = FALSE

hydrateFromStorage ==
  /\ Start
  /\ entry.kind = "session" /\ room # "none"
  /\ Become(entry.session)
  /\ heard' = TRUE /\ missed' = FALSE
  /\ UNCHANGED entry

\* A subsystem refuses its part: the Realms and the catalog are the saved ones,
\* what was imported before it stays, the entry as well.
HydrationFailed ==
  /\ Start
  /\ entry.kind = "session" /\ room # "none"
  /\ \E p \in {entry.session.place, NoMembers}, n \in {entry.session.said, 0} :
       Become([entry.session EXCEPT !.place = p, !.said = n])
  /\ heard' \in BOOLEAN /\ missed' = TRUE
  /\ UNCHANGED entry

\* The probe cannot be written, so that no saved session seems to be there; the
\* records of the Realms and the catalog are read past the probe.
BlindBoot ==
  /\ Start
  /\ entry.kind = "session" /\ room = "none"
  /\ Become([entry.session EXCEPT !.place = NoMembers, !.said = 0])
  /\ heard' = TRUE /\ missed' = TRUE
  /\ UNCHANGED entry

\* reset drops the subscriptions of the bus and binds only those of the runtime.
\* A save is scheduled by the removal of Realms alone.
factoryReset ==
  /\ Operation
  /\ entry' = IF room = "none" THEN entry ELSE None
  /\ missed' = (room = "none")
  /\ Become(Fresh) /\ receipts' = {}
  /\ pending' = (realms # {Generic})
  /\ heard' = FALSE
  /\ UNCHANGED <<step, up, room>>

RoomChanges ==
  /\ ops < MaxOps /\ ops' = ops + 1
  /\ room' \in {"ample", "tight", "none"} \ {room}
  /\ UNCHANGED <<up, mem, step, pending, heard, entry, receipts, missed>>

\* The entry of an older or foreign version is there when the page opens.
EntrySpoilt ==
  /\ ~up /\ ops < MaxOps /\ ops' = ops + 1
  /\ entry.kind = "session"
  /\ entry' = Corrupt /\ receipts' = {}
  /\ UNCHANGED <<up, mem, step, pending, heard, room, missed>>

---------------------------------------------------------------------------
Init ==
  /\ up = FALSE
  /\ realms = {Generic} /\ place = NoMembers /\ imports = {} /\ said = 0
  /\ step = [r \in Realm |-> 0]
  /\ pending = FALSE /\ heard = FALSE
  /\ entry = None /\ room = "ample"
  /\ receipts = {} /\ missed = FALSE /\ ops = 0

Agents ==
  \E r \in Realm, i \in Id :
    launchAgent(r, i) \/ killAgent(r, i) \/ restoreAgent(r, i) \/ purgeAgent(r, i)

Talk == triggerTurn \/ FailedTurn \/ handleBusMessage

Realms ==
  \E r \in Realm :
    \/ createRealm(r) \/ deleteRealm(r)
    \/ launchRealmFromTemplate(r) \/ LaunchNext(r) \/ LaunchDone(r)
    \/ rollbackRealmLaunch(r)
    \/ importRealmArchive(r) \/ ImportRefused(r)

Catalog == \E t \in Template : importRealmTemplate(t) \/ deleteRealmTemplate(t)

Restarts ==
  \/ Crash \/ handleUnload
  \/ BootFresh \/ hydrateFromStorage \/ HydrationFailed \/ BlindBoot
  \/ factoryReset

Next ==
  \/ Agents \/ emptyRecycleBin \/ Talk \/ Realms \/ Catalog \/ Restarts
  \/ flush \/ saveToStorage \/ RoomChanges \/ EntrySpoilt

Spec == Init /\ [][Next]_vars

\* The host fires the timer of the debounced save once nothing restarts it.  There
\* are at most MaxOps operations, so every behaviour comes to rest.
FairSpec == Spec /\ WF_vars(flush)

---------------------------------------------------------------------------
TypeOK ==
  /\ up \in BOOLEAN /\ pending \in BOOLEAN /\ heard \in BOOLEAN /\ missed \in BOOLEAN
  /\ serialize \in Session
  /\ step \in [Realm -> 0 .. Len(Members)]
  /\ entry \in {None, Corrupt} \cup [kind : {"session"}, session : Session]
  /\ room \in {"ample", "tight", "none"}
  /\ receipts \in SUBSET Template
  /\ ops \in 0 .. MaxOps

\* The Generic Realm is always there, in memory and in the entry, and no launch
\* makes or removes it.
GenericStays ==
  /\ Generic \in realms /\ step[Generic] = 0
  /\ entry.kind = "session" => Generic \in entry.session.realms

\* Memory and storage differ only while a save is pending, unless a write or a
\* restore has failed or the store was deaf to the change: whatever the order of
\* calls, flushes, restarts and resets, none of them leaves a change behind.
NoChangeForgotten == up /\ Unsaved => pending \/ missed

SInv == TypeOK /\ GenericStays /\ NoChangeForgotten

\* An accepted import of a template is in storage and in the catalog, whatever else
\* is unsaved, cannot be written or is undone, and whenever the page dies
\* (importRealmTemplate: an accepted receipt always means that the persisted
\* snapshot agrees with the effective catalog).
CatalogIsStored ==
  /\ receipts \subseteq Stored.imports
  /\ up => receipts \subseteq imports

\* r has no namesake elsewhere.
Alone(r) == \A i \in Of(place, r), s \in Realm \ {r} : place[s][i] = "none"

Unhurt(r) == \A s \in Realm \ {r} : place'[s] = place[s]
Gone(r)   == r \notin realms' /\ Of(place', r) = {}

\* A Realm that is deleted, or whose launch fails at any member, leaves no record
\* and no agent behind and takes none of another Realm with it, whatever became
\* of its members meanwhile, if no other Realm has agents of the same ids
\* (deleteRealm, rollbackRealmLaunch).
RealmsEndWhole ==
  [][\A r \in Realm :
       (deleteRealm(r) \/ (rollbackRealmLaunch(r) /\ r \in realms)) /\ Alone(r)
       => Gone(r) /\ Unhurt(r)]_vars

\* Deleting a Realm purges its members and nobody else, and removes the record
\* only with all of them (the doc of deleteRealm).
DeletionConfined ==
  [][\A r \in Realm : deleteRealm(r) => Unhurt(r) /\ (r \notin realms' => Gone(r))]_vars

\* A change is in storage at last, unless the page is closed before, a write has
\* failed or nothing was scheduled for it.
ChangesAreSaved ==
  (up /\ Unsaved /\ ~missed) ~> (~up \/ ~Unsaved \/ missed)
=============================================================================
