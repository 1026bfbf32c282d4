------------------------- MODULE SandboxStore_proofs -------------------------
(***************************************************************************)
(* Proofs about the session and its storage, for any Realms, ids, template *)
(* and number of operations.  SInv and CatalogIsStored are inductive as    *)
(* they stand.  Sessions are records that are compared field by field, so  *)
(* the lemmas at the start say what their fields are.                      *)
(***************************************************************************)
EXTENDS SandboxStore, TLAPS

---------------------------------------------------------------------------
(* Sessions and places                                                     *)

\* A record with the fields of a session is one if they are of its types.
LEMMA SessionFields ==
  ASSUME NEW a, NEW b, NEW c, NEW d
  PROVE  [realms |-> a, place |-> b, imports |-> c, said |-> d] \in Session
         <=> a \in SUBSET Realm /\ b \in Places /\ c \in SUBSET Template /\ d \in Nat
BY DEF Session

\* A session is the record of its fields.
LEMMA SessionIsItsFields ==
  ASSUME NEW s \in Session
  PROVE  /\ s = [realms |-> s.realms, place |-> s.place, imports |-> s.imports, said |-> s.said]
         /\ s.realms \in SUBSET Realm /\ s.place \in Places
         /\ s.imports \in SUBSET Template /\ s.said \in Nat
BY DEF Session

\* A fresh session is one.
LEMMA FreshType == NoMembers \in Places /\ Fresh \in Session
<1>1. NoMembers \in Places
  BY DEF NoMembers, Places, Place
<1> QED BY <1>1, SessionFields, StoreAssumption DEF Fresh

\* Purging leaves places.
LEMMA PurgedType ==
  ASSUME NEW p \in Places, NEW I
  PROVE  Purged(p, I) \in Places
BY DEF Purged, Places, Place

\* Purging nobody changes nothing.
LEMMA PurgedNobody ==
  ASSUME NEW p \in Places
  PROVE  Purged(p, {}) = p
<1>1. \A s \in Realm : [i \in Id |-> p[s][i]] = p[s]
  BY DEF Places
<1>2. Purged(p, {}) = [s \in Realm |-> [i \in Id |-> p[s][i]]]
  BY DEF Purged
<1> QED BY <1>1, <1>2 DEF Places

\* What a member of a template is.
LEMMA MemberType ==
  /\ Len(Members) \in Nat \ {0}
  /\ \A k \in 1 .. Len(Members) : Members[k] \in Id
BY StoreAssumption

---------------------------------------------------------------------------
(* The storage                                                             *)

Entries == {None, Corrupt} \cup [kind : {"session"}, session : Session]

\* A saved session is an entry, and reads as itself.
LEMMA SavedType ==
  ASSUME NEW s \in Session
  PROVE  Saved(s) \in Entries /\ Saved(s).kind = "session" /\ Saved(s).session = s
BY DEF Saved, Entries

\* The entry is not a session, or is the record of one.
LEMMA EntryCases ==
  ASSUME NEW e \in Entries
  PROVE  \/ e.kind # "session" /\ e \in {None, Corrupt}
         \/ e.kind = "session" /\ e.session \in Session
BY DEF Entries, None, Corrupt

\* The session in memory has the types of its fields.
LEMMA MemType ==
  ASSUME SInv
  PROVE  /\ serialize \in Session
         /\ realms \in SUBSET Realm /\ place \in Places
         /\ imports \in SUBSET Template /\ said \in Nat
         /\ entry \in Entries
BY SessionFields DEF SInv, TypeOK, serialize, Entries

---------------------------------------------------------------------------
(* What keeps SInv.  A step keeps the types if it keeps those of the       *)
(* fields; it keeps the other parts in one of a few ways.                  *)

\* Everything but what an action changes in the session.
LEMMA TypesKept ==
  ASSUME SInv,
         realms' \in SUBSET Realm, place' \in Places, imports' \in SUBSET Template, said' \in Nat,
         up' \in BOOLEAN, pending' \in BOOLEAN, heard' \in BOOLEAN, missed' \in BOOLEAN,
         step' \in [Realm -> 0 .. Len(Members)], entry' \in Entries,
         room' \in {"ample", "tight", "none"}, receipts' \in SUBSET Template, ops' \in 0 .. MaxOps
  PROVE  TypeOK'
<1>1. serialize' \in Session
  BY SessionFields DEF serialize
<1> QED BY <1>1 DEF TypeOK, Entries

\* A step that leaves a save pending, or says that one was missed, and touches
\* neither the entry nor, but for additions and removals, the Realms.
LEMMA ScheduledKept ==
  ASSUME SInv, TypeOK', Generic \in realms', step'[Generic] = 0, entry' = entry,
         pending' \/ missed' \/ ~up' \/ ~Unsaved'
  PROVE  SInv'
BY DEF SInv, GenericStays, NoChangeForgotten

\* A step that writes the session, or fails to.
LEMMA WriteKept ==
  ASSUME SInv, TypeOK', Generic \in realms', step'[Generic] = 0, NEW ok \in BOOLEAN, Write(ok)
  PROVE  SInv'
<1>1. CASE ok
  <2>1. entry' = Saved(serialize') /\ serialize' \in Session
    BY <1>1 DEF Write, TypeOK
  <2>2. entry'.kind = "session" /\ entry'.session = serialize'
    BY <2>1, SavedType
  <2>3. ~Unsaved'
    BY <2>2 DEF Unsaved, Stored
  <2>4. Generic \in entry'.session.realms
    BY <2>2 DEF serialize
  <2> QED BY <2>2, <2>3, <2>4 DEF SInv, GenericStays, NoChangeForgotten
<1>2. CASE ~ok
  BY <1>2, ScheduledKept DEF Write
<1> QED BY <1>1, <1>2

\* What is written is an entry.
LEMMA WriteType ==
  ASSUME SInv, serialize' \in Session, NEW ok \in BOOLEAN, Write(ok)
  PROVE  entry' \in Entries /\ missed' \in BOOLEAN
<1>1. entry \in Entries
  BY MemType
<1>2. Saved(serialize') \in Entries
  BY SavedType
<1>3. entry' \in Entries
  BY <1>1, <1>2 DEF Write
<1>4. missed' \in BOOLEAN
  BY DEF Write
<1> QED BY <1>3, <1>4

\* Whether a write succeeds is a truth value.
LEMMA CanWriteType == CanWrite \subseteq BOOLEAN
BY DEF CanWrite

\* An operation leaves a bounded number of them.
LEMMA OperationType ==
  ASSUME SInv, Operation
  PROVE  up /\ ops' \in 0 .. MaxOps
BY StoreAssumption DEF SInv, TypeOK, Operation

\* The engine starts with nothing.
LEMMA InitInv == Init => SInv /\ CatalogIsStored
<1> SUFFICES ASSUME Init PROVE SInv /\ CatalogIsStored
  OBVIOUS
<1>1. realms \in SUBSET Realm /\ place \in Places /\ imports \in SUBSET Template /\ said \in Nat
  BY FreshType, StoreAssumption DEF Init
<1>2. serialize \in Session
  BY <1>1, SessionFields DEF serialize
<1>3. TypeOK
  <2>1. up \in BOOLEAN /\ pending \in BOOLEAN /\ heard \in BOOLEAN /\ missed \in BOOLEAN
    BY DEF Init
  <2>2. step \in [Realm -> 0 .. Len(Members)]
    BY MemberType DEF Init
  <2>3. room \in {"ample", "tight", "none"} /\ receipts \in SUBSET Template /\ ops \in 0 .. MaxOps
    BY StoreAssumption DEF Init
  <2>4. entry = None
    BY DEF Init
  <2> QED BY <1>2, <2>1, <2>2, <2>3, <2>4 DEF TypeOK
<1>4. GenericStays
  BY StoreAssumption DEF Init, GenericStays, None
<1> QED BY <1>3, <1>4 DEF Init, SInv, NoChangeForgotten, CatalogIsStored

---------------------------------------------------------------------------
(* The steps                                                               *)

\* What launches, kills, restores or purges agents.
LEMMA AgentsStep ==
  ASSUME SInv, Agents \/ emptyRecycleBin
  PROVE  SInv'
<1> USE MemType
<1>1. ASSUME Operation, scheduleAutoSave, UNCHANGED <<realms, imports, said, step, receipts>>, Idle,
             place' \in Places
      PROVE  SInv'
  <2>1. up /\ ops' \in 0 .. MaxOps
    BY <1>1, OperationType
  <2>2. TypeOK'
    <3>1. pending' \in BOOLEAN
      BY <1>1 DEF scheduleAutoSave
    <3> QED BY <1>1, <2>1, <3>1, TypesKept DEF scheduleAutoSave, Idle, SInv, TypeOK
  <2> QED BY <1>1, <2>2, ScheduledKept DEF scheduleAutoSave, SInv, GenericStays
<1>2. ASSUME NEW r \in Realm, NEW i \in Id,
             launchAgent(r, i) \/ killAgent(r, i) \/ restoreAgent(r, i) \/ purgeAgent(r, i)
      PROVE  SInv'
  <2>1. PICK w \in Place : place' = [place EXCEPT ![r][i] = w]
    BY <1>2 DEF launchAgent, killAgent, restoreAgent, purgeAgent, Place
  <2>2. place' \in Places
    BY <2>1 DEF Places
  <2> QED BY <1>1, <1>2, <2>2 DEF launchAgent, killAgent, restoreAgent, purgeAgent
<1>3. CASE emptyRecycleBin
  <2>1. place' \in Places
    BY <1>3 DEF emptyRecycleBin, Places, Place
  <2> QED BY <1>1, <1>3, <2>1 DEF emptyRecycleBin
<1> QED BY <1>2, <1>3 DEF Agents

\* Turns and mail.
LEMMA TalkStep ==
  ASSUME SInv, Talk
  PROVE  SInv'
<1> USE MemType
<1>1. /\ Operation /\ Idle /\ said' = said + 1
      /\ UNCHANGED <<realms, place, imports, step, receipts>>
      /\ scheduleAutoSave \/ Unscheduled
  BY DEF Talk, triggerTurn, FailedTurn, handleBusMessage
<1>2. up /\ ops' \in 0 .. MaxOps
  BY <1>1, OperationType
<1>3. pending' \in BOOLEAN /\ missed' \in BOOLEAN /\ entry' = entry /\ (pending' \/ missed')
  <2>1. CASE scheduleAutoSave
    BY <2>1 DEF scheduleAutoSave, SInv, TypeOK
  <2>2. CASE Unscheduled
    <3>1. pending' = pending /\ entry' = entry /\ missed' = (missed \/ ~pending)
      BY <2>2 DEF Unscheduled
    <3>2. missed' \in BOOLEAN
      BY <3>1
    <3> QED BY <3>1, <3>2 DEF SInv, TypeOK
  <2> QED BY <1>1, <2>1, <2>2
<1>4. said' \in Nat
  BY <1>1
<1>5. TypeOK'
  BY <1>1, <1>2, <1>3, <1>4, TypesKept DEF Idle, SInv, TypeOK
<1> QED BY <1>1, <1>3, <1>5, ScheduledKept DEF SInv, GenericStays

\* A Realm that is created, deleted or launched.
LEMMA RealmsStep ==
  ASSUME SInv, NEW r \in Realm,
         createRealm(r) \/ deleteRealm(r) \/ launchRealmFromTemplate(r) \/ LaunchNext(r) \/ LaunchDone(r)
  PROVE  SInv'
<1> USE MemType
<1>1. ASSUME up, ops' \in 0 .. MaxOps, scheduleAutoSave, UNCHANGED <<imports, said, receipts>>, Idle,
             place' \in Places, realms' \in SUBSET Realm, Generic \in realms',
             step' \in [Realm -> 0 .. Len(Members)], step'[Generic] = 0
      PROVE  SInv'
  <2>1. pending' \in BOOLEAN
    BY <1>1 DEF scheduleAutoSave
  <2>2. TypeOK'
    BY <1>1, <2>1, TypesKept DEF scheduleAutoSave, Idle, SInv, TypeOK
  <2> QED BY <1>1, <2>2, ScheduledKept DEF scheduleAutoSave
<1>2. Generic \in realms /\ step[Generic] = 0 /\ step \in [Realm -> 0 .. Len(Members)] /\ ops \in 0 .. MaxOps
      /\ Len(Members) \in Nat \ {0}
  BY MemberType DEF SInv, GenericStays, TypeOK
<1>3. CASE createRealm(r)
  BY <1>1, <1>2, <1>3, OperationType DEF createRealm
<1>4. CASE deleteRealm(r)
  <2>1. place' \in Places /\ realms' \in SUBSET Realm /\ Generic \in realms'
    BY <1>2, <1>4, PurgedType DEF deleteRealm
  <2> QED BY <1>1, <1>2, <1>4, <2>1, OperationType DEF deleteRealm
<1>5. CASE launchRealmFromTemplate(r)
  <2>1. place' \in Places
    <3>1. Members[1] \in Id
      BY MemberType
    <3>2. place' = [place EXCEPT ![r][Members[1]] = "active"]
      BY <1>5 DEF launchRealmFromTemplate
    <3> QED BY <3>1, <3>2 DEF Places, Place
  <2>2. step' \in [Realm -> 0 .. Len(Members)] /\ step'[Generic] = 0
    BY <1>2, <1>5 DEF launchRealmFromTemplate
  <2> QED BY <1>1, <1>2, <1>5, <2>1, <2>2, OperationType DEF launchRealmFromTemplate
<1>6. CASE LaunchNext(r)
  <2>1. step[r] + 1 \in 1 .. Len(Members)
    BY <1>2, <1>6 DEF LaunchNext
  <2>2. place' \in Places
    <3>1. Members[step[r] + 1] \in Id
      BY <2>1, MemberType
    <3>2. place' = [place EXCEPT ![r][Members[step[r] + 1]] = "active"]
      BY <1>6 DEF LaunchNext
    <3> QED BY <3>1, <3>2 DEF Places, Place
  <2>3. step' \in [Realm -> 0 .. Len(Members)] /\ step'[Generic] = 0
    BY <1>2, <1>6, <2>1 DEF LaunchNext
  <2> QED BY <1>1, <1>2, <1>6, <2>2, <2>3 DEF LaunchNext
<1>7. CASE LaunchDone(r)
  <2>1. step' \in [Realm -> 0 .. Len(Members)] /\ step'[Generic] = 0
    BY <1>2, <1>7 DEF LaunchDone
  <2> QED BY <1>1, <1>2, <1>7, <2>1 DEF LaunchDone, mem
<1> QED BY <1>3, <1>4, <1>5, <1>6, <1>7

\* A launch that fails.  If nothing of the Realm was left, nothing changes.
LEMMA RollbackStep ==
  ASSUME SInv, NEW r \in Realm, rollbackRealmLaunch(r)
  PROVE  SInv'
<1> USE MemType
<1> DEFINE q == Swept(place, r)
<1>1. q \in Places
  BY PurgedType DEF Swept
<1>2. place' \in Places /\ realms' \in SUBSET Realm
  BY <1>1, PurgedType DEF rollbackRealmLaunch
<1>3. r # Generic /\ Generic \in realms'
  BY DEF rollbackRealmLaunch, SInv, TypeOK, GenericStays
<1>4. step' \in [Realm -> 0 .. Len(Members)] /\ step'[Generic] = 0
  BY <1>3, MemberType DEF rollbackRealmLaunch, SInv, TypeOK, GenericStays
<1>5. entry' = entry /\ missed' = missed /\ pending' \in BOOLEAN
      /\ UNCHANGED <<imports, said, receipts, ops>> /\ Idle
  BY DEF rollbackRealmLaunch, scheduleAutoSave, SInv, TypeOK
<1>6. TypeOK'
  BY <1>2, <1>4, <1>5, TypesKept DEF Idle, SInv, TypeOK
<1>7. CASE r \in realms \/ Active(place, r) # {}
  <2>1. pending'
    BY <1>7 DEF rollbackRealmLaunch, scheduleAutoSave
  <2> QED BY <1>3, <1>4, <1>5, <1>6, <2>1, ScheduledKept
<1>8. CASE r \notin realms /\ Active(place, r) = {}
  <2>1. place' = place /\ realms' = realms /\ pending' = pending
    BY <1>8, PurgedNobody DEF rollbackRealmLaunch, Swept
  <2>2. Unsaved' <=> Unsaved
    BY <1>5, <2>1 DEF Unsaved, serialize, Stored
  <2> QED BY <1>3, <1>4, <1>5, <1>6, <2>1, <2>2, ScheduledKept DEF Idle, SInv, NoChangeForgotten
<1> QED BY <1>7, <1>8

\* A session in the middle of an import is one.
LEMMA MidwayType ==
  ASSUME SInv, NEW a \in SUBSET Realm, NEW c \in SUBSET Template, Generic \in a
  PROVE  /\ Saved(Midway(a, c)) \in Entries /\ Saved(Midway(a, c)).kind = "session"
         /\ Saved(Midway(a, c)).session = Midway(a, c)
         /\ Generic \in Midway(a, c).realms /\ Midway(a, c).imports = c
<1>1. Midway(a, c) \in Session
  BY MemType, SessionFields DEF Midway
<1>2. Generic \in Midway(a, c).realms /\ Midway(a, c).imports = c
  BY DEF Midway
<1> QED BY <1>1, <1>2, SavedType

\* A Realm that is imported, whether it is accepted or refused.
LEMMA ArchiveStep ==
  ASSUME SInv, NEW r \in Realm, importRealmArchive(r) \/ ImportRefused(r)
  PROVE  SInv'
<1> USE MemType
<1>1. /\ Generic \in realms /\ step[Generic] = 0 /\ step \in [Realm -> 0 .. Len(Members)]
      /\ up \in BOOLEAN /\ pending \in BOOLEAN /\ missed \in BOOLEAN /\ heard \in BOOLEAN
      /\ room \in {"ample", "tight", "none"} /\ receipts \in SUBSET Template
      /\ (entry.kind = "session" => Generic \in entry.session.realms)
  BY DEF SInv, GenericStays, TypeOK
<1>2. ops' \in 0 .. MaxOps
  BY OperationType DEF importRealmArchive, ImportRefused
<1>3. CASE importRealmArchive(r)
  <2>1. /\ realms' = realms \cup {r} /\ pending' = TRUE /\ heard' = FALSE
        /\ UNCHANGED <<said, step, up, room>>
    BY <1>3 DEF importRealmArchive
  <2>2. place' \in Places
    BY <1>3 DEF importRealmArchive, Places
  <2>3. /\ imports' \in SUBSET Template /\ receipts' \in SUBSET Template
        /\ missed' \in BOOLEAN /\ entry' \in Entries
        /\ (entry'.kind = "session" => Generic \in entry'.session.realms)
    <3>1. CASE UNCHANGED <<imports, receipts, entry, missed>>
      BY <1>1, <3>1
    <3>2. ASSUME NEW t \in Template \ imports,
                 imports' = imports \cup {t}, receipts' = imports',
                 entry' = Saved(Midway(realms', imports')),
                 missed' = FALSE
          PROVE  <2>3
      <4>1. realms' \in SUBSET Realm /\ Generic \in realms' /\ imports' \in SUBSET Template
        BY <1>1, <2>1, <3>2
      <4>2. entry' \in Entries /\ Generic \in entry'.session.realms
        BY <3>2, <4>1, MidwayType
      <4> QED BY <3>2, <4>1, <4>2
    <3> QED BY <1>3, <3>1, <3>2 DEF importRealmArchive
  <2>4. heard' \in BOOLEAN /\ pending' \in BOOLEAN
    BY <2>1
  <2>5. TypeOK'
    BY <1>1, <1>2, <2>1, <2>2, <2>3, <2>4, TypesKept
  <2> QED BY <1>1, <2>1, <2>3, <2>5 DEF SInv, GenericStays, NoChangeForgotten
<1>4. CASE ImportRefused(r)
  <2>1. heard' \in BOOLEAN /\ UNCHANGED <<realms, place, said, step, up, room>>
    BY <1>1, <1>4 DEF ImportRefused
  <2>2. CASE pending' = TRUE /\ UNCHANGED <<imports, receipts, entry, missed>>
    <3>1. pending' \in BOOLEAN
      BY <2>2
    <3>2. TypeOK'
      BY <1>1, <1>2, <2>1, <2>2, <3>1, TypesKept
    <3> QED BY <1>1, <2>1, <2>2, <3>2, ScheduledKept
  <2>3. CASE UNCHANGED <<imports, receipts>> /\ pending' = FALSE /\ Write(TRUE)
    <3>1. serialize' \in Session
      BY <2>1, <2>3, SessionFields DEF serialize
    <3>2. entry' \in Entries /\ missed' \in BOOLEAN /\ pending' \in BOOLEAN
      BY <2>3, <3>1, WriteType
    <3>3. TypeOK'
      BY <1>1, <1>2, <2>1, <2>3, <3>2, TypesKept
    <3> QED BY <1>1, <2>1, <2>3, <3>3, WriteKept
  <2>4. ASSUME NEW t \in Template \ imports, TemplateStays(r, t) PROVE SInv'
    <3>1. /\ imports' \in SUBSET Template /\ receipts' = imports'
          /\ pending' = FALSE /\ missed' = TRUE
      BY <2>4 DEF TemplateStays
    <3>2. entry' \in Entries /\ Generic \in entry'.session.realms
      <4>1. realms \cup {r} \in SUBSET Realm /\ Generic \in realms \cup {r}
        BY <1>1
      <4> QED BY <2>4, <3>1, <4>1, MidwayType DEF TemplateStays
    <3>3. pending' \in BOOLEAN /\ missed' \in BOOLEAN
      BY <3>1
    <3>4. TypeOK'
      BY <1>1, <1>2, <2>1, <3>1, <3>2, <3>3, TypesKept
    <3> QED BY <1>1, <2>1, <3>1, <3>2, <3>4 DEF SInv, GenericStays, NoChangeForgotten
  <2> QED BY <1>4, <2>2, <2>3, <2>4 DEF ImportRefused
<1> QED BY <1>3, <1>4

\* The catalog is changed and written, or put back.
LEMMA CatalogStep ==
  ASSUME SInv, Catalog
  PROVE  SInv'
<1> USE MemType
<1>1. PICK I \in SUBSET Template, ok \in BOOLEAN :
        /\ persistRealmTemplateRegistry(I, ok)
        /\ UNCHANGED <<realms, place, said, step>> /\ Idle /\ Operation
  <2>1. PICK t \in Template : importRealmTemplate(t) \/ deleteRealmTemplate(t)
    BY DEF Catalog
  <2>2. imports \cup {t} \in SUBSET Template /\ imports \ {t} \in SUBSET Template
    OBVIOUS
  <2>3. CASE importRealmTemplate(t)
    BY <2>2, <2>3, CanWriteType DEF importRealmTemplate
  <2>4. CASE deleteRealmTemplate(t)
    BY <2>2, <2>4, CanWriteType DEF deleteRealmTemplate
  <2> QED BY <2>1, <2>3, <2>4
<1>2. up /\ ops' \in 0 .. MaxOps
  BY <1>1, OperationType
<1>3. Generic \in realms' /\ step'[Generic] = 0 /\ pending' = FALSE
  BY <1>1 DEF SInv, GenericStays, persistRealmTemplateRegistry
<1>4. pending' \in BOOLEAN
  BY <1>3
<1>5. CASE ok
  <2>1. imports' = I /\ receipts' = I /\ Write(TRUE)
    BY <1>1, <1>5 DEF persistRealmTemplateRegistry
  <2>2. serialize' \in Session
    BY <1>1, <2>1, SessionFields DEF serialize
  <2>3. entry' \in Entries /\ missed' \in BOOLEAN
    BY <2>1, <2>2, WriteType
  <2>4. TypeOK'
    BY <1>1, <1>2, <1>4, <2>1, <2>3, TypesKept DEF Idle, SInv, TypeOK
  <2> QED BY <1>3, <2>1, <2>4, WriteKept
<1>6. CASE ~ok
  <2>1. missed' = (missed \/ pending) /\ UNCHANGED <<imports, receipts, entry>>
    BY <1>1, <1>6 DEF persistRealmTemplateRegistry
  <2>2. missed' \in BOOLEAN
    BY <2>1
  <2>3. TypeOK'
    BY <1>1, <1>2, <1>4, <2>1, <2>2, TypesKept DEF Idle, SInv, TypeOK
  <2>4. Unsaved' <=> Unsaved
    BY <1>1, <2>1 DEF Unsaved, serialize, Stored
  <2>5. missed' \/ ~Unsaved'
    BY <1>2, <2>1, <2>4 DEF SInv, NoChangeForgotten
  <2> QED BY <1>3, <2>1, <2>3, <2>5, ScheduledKept
<1> QED BY <1>5, <1>6

\* The debounced save, and a save the user asks for.
LEMMA SaveStep ==
  ASSUME SInv, flush \/ saveToStorage
  PROVE  SInv'
<1> USE MemType
<1>1. PICK ok \in BOOLEAN :
        Write(ok) /\ UNCHANGED <<mem, step, receipts>> /\ Idle /\ pending' = FALSE
  BY CanWriteType DEF flush, saveToStorage
<1>2. ops' \in 0 .. MaxOps
  BY OperationType DEF flush, saveToStorage, SInv, TypeOK
<1>3. serialize' \in Session
  BY <1>1 DEF mem, serialize
<1>4. entry' \in Entries /\ missed' \in BOOLEAN /\ pending' \in BOOLEAN
  BY <1>1, <1>3, WriteType
<1>5. TypeOK'
  BY <1>1, <1>2, <1>4, TypesKept DEF mem, Idle, SInv, TypeOK
<1> QED BY <1>1, <1>5, WriteKept DEF mem, SInv, GenericStays

\* The page closes.
LEMMA CloseStep ==
  ASSUME SInv, Crash \/ handleUnload
  PROVE  SInv' /\ up' = FALSE /\ receipts' = receipts
               /\ (entry' = entry \/ (up /\ entry' = Saved(serialize)))
<1> USE MemType
<1>1. up /\ Closed
  BY DEF Crash, handleUnload
<1>2. /\ up' = FALSE /\ pending' = FALSE /\ heard' = FALSE
      /\ realms' = {Generic} /\ place' = NoMembers /\ imports' = {} /\ said' = 0
      /\ step' = [r \in Realm |-> 0] /\ UNCHANGED <<room, receipts, ops>>
  BY <1>1 DEF Closed, Become, Fresh
<1>3. (entry' = entry \/ entry' = Saved(serialize)) /\ missed' \in BOOLEAN
  <2>1. CASE UNCHANGED <<entry, missed>>
    BY <2>1 DEF SInv, TypeOK
  <2>2. ASSUME NEW ok \in CanWrite,
               entry' = IF ok THEN Saved(serialize) ELSE entry, missed' = ~ok
        PROVE  <1>3
    <3>1. missed' \in BOOLEAN
      BY <2>2
    <3> QED BY <2>2, <3>1
  <2> QED BY <2>1, <2>2 DEF Crash, handleUnload
<1>4. Saved(serialize) \in Entries /\ Saved(serialize).session = serialize
  BY SavedType
<1>5. entry' \in Entries /\ (entry'.kind = "session" => Generic \in entry'.session.realms)
  <2>1. CASE entry' = entry
    BY <2>1 DEF SInv, GenericStays
  <2>2. CASE entry' = Saved(serialize)
    BY <1>4, <2>2 DEF serialize, SInv, GenericStays
  <2> QED BY <1>3, <2>1, <2>2
<1>6. TypeOK'
  <2>1. up' \in BOOLEAN /\ pending' \in BOOLEAN /\ heard' \in BOOLEAN
    BY <1>2
  <2>2. step' \in [Realm -> 0 .. Len(Members)] /\ realms' \in SUBSET Realm
    BY <1>2, MemberType, StoreAssumption
  <2>3. room' \in {"ample", "tight", "none"} /\ receipts' \in SUBSET Template /\ ops' \in 0 .. MaxOps
    BY <1>2 DEF SInv, TypeOK
  <2> QED BY <1>2, <1>3, <1>5, <2>1, <2>2, <2>3, FreshType, TypesKept
<1> QED BY <1>1, <1>2, <1>3, <1>5, <1>6, StoreAssumption DEF SInv, GenericStays, NoChangeForgotten

\* The page opens.  The catalog is that of the entry.
LEMMA BootStep ==
  ASSUME SInv, BootFresh \/ hydrateFromStorage \/ HydrationFailed \/ BlindBoot
  PROVE  SInv' /\ Stored'.imports = Stored.imports /\ imports' = Stored.imports
               /\ receipts' = receipts
<1> USE MemType
<1>1. up' = TRUE /\ pending' = FALSE /\ UNCHANGED <<step, room, receipts, ops>>
  BY DEF BootFresh, hydrateFromStorage, HydrationFailed, BlindBoot, Start
<1>2. up' \in BOOLEAN /\ pending' \in BOOLEAN
  BY <1>1
<1>3. CASE BootFresh
  <2>1. /\ entry.kind # "session" /\ entry' = None /\ entry'.kind # "session"
        /\ heard' = TRUE /\ missed' = FALSE
        /\ realms' = {Generic} /\ place' = NoMembers /\ imports' = {} /\ said' = 0
    BY <1>3 DEF BootFresh, Become, Fresh, None
  <2>2. heard' \in BOOLEAN /\ missed' \in BOOLEAN /\ entry' \in Entries
    BY <2>1 DEF Entries
  <2>3. realms' \in SUBSET Realm
    BY <2>1, StoreAssumption
  <2>4. TypeOK'
    BY <1>1, <1>2, <2>1, <2>2, <2>3, FreshType, TypesKept DEF SInv, TypeOK
  <2>5. serialize' = Fresh /\ Stored' = Fresh /\ Stored = Fresh
    BY <2>1 DEF serialize, Fresh, Stored
  <2> QED BY <1>1, <2>1, <2>4, <2>5 DEF SInv, GenericStays, NoChangeForgotten, Unsaved, Fresh
<1>4. CASE hydrateFromStorage \/ HydrationFailed \/ BlindBoot
  <2> DEFINE s == entry.session
  <2>1. entry.kind = "session" /\ entry' = entry /\ s \in Session /\ Stored = s /\ Stored' = s
    BY <1>4, EntryCases DEF hydrateFromStorage, HydrationFailed, BlindBoot, Stored
  <2>2. /\ s = [realms |-> s.realms, place |-> s.place, imports |-> s.imports, said |-> s.said]
        /\ s.realms \in SUBSET Realm /\ s.place \in Places
        /\ s.imports \in SUBSET Template /\ s.said \in Nat
    <3> HIDE DEF s
    <3> QED BY <2>1, SessionIsItsFields
  <2>3. realms' = s.realms /\ imports' = s.imports
    <3>1. ASSUME NEW p, NEW n, Become([s EXCEPT !.place = p, !.said = n])
          PROVE  realms' = s.realms /\ imports' = s.imports /\ place' = p /\ said' = n
      BY <2>1, <3>1 DEF Become, Session
    <3>2. CASE hydrateFromStorage
      BY <3>2 DEF hydrateFromStorage, Become
    <3>3. CASE HydrationFailed
      BY <3>1, <3>3 DEF HydrationFailed
    <3>4. CASE BlindBoot
      BY <3>1, <3>4 DEF BlindBoot
    <3> QED BY <1>4, <3>2, <3>3, <3>4
  <2>4. place' \in Places /\ said' \in Nat
    <3>1. ASSUME NEW p \in {s.place, NoMembers}, NEW n \in {s.said, 0},
                 Become([s EXCEPT !.place = p, !.said = n])
          PROVE  place' \in Places /\ said' \in Nat
      BY <2>1, <2>2, <3>1, FreshType DEF Become, Session
    <3>2. CASE hydrateFromStorage
      BY <2>2, <3>2 DEF hydrateFromStorage, Become
    <3>3. CASE HydrationFailed
      BY <3>1, <3>3 DEF HydrationFailed
    <3>4. CASE BlindBoot
      BY <3>1, <3>4 DEF BlindBoot
    <3> QED BY <1>4, <3>2, <3>3, <3>4
  <2>5. heard' \in BOOLEAN /\ missed' \in BOOLEAN
    BY <1>4 DEF hydrateFromStorage, HydrationFailed, BlindBoot
  <2>6. missed' \/ ~Unsaved'
    <3>1. CASE hydrateFromStorage
      <4>1. place' = s.place /\ said' = s.said
        BY <3>1 DEF hydrateFromStorage, Become
      <4>2. serialize' = s
        BY <2>2, <2>3, <4>1 DEF serialize
      <4> QED BY <2>1, <4>2 DEF Unsaved
    <3>2. CASE HydrationFailed \/ BlindBoot
      BY <3>2 DEF HydrationFailed, BlindBoot
    <3> QED BY <1>4, <3>1, <3>2
  <2>7. TypeOK'
    BY <1>1, <1>2, <2>1, <2>2, <2>3, <2>4, <2>5, TypesKept DEF SInv, TypeOK
  <2>8. Generic \in realms' /\ step'[Generic] = 0
    BY <1>1, <2>1, <2>3 DEF SInv, GenericStays
  <2>9. SInv'
    BY <2>1, <2>6, <2>7, <2>8, ScheduledKept
  <2> QED BY <1>1, <2>1, <2>3, <2>9
<1> QED BY <1>3, <1>4

\* A factory reset, and what the host does.
LEMMA HostStep ==
  ASSUME SInv, factoryReset \/ RoomChanges \/ EntrySpoilt
  PROVE  SInv'
<1> USE MemType
<1>1. CASE factoryReset
  <2>1. /\ realms' = {Generic} /\ place' = NoMembers /\ imports' = {} /\ said' = 0
        /\ receipts' = {} /\ heard' = FALSE /\ UNCHANGED <<step, up, room>>
        /\ entry' = IF room = "none" THEN entry ELSE None
        /\ missed' = (room = "none") /\ pending' = (realms # {Generic})
    BY <1>1 DEF factoryReset, Become, Fresh
  <2>2. pending' \in BOOLEAN /\ missed' \in BOOLEAN /\ heard' \in BOOLEAN
    BY <2>1
  <2>3. entry' \in Entries /\ realms' \in SUBSET Realm /\ receipts' \in SUBSET Template
    BY <2>1, StoreAssumption DEF Entries
  <2>4. ops' \in 0 .. MaxOps
    BY <1>1, OperationType DEF factoryReset
  <2>5. TypeOK'
    BY <2>1, <2>2, <2>3, <2>4, FreshType, TypesKept DEF SInv, TypeOK
  <2>6. serialize' = Fresh
    BY <2>1 DEF serialize, Fresh
  <2>7. CASE room = "none"
    BY <2>1, <2>5, <2>7, ScheduledKept DEF SInv, GenericStays
  <2>8. CASE room # "none"
    <3>1. entry'.kind # "session" /\ Stored' = Fresh
      BY <2>1, <2>8 DEF Stored, None
    <3> QED BY <2>1, <2>5, <2>6, <3>1 DEF SInv, GenericStays, NoChangeForgotten, Unsaved
  <2> QED BY <2>7, <2>8
<1>2. CASE RoomChanges
  <2>1. TypeOK'
    BY <1>2, StoreAssumption, TypesKept DEF RoomChanges, mem, SInv, TypeOK
  <2>2. Unsaved' <=> Unsaved
    BY <1>2 DEF RoomChanges, mem, Unsaved, serialize, Stored
  <2> QED BY <1>2, <2>1, <2>2 DEF RoomChanges, mem, SInv, GenericStays, NoChangeForgotten
<1>3. CASE EntrySpoilt
  <2>1. entry' = Corrupt /\ entry' \in Entries /\ entry'.kind # "session" /\ ~up'
    BY <1>3 DEF EntrySpoilt, Entries, Corrupt, SInv, TypeOK
  <2>2. TypeOK'
    BY <1>3, <2>1, StoreAssumption, TypesKept DEF EntrySpoilt, mem, SInv, TypeOK
  <2> QED BY <1>3, <2>1, <2>2 DEF EntrySpoilt, mem, SInv, GenericStays, NoChangeForgotten
<1> QED BY <1>1, <1>2, <1>3

\* Nothing happens.
LEMMA StutterStep == SInv /\ UNCHANGED vars => SInv'
<1> SUFFICES ASSUME SInv, UNCHANGED vars PROVE SInv'
  OBVIOUS
<1>1. TypeOK'
  BY MemType, TypesKept DEF vars, mem, SInv, TypeOK
<1>2. Unsaved' <=> Unsaved
  BY DEF vars, mem, Unsaved, serialize, Stored
<1> QED BY <1>1, <1>2 DEF vars, mem, SInv, GenericStays, NoChangeForgotten

\* Every step keeps the invariant.
LEMMA StepInv == SInv /\ [Next]_vars => SInv'
<1> SUFFICES ASSUME SInv, [Next]_vars PROVE SInv'
  OBVIOUS
<1>1. CASE Realms
  BY <1>1, RealmsStep, RollbackStep, ArchiveStep DEF Realms
<1>2. CASE Restarts
  BY <1>2, CloseStep, BootStep, HostStep DEF Restarts
<1> QED BY <1>1, <1>2, AgentsStep, TalkStep, CatalogStep, SaveStep, HostStep, StutterStep DEF Next

---------------------------------------------------------------------------
(* The catalog of templates                                                *)

\* An entry that is written reads as what was written.
LEMMA StoredImports ==
  ASSUME NEW s, s \in Session, entry' = Saved(s)
  PROVE  Stored'.imports = s.imports
<1>1. entry'.kind = "session" /\ entry'.session = s
  BY SavedType
<1> QED BY <1>1 DEF Stored

\* Every step keeps the accepted templates stored.
LEMMA CatalogStepKeeps ==
  SInv /\ CatalogIsStored /\ [Next]_vars => CatalogIsStored'
<1> SUFFICES ASSUME SInv, CatalogIsStored, [Next]_vars PROVE CatalogIsStored'
  OBVIOUS
<1>1. ASSUME UNCHANGED <<imports, receipts, entry>>, up' => up PROVE CatalogIsStored'
  BY <1>1 DEF CatalogIsStored, Stored
<1>2. ASSUME Write(TRUE) \/ Write(FALSE), SInv', receipts \subseteq imports, receipts' = receipts,
             imports' = imports
      PROVE  CatalogIsStored'
  <2>1. CASE Write(TRUE)
    <3>1. entry' = Saved(serialize') /\ serialize' \in Session
      BY <1>2, <2>1 DEF Write, SInv, TypeOK
    <3>2. Stored'.imports = serialize'.imports
      BY <3>1, StoredImports
    <3>3. serialize'.imports = imports'
      BY DEF serialize
    <3> QED BY <1>2, <3>2, <3>3 DEF CatalogIsStored
  <2>2. CASE Write(FALSE)
    BY <1>2, <2>2 DEF Write, CatalogIsStored, Stored
  <2> QED BY <1>2, <2>1, <2>2
<1>3. CASE Agents \/ emptyRecycleBin
  <2>1. UNCHANGED <<imports, receipts, entry, up>>
    BY <1>3 DEF Agents, emptyRecycleBin, launchAgent, killAgent, restoreAgent, purgeAgent,
             scheduleAutoSave, Idle
  <2> QED BY <1>1, <2>1
<1>4. CASE Talk
  <2>1. UNCHANGED <<imports, receipts, entry, up>>
    BY <1>4 DEF Talk, triggerTurn, FailedTurn, handleBusMessage, scheduleAutoSave, Unscheduled, Idle
  <2> QED BY <1>1, <2>1
<1>5. CASE Realms
  <2>1. PICK r \in Realm :
          \/ createRealm(r) \/ deleteRealm(r) \/ launchRealmFromTemplate(r)
          \/ LaunchNext(r) \/ LaunchDone(r) \/ rollbackRealmLaunch(r)
          \/ importRealmArchive(r) \/ ImportRefused(r)
    BY <1>5 DEF Realms
  <2>2. CASE createRealm(r) \/ deleteRealm(r) \/ launchRealmFromTemplate(r)
             \/ LaunchNext(r) \/ LaunchDone(r) \/ rollbackRealmLaunch(r)
    <3>1. UNCHANGED <<imports, receipts, entry, up>>
      BY <2>2 DEF createRealm, deleteRealm, launchRealmFromTemplate, LaunchNext, LaunchDone,
               rollbackRealmLaunch, scheduleAutoSave, Idle, mem
    <3> QED BY <1>1, <3>1
  <2>3. ASSUME NEW a \in SUBSET Realm, Generic \in a, imports' \in SUBSET Template,
               entry' = Saved(Midway(a, imports')), receipts' = imports'
        PROVE  CatalogIsStored'
    <3>1. Midway(a, imports') \in Session
      BY <2>3, MemType, SessionFields DEF Midway
    <3>2. Stored'.imports = imports'
      <4>1. Stored'.imports = Midway(a, imports').imports
        BY <2>3, <3>1, StoredImports
      <4> QED BY <4>1 DEF Midway
    <3> QED BY <2>3, <3>2 DEF CatalogIsStored
  <2>4. Generic \in realms /\ realms \cup {r} \in SUBSET Realm
    BY MemType DEF SInv, GenericStays
  <2>5. CASE importRealmArchive(r)
    <3>1. CASE UNCHANGED <<imports, receipts, entry>>
      BY <1>1, <2>5, <3>1 DEF importRealmArchive
    <3>2. CASE /\ imports' \in SUBSET Template /\ receipts' = imports'
               /\ entry' = Saved(Midway(realms', imports'))
      BY <2>3, <2>4, <2>5, <3>2 DEF importRealmArchive
    <3>3. imports \in SUBSET Template
      BY MemType
    <3> QED BY <2>5, <3>1, <3>2, <3>3 DEF importRealmArchive
  <2>6. CASE ImportRefused(r)
    <3>1. up /\ up' = up /\ receipts \subseteq imports /\ SInv'
      BY <2>6, ArchiveStep DEF ImportRefused, Operation, CatalogIsStored
    <3>2. CASE UNCHANGED <<imports, receipts, entry>>
      BY <1>1, <3>1, <3>2
    <3>3. CASE UNCHANGED <<imports, receipts>> /\ Write(TRUE)
      BY <1>2, <3>1, <3>3
    <3>4. ASSUME NEW t \in Template \ imports, TemplateStays(r, t)
          PROVE  CatalogIsStored'
      <4>1. imports' \in SUBSET Template
        BY <3>4, MemType DEF TemplateStays
      <4> QED BY <2>3, <2>4, <3>4, <4>1 DEF TemplateStays
    <3> QED BY <2>6, <3>2, <3>3, <3>4 DEF ImportRefused
  <2> QED BY <2>1, <2>2, <2>5, <2>6
<1>6. CASE Catalog
  <2>1. PICK I \in SUBSET Template, ok \in BOOLEAN :
          persistRealmTemplateRegistry(I, ok) /\ up' = up
    <3>1. PICK t \in Template : importRealmTemplate(t) \/ deleteRealmTemplate(t)
      BY <1>6 DEF Catalog
    <3>2. imports \cup {t} \in SUBSET Template /\ imports \ {t} \in SUBSET Template
      BY MemType
    <3> QED BY <3>1, <3>2, CanWriteType DEF importRealmTemplate, deleteRealmTemplate, Idle
  <2>2. CASE ok
    <3>1. imports' = I /\ receipts' = I /\ entry' = Saved(serialize')
      BY <2>1, <2>2 DEF persistRealmTemplateRegistry, Write
    <3>2. serialize' \in Session /\ serialize'.imports = imports'
      BY <1>6, CatalogStep DEF SInv, TypeOK, serialize
    <3>3. Stored'.imports = imports'
      BY <3>1, <3>2, StoredImports
    <3> QED BY <3>1, <3>3 DEF CatalogIsStored
  <2>3. CASE ~ok
    BY <1>1, <2>1, <2>3 DEF persistRealmTemplateRegistry
  <2> QED BY <2>2, <2>3
<1>7. CASE flush \/ saveToStorage
  <2>1. SInv' /\ receipts \subseteq imports
    BY <1>7, SaveStep DEF flush, saveToStorage, Operation, CatalogIsStored
  <2>2. Write(TRUE) \/ Write(FALSE)
    BY <1>7, CanWriteType DEF flush, saveToStorage
  <2>3. receipts' = receipts /\ imports' = imports
    BY <1>7 DEF flush, saveToStorage, mem
  <2> QED BY <1>2, <2>1, <2>2, <2>3
<1>8. CASE Crash \/ handleUnload
  <2>1. up' = FALSE /\ receipts' = receipts
        /\ (entry' = entry \/ (up /\ entry' = Saved(serialize)))
    BY <1>8, CloseStep
  <2>2. CASE entry' = entry
    BY <2>1, <2>2 DEF CatalogIsStored, Stored
  <2>3. CASE up /\ entry' = Saved(serialize)
    <3>1. Stored'.imports = imports
      <4>1. Stored'.imports = serialize.imports
        BY <2>3, MemType, StoredImports
      <4> QED BY <4>1 DEF serialize
    <3> QED BY <2>1, <2>3, <3>1 DEF CatalogIsStored
  <2> QED BY <2>1, <2>2, <2>3
<1>9. CASE BootFresh \/ hydrateFromStorage \/ HydrationFailed \/ BlindBoot
  BY <1>9, BootStep DEF CatalogIsStored
<1>10. CASE factoryReset \/ EntrySpoilt
  BY <1>10 DEF factoryReset, EntrySpoilt, CatalogIsStored
<1>11. CASE RoomChanges \/ UNCHANGED vars
  BY <1>1, <1>11 DEF RoomChanges, vars, mem
<1>12. CASE Restarts
  BY <1>8, <1>9, <1>10, <1>12 DEF Restarts
<1> QED BY <1>3, <1>4, <1>5, <1>6, <1>7, <1>10, <1>11, <1>12 DEF Next

---------------------------------------------------------------------------
(* The end of a Realm                                                      *)

\* The id of an agent without namesakes denotes it, wherever it is.
LEMMA TargetOfLoneId ==
  ASSUME NEW p \in Places, NEW r \in Realm, NEW i \in Id, p[r][i] # "none",
         \A s \in Realm \ {r} : p[s][i] = "none"
  PROVE  PurgeTarget(p, i) = {r}
<1>1. CASE p[r][i] = "active"
  <2>1. Holders(p, i, "active") = {r}
    BY <1>1 DEF Holders
  <2> QED BY <2>1 DEF PurgeTarget, Unique
<1>2. CASE p[r][i] # "active"
  <2>1. p[r][i] = "recycled"
    BY <1>2 DEF Places, Place
  <2>2. Holders(p, i, "active") = {} /\ Holders(p, i, "recycled") = {r}
    BY <2>1 DEF Holders
  <2> QED BY <2>2 DEF PurgeTarget, Unique
<1> QED BY <1>1, <1>2

\* Purging agents of a Realm without namesakes purges these and nobody else.
LEMMA PurgedAlone ==
  ASSUME NEW p \in Places, NEW r \in Realm, NEW I \in SUBSET Of(p, r),
         \A i \in Of(p, r), s \in Realm \ {r} : p[s][i] = "none"
  PROVE  /\ Resolved(p, I)
         /\ \A i \in Id : Purged(p, I)[r][i] = IF i \in I THEN "none" ELSE p[r][i]
         /\ \A s \in Realm \ {r} : Purged(p, I)[s] = p[s]
<1>1. \A i \in I : i \in Id /\ PurgeTarget(p, i) = {r}
  BY TargetOfLoneId DEF Of
<1>2. \A i \in Id : Purged(p, I)[r][i] = IF i \in I THEN "none" ELSE p[r][i]
  BY <1>1 DEF Purged
<1>3. ASSUME NEW s \in Realm \ {r} PROVE Purged(p, I)[s] = p[s]
  <2>1. Purged(p, I)[s] = [i \in Id |-> p[s][i]]
    BY <1>1 DEF Purged
  <2> QED BY <2>1 DEF Places
<1> QED BY <1>1, <1>2, <1>3 DEF Resolved

\* A Realm without namesakes ends whole.
LEMMA EndsWhole ==
  ASSUME SInv, NEW r \in Realm, Alone(r),
         deleteRealm(r) \/ (rollbackRealmLaunch(r) /\ r \in realms)
  PROVE  Gone(r) /\ Unhurt(r)
<1>1. place \in Places
  BY MemType
<1>2. \A i \in Of(place, r), s \in Realm \ {r} : place[s][i] = "none"
  BY DEF Alone
<1>3. CASE deleteRealm(r)
  <2>1. place' = Purged(place, Of(place, r))
    BY <1>3 DEF deleteRealm
  <2>2. /\ Resolved(place, Of(place, r))
        /\ \A i \in Id : place'[r][i] = IF i \in Of(place, r) THEN "none" ELSE place[r][i]
        /\ \A s \in Realm \ {r} : place'[s] = place[s]
    BY <1>1, <1>2, <2>1, PurgedAlone
  <2>3. Of(place', r) = {}
    BY <2>2 DEF Of
  <2> QED BY <1>3, <2>2, <2>3 DEF deleteRealm, Gone, Unhurt
<1>4. CASE rollbackRealmLaunch(r) /\ r \in realms
  <2> DEFINE q == Swept(place, r)
  <2>1. Active(place, r) \in SUBSET Of(place, r)
    BY DEF Active, Of
  <2>2. q \in Places
    BY <1>1, PurgedType DEF Swept
  <2>3. /\ \A i \in Id : q[r][i] = IF i \in Active(place, r) THEN "none" ELSE place[r][i]
        /\ \A s \in Realm \ {r} : q[s] = place[s]
    BY <1>1, <1>2, <2>1, PurgedAlone DEF Swept
  <2>4. /\ place' = Purged(q, Of(q, r))
        /\ realms' = IF Resolved(q, Of(q, r)) THEN realms \ {r} ELSE realms
    BY <1>4 DEF rollbackRealmLaunch
  <2> HIDE DEF q
  <2>5. Of(q, r) \subseteq Of(place, r)
    BY <2>3 DEF Of
  <2>6. \A i \in Of(q, r), s \in Realm \ {r} : q[s][i] = "none"
    BY <1>2, <2>3, <2>5
  <2>7. /\ Resolved(q, Of(q, r))
        /\ \A i \in Id : place'[r][i] = IF i \in Of(q, r) THEN "none" ELSE q[r][i]
        /\ \A s \in Realm \ {r} : place'[s] = q[s]
    BY <2>2, <2>4, <2>6, PurgedAlone
  <2>8. Of(place', r) = {}
    BY <2>7 DEF Of
  <2> QED BY <2>3, <2>4, <2>7, <2>8 DEF Gone, Unhurt
<1> QED BY <1>3, <1>4

---------------------------------------------------------------------------
(* The theorems                                                            *)

\* Memory and storage differ only while a save is pending, or after a write or a
\* restore has failed or a change has scheduled none, however calls, flushes,
\* restarts and resets follow each other.
THEOREM SessionInvariance == Spec => []SInv
<1>1. Init => SInv
  BY InitInv
<1> QED BY <1>1, StepInv, PTL DEF Spec

\* An import of a template that was accepted is stored and in the catalog,
\* whenever the page dies and whatever cannot be written.
THEOREM AcceptedTemplatesAreStored == Spec => []CatalogIsStored
<1>1. Init => CatalogIsStored
  BY InitInv
<1> QED BY <1>1, CatalogStepKeeps, SessionInvariance, PTL DEF Spec

\* A Realm that is deleted or whose launch fails ends whole and alone, if no
\* other Realm has agents of the ids of its members.
THEOREM RealmsEnd == Spec => RealmsEndWhole
<1>1. SInv /\ [Next]_vars =>
        [\A r \in Realm :
           (deleteRealm(r) \/ (rollbackRealmLaunch(r) /\ r \in realms)) /\ Alone(r)
           => Gone(r) /\ Unhurt(r)]_vars
  BY EndsWhole
<1> QED BY <1>1, SessionInvariance, PTL DEF Spec, RealmsEndWhole
=============================================================================
