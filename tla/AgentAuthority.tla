---------------------------- MODULE AgentAuthority ----------------------------
(***************************************************************************)
(* Who may do what to whom (runtime/agentLifecycle/index.ts): launch,      *)
(* kill, restore and purge of agents, the descriptor of each active agent, *)
(* grants, edits of an agent by another, at once or deferred, and what a   *)
(* reload of the page makes of all this.                                   *)
(*                                                                         *)
(* The operator calls through the store, with the internal principal and   *)
(* mostly by canonical key.  An agent calls from its turn through the      *)
(* lifecycle port, which offers launchAgent, killAgent, updateAgent and    *)
(* restoreAgent, and refers to agents by bare id only, since the tools     *)
(* refuse internal ids.  Which of them its tools let it call is left out:  *)
(* an agent whose turn runs may try all four.                              *)
(*                                                                         *)
(* The one grant stands for agent-edit; extensions, workspaces, anonymous  *)
(* callers, the cap of the deferred edits and fields that carry no         *)
(* authority are left out.                                                 *)
(*                                                                         *)
(* A definition whose name ends in _Fault is a seeded fault, as in         *)
(* TriggerQueue.                                                           *)
(***************************************************************************)
EXTENDS Naturals

CONSTANTS
  Key, BareId, Realm,  \* canonical keys, bare ids, Realms
  IdOf, RealmOf,       \* the id and the Realm a key is made of
  Operator,            \* the caller with the internal principal
  Tool,                \* tools, and the two below
  Star,                \* '*': every tool
  Lifecycle,           \* '@lifecycle:authority'
  Readonly,            \* the preset readonly_collaborator
  Scope,               \* scopes of the grant that occur
  Request,             \* launches that are asked for
  Patch,               \* patches that are asked for
  Founder, Charter,    \* agents that are there to begin with, as launched
  Planned,             \* keys whose template makes them privileged
  NoId, NoScope, NoAuthority, NoEdit,
  MaxChanges           \* bound: calls and reloads

Field     == {"tools", "privilege"}
Scopes    == [realms : SUBSET Realm, targets : SUBSET BareId, ownSpawns : BOOLEAN,
              realmMembers : BOOLEAN, fields : SUBSET Field]  \* {}: not given
Requests  == [defaults : BOOLEAN, tools : SUBSET Tool, privileged : BOOLEAN,
              bypass : BOOLEAN, grant : Scope \cup {NoScope}, parent : BareId \cup {NoId}]
Patches   == [fields : SUBSET Field, tools : SUBSET Tool, privileged : BOOLEAN]
Config    == [tools : SUBSET Tool, privileged : BOOLEAN, parent : BareId \cup {NoId},
              snapshot : BOOLEAN]
Authority == [tools : SUBSET Tool, bypass : BOOLEAN, grant : Scope \cup {NoScope}]
Edit      == [actor : Key, patch : Patch]
Blank     == [tools |-> {}, privileged |-> FALSE, parent |-> NoId, snapshot |-> FALSE]

ASSUME KeyAssumption ==
  /\ IdOf \in [Key -> BareId] /\ RealmOf \in [Key -> Realm]
  /\ \A j, k \in Key : IdOf[j] = IdOf[k] /\ RealmOf[j] = RealmOf[k] => j = k
  /\ Key \cap BareId = {} /\ Operator \notin Key /\ NoId \notin BareId
  /\ Founder \subseteq Key /\ Planned \subseteq Key

ASSUME AuthorityAssumption ==
  /\ {Star, Lifecycle} \subseteq Tool /\ Star # Lifecycle
  /\ Readonly \subseteq Tool \ {Star, Lifecycle}
  /\ Scope \subseteq Scopes /\ NoScope \notin Scope
  /\ NoAuthority \notin Authority /\ NoEdit \notin Edit
  /\ Request \subseteq Requests /\ Charter \in [Key -> Requests]
  /\ Patch \subseteq Patches /\ \A p \in Patch : p.fields # {}
  /\ MaxChanges \in Nat

VARIABLES
  active, bin,  \* #agents and #recycleBin
  config,       \* config[k]: config and authorityProvenance of the record
  authority,    \* #authorityRegistry with #authorityInputs
  edits,        \* #pendingAgentEdits
  turn,         \* "settling": idle again, but currentTurnPromise still stands
  changes       \* history: calls and reloads so far

vars == <<active, bin, config, authority, edits, turn, changes>>

Baked(c) == IF c.privileged THEN {Star} ELSE c.tools

\* What an operator's launch makes of the request.
Composed(q)   == [tools |-> IF q.defaults THEN {} ELSE q.tools, privileged |-> q.privileged,
                  parent |-> q.parent, snapshot |-> FALSE]
Registered(q) == [tools |-> Baked(Composed(q)), bypass |-> q.bypass, grant |-> q.grant]

Init ==
  /\ active = Founder /\ bin = {}
  /\ config = [k \in Key |-> IF k \in Founder THEN Composed(Charter[k]) ELSE Blank]
  /\ authority = [k \in Key |-> IF k \in Founder THEN Registered(Charter[k]) ELSE NoAuthority]
  /\ edits = [k \in Key |-> NoEdit]
  /\ turn = [k \in Key |-> "idle"]
  /\ changes = 0

-----------------------------------------------------------------------------
(* Callers and whom they mean                                              *)

Agents      == {k \in active : turn[k] = "running"}
Within(S,T) == Star \in T \/ S \subseteq T

\* principalHasLifecycleAuthority
Sudo(S)     == {Star, Lifecycle} \cap S # {}
IsSudoer(c) == IF c = Operator THEN TRUE ELSE Sudo(authority[c].tools)

Bypasses(c)   == IF c = Operator THEN TRUE ELSE authority[c].bypass
InScope(c, k) == IF Bypasses(c) THEN TRUE ELSE RealmOf[c] = RealmOf[k]
IsParent(c,k) == config[k].parent = IdOf[c]

ByBareId(S, i) == {k \in S : IdOf[k] = i /\ \A m \in S : IdOf[m] = i => m = k}

\* #resolveMutationTarget: the record of S that r denotes, an exact key, else
\* the bare id in the caller's Realm, else the bare id if only one has it.
Denoted(c, r, S) ==
  LET own == {k \in active \cup bin : ~Bypasses(c) /\ IdOf[k] = r /\ RealmOf[k] = RealmOf[c]}
  IN  IF r \in Key THEN {r} \cap S
      ELSE IF own # {} THEN own \cap S ELSE ByBareId(S, r)

\* The bare id alone decides.
MayMutate_Fault(c, r, k) == IF IsSudoer(c) THEN TRUE ELSE r = IdOf[c] \/ IsParent(c, k)

\* #authorizeLifecycleMutation, and the same in killAgent
MayMutate(c, r, k) ==
  /\ InScope(c, k)
  /\ IF IsSudoer(c) THEN TRUE ELSE r = IdOf[c] \/ IsParent(c, k)

Counted == changes < MaxChanges /\ changes' = changes + 1

-----------------------------------------------------------------------------
(* Launch                                                                  *)

\* A record under key k, in place of a recycled one.  Deferred edits for the
\* key stay.
Enter(k, c, bypass, grant) ==
  /\ k \notin active
  /\ active' = active \cup {k} /\ bin' = bin \ {k}
  /\ config' = [config EXCEPT ![k] = c]
  /\ authority' = [authority EXCEPT ![k] = [tools |-> Baked(c), bypass |-> bypass, grant |-> grant]]
  /\ UNCHANGED <<edits, turn>>

LaunchAgent(k, q) == Enter(k, Composed(q), q.bypass, q.grant) /\ Counted

\* resolveAgentCallerDefaultTools
DefaultTools(c) ==
  LET held == config[c].tools
  IN  IF Star \in held THEN Readonly
      ELSE IF held \cap Readonly # {} THEN held \cap Readonly ELSE held

\* The tools a child gets: those asked for, cut down to the creator's, without
\* lifecycle authority unless the creator has it.
ChildTools(c, q) ==
  LET asked   == IF q.defaults THEN DefaultTools(c) ELSE q.tools
      held    == config[c].tools
      clamped == IF Star \in held THEN asked
                 ELSE IF Star \in asked THEN held ELSE asked \cap held
  IN  IF IsSudoer(c) THEN clamped ELSE clamped \ {Star, Lifecycle}

\* spawn_agent: into the creator's Realm, and it hands over no privilege, bypass
\* or grant.  A creator with lifecycle authority would have to name the parent.
Child(c, q) ==
  [tools |-> ChildTools(c, q), privileged |-> FALSE,
   parent |-> IF IsSudoer(c) THEN NoId ELSE IdOf[c], snapshot |-> FALSE]

SpawnAgent(c, k, q) ==
  /\ RealmOf[k] = RealmOf[c]
  /\ Enter(k, Child(c, q), FALSE, NoScope)
  /\ Counted

-----------------------------------------------------------------------------
(* Kill, restore, purge                                                    *)

\* dropPendingAgentEdits, by bare id
Dropped(I) == [k \in Key |-> IF IdOf[k] \in I THEN NoEdit ELSE edits[k]]

KillAgent(c, r) ==
  \E k \in Denoted(c, r, active) :
    /\ MayMutate(c, r, k)
    /\ active' = active \ {k} /\ bin' = bin \cup {k}
    /\ authority' = [authority EXCEPT ![k] = NoAuthority]
    /\ turn' = [turn EXCEPT ![k] = "idle"]
    /\ edits' = Dropped({IdOf[k]})
    /\ Counted
    /\ UNCHANGED config

WouldRestoreAuthority(k) == ~config[k].snapshot /\ Sudo(Baked(config[k]) \cup config[k].tools)

RestoreAgent(c, r) ==
  \E k \in Denoted(c, r, bin) :
    /\ IF WouldRestoreAuthority(k) THEN IsSudoer(c) /\ InScope(c, k) ELSE MayMutate(c, r, k)
    /\ active' = active \cup {k} /\ bin' = bin \ {k}
    /\ authority' = [authority EXCEPT ![k] =
         [tools |-> IF config[k].snapshot THEN {} ELSE Baked(config[k]),
          bypass |-> FALSE, grant |-> NoScope]]
    /\ Counted
    /\ UNCHANGED <<config, edits, turn>>

\* A purge leaves the descriptor.
Erase_Fault(K, I) ==
  /\ active' = active \ K /\ bin' = bin \ K
  /\ config' = [k \in Key |-> IF k \in K THEN Blank ELSE config[k]]
  /\ turn' = [k \in Key |-> IF k \in K THEN "idle" ELSE turn[k]]
  /\ edits' = Dropped(I)
  /\ UNCHANGED authority

\* Records are erased, and the deferred edits of the ids in I are dropped.
Erase(K, I) ==
  /\ active' = active \ K /\ bin' = bin \ K
  /\ config' = [k \in Key |-> IF k \in K THEN Blank ELSE config[k]]
  /\ authority' = [k \in Key |-> IF k \in K THEN NoAuthority ELSE authority[k]]
  /\ turn' = [k \in Key |-> IF k \in K THEN "idle" ELSE turn[k]]
  /\ edits' = Dropped(I)

\* The event carries the reference of the call: a purge by key drops no edits.
PurgeAgent(r) ==
  \E k \in Key :
    /\ k \in Denoted(Operator, r, active) \/ Denoted(Operator, r, active) = {}
    /\ k \in Denoted(Operator, r, active) \cup Denoted(Operator, r, bin)
    /\ Erase({k}, {r})
    /\ Counted

EmptyRecycleBin == bin # {} /\ Erase(bin, {IdOf[k] : k \in bin}) /\ Counted

-----------------------------------------------------------------------------
(* Grants and configuration                                                *)

SetRealmBypass(k, on) ==
  /\ k \in active
  /\ authority' = [authority EXCEPT ![k].bypass = on]
  /\ Counted
  /\ UNCHANGED <<active, bin, config, edits, turn>>

\* grantAuthority, and with NoScope revokeAuthority
SetAuthority(k, scope) ==
  /\ k \in active
  /\ authority' = [authority EXCEPT ![k].grant = scope]
  /\ Counted
  /\ UNCHANGED <<active, bin, config, edits, turn>>

Edited(c, p) ==
  [c EXCEPT !.tools = IF "tools" \in p.fields THEN p.tools ELSE @,
            !.privileged = IF "privilege" \in p.fields THEN p.privileged ELSE @]

\* #applyConfigUpdate: the descriptor is derived again from all of the config.
ConfigUpdates(Applied, p) ==
  /\ config' = [k \in Key |-> IF k \in Applied THEN Edited(config[k], p[k]) ELSE config[k]]
  /\ authority' = [k \in Key |-> IF k \in Applied
                                 THEN [authority[k] EXCEPT !.tools = Baked(Edited(config[k], p[k]))]
                                 ELSE authority[k]]

UpdateAgentConfig(r, p) ==
  \E k \in Denoted(Operator, r, active) :
    /\ ConfigUpdates({k}, [m \in {k} |-> p])
    /\ Counted
    /\ UNCHANGED <<active, bin, edits, turn>>

-----------------------------------------------------------------------------
(* Edits of an agent by another                                            *)

\* #authorityScopeMatchesAgent
Covers(s, c, k) ==
  /\ IF s.realms # {} THEN RealmOf[k] \in s.realms ELSE RealmOf[k] = RealmOf[c]
  /\ IF s.targets # {} \/ s.ownSpawns \/ s.realmMembers
     THEN IdOf[k] \in s.targets \/ (s.ownSpawns /\ IsParent(c, k)) \/ s.realmMembers
     ELSE IsParent(c, k)

\* #resolveMetaAgentVerdict: the fields of k that c may edit.
EditFields(c, k) ==
  LET s == authority[c].grant
  IN  IF IsParent(c, k) /\ RealmOf[k] = RealmOf[c] THEN Field
      ELSE IF s # NoScope /\ Covers(s, c, k)
           THEN (IF s.fields # {} THEN s.fields ELSE Field)
           ELSE {}

\* #evaluateMetaAgentEditBound
EditBound(c, k, p) ==
  LET resulting == IF "privilege" \in p.fields /\ p.privileged THEN {Star}
                   ELSE IF "tools" \in p.fields THEN p.tools ELSE authority[k].tools
  IN  /\ p.fields \subseteq EditFields(c, k)
      /\ "tools" \in p.fields => Lifecycle \notin p.tools
      /\ Within(resulting, authority[c].tools)
      /\ authority[k].grant # NoScope => authority[c].grant # NoScope

UpdateAgent(c, i, p) ==
  \E k \in ByBareId(active, i) :
    /\ i # IdOf[c]
    /\ EditBound(c, k, p)
    /\ IF turn[k] = "idle"
       THEN ConfigUpdates({k}, [m \in {k} |-> p]) /\ UNCHANGED edits
       ELSE /\ edits' = [edits EXCEPT ![k] = [actor |-> c, patch |-> p]]
            /\ UNCHANGED <<config, authority>>
    /\ Counted
    /\ UNCHANGED <<active, bin, turn>>

TurnStarts(k) ==
  /\ k \in active /\ turn[k] = "idle"
  /\ turn' = [turn EXCEPT ![k] = "running"]
  /\ UNCHANGED <<active, bin, config, authority, edits, changes>>

\* flushPendingAgentEdits, by bare id, on turn_complete of k.  An edit is judged
\* again by the authority its actor has now; it waits on if its target is busy.
Deferred(k) == {m \in Key : edits[m] # NoEdit /\ IdOf[m] = IdOf[k]}
StillMay(m) == m \in active /\ edits[m].actor \in active
Waits(k, m) == m # k /\ turn[m] = "running" /\ StillMay(m) /\ EditFields(edits[m].actor, m) # {}

\* A deferred edit is applied as it was judged when it was made.
Applies_Fault(m) == StillMay(m)

Applies(m) == StillMay(m) /\ EditBound(edits[m].actor, m, edits[m].patch)

TurnCompletes(k) ==
  LET D == Deferred(k)
  IN  /\ k \in active /\ turn[k] = "running"
      /\ turn' = [turn EXCEPT ![k] = "settling"]
      /\ edits' = [m \in Key |-> IF m \in D /\ ~Waits(k, m) THEN NoEdit ELSE edits[m]]
      /\ ConfigUpdates({m \in D : ~Waits(k, m) /\ Applies(m)}, [m \in D |-> edits[m].patch])
      /\ UNCHANGED <<active, bin, changes>>

\* A turn that fails or is cancelled says no turn_complete.
TurnFails(k) ==
  /\ k \in active /\ turn[k] = "running"
  /\ turn' = [turn EXCEPT ![k] = "idle"]
  /\ UNCHANGED <<active, bin, config, authority, edits, changes>>

TurnSettles(k) ==
  /\ turn[k] = "settling"
  /\ turn' = [turn EXCEPT ![k] = "idle"]
  /\ UNCHANGED <<active, bin, config, authority, edits, changes>>

-----------------------------------------------------------------------------
(* Reload of the page                                                      *)

\* Agent.fromSnapshot strips what carries authority, and hydrateFromStorage heals
\* active agents: the saved tools, the privilege of the template's plan, and the
\* operator's grants by key.  Nothing is healed in the recycle bin.
Reloaded(k) ==
  IF k \in active \cup bin
  THEN [tools |-> IF k \in active THEN config[k].tools ELSE {},
        privileged |-> k \in active \cap Planned, parent |-> NoId, snapshot |-> TRUE]
  ELSE config[k]

Restart ==
  /\ config' = [k \in Key |-> Reloaded(k)]
  /\ authority' = [k \in Key |-> IF k \in active
                                 THEN [authority[k] EXCEPT !.tools = Baked(Reloaded(k))]
                                 ELSE NoAuthority]
  /\ edits' = [k \in Key |-> NoEdit]
  /\ turn' = [k \in Key |-> "idle"]
  /\ Counted
  /\ UNCHANGED <<active, bin>>

-----------------------------------------------------------------------------
\* What agent c may do by itself.
AgentStep(c) ==
  \/ \E k \in Key, q \in Request : SpawnAgent(c, k, q)
  \/ \E i \in BareId : KillAgent(c, i) \/ RestoreAgent(c, i)
  \/ \E i \in BareId, p \in Patch : UpdateAgent(c, i, p)

OperatorStep ==
  \/ \E k \in Key, q \in Request : LaunchAgent(k, q)
  \/ \E r \in Key \cup BareId : KillAgent(Operator, r) \/ RestoreAgent(Operator, r) \/ PurgeAgent(r)
  \/ EmptyRecycleBin
  \/ \E k \in Key, on \in BOOLEAN : SetRealmBypass(k, on)
  \/ \E k \in Key, s \in Scope \cup {NoScope} : SetAuthority(k, s)
  \/ \E r \in Key, p \in Patch : UpdateAgentConfig(r, p)

Next ==
  \/ \E c \in Agents : AgentStep(c)
  \/ OperatorStep
  \/ \E k \in Key : TurnStarts(k) \/ TurnCompletes(k) \/ TurnFails(k) \/ TurnSettles(k)
  \/ Restart

Spec == Init /\ [][Next]_vars
-----------------------------------------------------------------------------
(* Properties                                                              *)

TypeOK ==
  /\ active \subseteq Key /\ bin \subseteq Key
  /\ config \in [Key -> Config]
  /\ authority \in [Key -> Authority \cup {NoAuthority}]
  /\ edits \in [Key -> Edit \cup {NoEdit}]
  /\ turn \in [Key -> {"idle", "running", "settling"}]
  /\ changes \in 0..MaxChanges

Consistent(k) ==
  /\ authority[k] # NoAuthority <=> k \in active
  /\ turn[k] # "idle" => k \in active
  /\ k \notin active \cup bin => config[k] = Blank
  /\ k \in active => authority[k].tools = Baked(config[k])
                     \/ (config[k].snapshot /\ authority[k].tools = {})
  /\ edits[k] # NoEdit => IdOf[edits[k].actor] # IdOf[k]

\* An agent has a descriptor exactly while it is active, and the descriptor is
\* what its config says, or nothing for a record that came from a snapshot;
\* turns, records and deferred edits go with the agent they belong to, and
\* nobody edits itself, nor a namesake (killAgent, restoreAgent, purgeAgent,
\* #applyConfigUpdate, updateAgent).
LInv == TypeOK /\ active \cap bin = {} /\ \A k \in Key : Consistent(k)

\* What agent k can come to hold without anyone's leave: by restart, by restore.
Reach(k) == config[k].tools \cup (IF config[k].privileged THEN {Star} ELSE {})
Acts(c)  == c \in Agents /\ AgentStep(c)

\* In this step an edit by agent c may take effect on k: c makes it, or it was
\* deferred until now.
Edits(c, k) ==
  \/ c \in Agents /\ \E p \in Patch : UpdateAgent(c, IdOf[k], p)
  \/ edits[k] # NoEdit /\ edits[k].actor = c /\ \E m \in Key : TurnCompletes(m)

\* Two edits that the bound judges by something else than what the descriptor
\* becomes: the tools of an agent that stays privileged, whose descriptor is '*'
\* whatever they are; and an edit that leaves the tools of an agent that was
\* restored from a snapshot, judged by its empty descriptor and followed by a
\* descriptor of all its config (#applyConfigUpdate).
Misjudged(k) ==
  \/ config[k].privileged /\ config'[k].privileged
  \/ config[k].snapshot /\ authority[k].tools = {} /\ config'[k].tools = config[k].tools

\* Authority flows from the operator down.  Whatever an agent does, spawns, edits
\* or has deferred, nobody's reach grows beyond that of the agent itself, at the
\* moment it takes effect, and a reload gives nothing but the privilege of a
\* template.  The descriptor an edit leaves its target is a subset of the one its
\* editor holds then, as #evaluateMetaAgentEditBound says ("the resulting baked
\* set must be a subset of the editor's"), but for the edits that are Misjudged:
\* after these it is only within what the config of the target said before.  An
\* agent that enters the runtime by another's call has no bypass and no grant,
\* and lifecycle authority only from one that has it (resolveMetaAgentVerdict,
\* launchAgent, restoreAgent, hydrateFromStorage).
FlowsDown ==
  [][\A k \in Key :
       /\ ~Within(Reach(k)', Reach(k)) =>
            /\ \A c \in Key : Acts(c) => Within(Reach(k)', Reach(k) \cup Reach(c))
            /\ \A m \in Key : TurnCompletes(m) =>
                 /\ edits[k] # NoEdit
                 /\ Within(Reach(k)', Reach(k) \cup Reach(edits[k].actor))
            /\ Restart => k \in Planned
       /\ <<config[k], authority[k]>>' # <<config[k], authority[k]>> =>
            \A c \in Key : Edits(c, k) =>
              \/ Within(authority'[k].tools, authority[c].tools)
              \/ Misjudged(k) /\ Within(authority'[k].tools, Reach(k))
       /\ k \in active' \ active => \A c \in Key : Acts(c) =>
            /\ Sudo(authority'[k].tools) => IsSudoer(c)
            /\ ~authority'[k].bypass /\ authority'[k].grant = NoScope]_vars

Record(k)     == <<k \in active, k \in bin, config[k], authority[k]>>
Admitted(c,k) == \/ RealmOf[k] = RealmOf[c]
                 \/ authority[c].grant # NoScope /\ RealmOf[k] \in authority[c].grant.realms

\* An agent touches the records of its own Realm only, unless the operator gave
\* it the bypass, or a grant that names the other Realm: not by a bare id that
\* is found elsewhere, nor through a child of a namesake or a deferred edit
\* (#resolveMutationTarget, #assertRealmScope, #authorityScopeMatchesAgent).
RealmsSealed ==
  [][\A k \in Key : Record(k)' # Record(k) =>
       /\ \A c \in Key : Acts(c) => Bypasses(c) \/ Admitted(c, k)
       /\ \A m \in Key : TurnCompletes(m) => edits[k] # NoEdit /\ Admitted(edits[k].actor, k)]_vars
===============================================================================
