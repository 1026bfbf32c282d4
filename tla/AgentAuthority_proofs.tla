------------------------ MODULE AgentAuthority_proofs ------------------------
(***************************************************************************)
(* Proofs about AgentAuthority.  LInv is inductive: a call that changes the  *)
(* config of an active agent derives its descriptor from it at once, and     *)
(* what takes an agent away takes its descriptor and its turn.  From LInv    *)
(* what an agent may use (its descriptor) lies within its own reach (its     *)
(* config), so that a bound by the descriptor of the editor is a bound by    *)
(* the reach of the editor; and the descriptor an edit leaves is derived     *)
(* from the config it leaves, so that only a Misjudged edit takes it past    *)
(* the descriptor of the editor: FlowsDown.  RealmsSealed follows from the   *)
(* guards of the calls, whatever the state.                                  *)
(***************************************************************************)
EXTENDS AgentAuthority, TLAPS

-----------------------------------------------------------------------------
(* Operators                                                               *)

LEMMA ComposedType ==
  ASSUME NEW q \in Requests
  PROVE  Composed(q) \in Config
BY DEF Composed, Requests, Config

LEMMA BakedType ==
  ASSUME NEW c \in Config
  PROVE  Baked(c) \subseteq Tool
BY AuthorityAssumption DEF Baked, Config

LEMMA EditedType ==
  ASSUME NEW c \in Config, NEW p \in Patch
  PROVE  Edited(c, p) \in Config
<1> DEFINE T == IF "tools" \in p.fields THEN p.tools ELSE c.tools
           P == IF "privilege" \in p.fields THEN p.privileged ELSE c.privileged
<1>1. p.tools \in SUBSET Tool /\ p.privileged \in BOOLEAN
  BY AuthorityAssumption DEF Patches
<1>2. T \in SUBSET Tool /\ P \in BOOLEAN
  BY <1>1 DEF Config
<1>3. Edited(c, p) = [c EXCEPT !.tools = T, !.privileged = P]
  BY DEF Edited
<1> HIDE DEF T, P
<1> QED BY <1>2, <1>3 DEF Config

LEMMA BlankType == Blank \in Config
BY DEF Blank, Config

\* A bare id denotes an agent by key or by its id, in the set that is searched.
LEMMA DenotedIn ==
  ASSUME NEW c, NEW r, NEW S \in SUBSET Key
  PROVE  Denoted(c, r, S) \subseteq S
BY DEF Denoted, ByBareId

\* A child has no tools its creator has not, and lifecycle authority only from
\* a creator that has it.
LEMMA ChildBound ==
  ASSUME NEW c \in Key, NEW q \in Request, config[c] \in Config
  PROVE  /\ Child(c, q) \in Config
         /\ ~Child(c, q).privileged
         /\ Within(Child(c, q).tools, config[c].tools)
         /\ Sudo(Child(c, q).tools) => IsSudoer(c)
<1>1. q \in Requests /\ IdOf[c] \in BareId
  BY AuthorityAssumption, KeyAssumption
<1>2. config[c].tools \subseteq Tool /\ Readonly \subseteq Tool /\ q.tools \subseteq Tool
  BY <1>1, AuthorityAssumption DEF Config, Requests
<1>3. /\ DefaultTools(c) \subseteq Tool
      /\ Star \notin config[c].tools => DefaultTools(c) \subseteq config[c].tools
  BY <1>2 DEF DefaultTools
<1>4. ChildTools(c, q) \subseteq Tool /\ Within(ChildTools(c, q), config[c].tools)
  BY <1>2, <1>3 DEF ChildTools, Within
<1>5. ~IsSudoer(c) => ~Sudo(ChildTools(c, q))
  BY DEF ChildTools, Sudo
<1>6. /\ Child(c, q).tools = ChildTools(c, q) /\ ~Child(c, q).privileged
      /\ Child(c, q) \in Config
  BY <1>1, <1>4 DEF Child, Config
<1> QED BY <1>4, <1>5, <1>6

-----------------------------------------------------------------------------
(* The invariant                                                           *)

LEMMA InitInv == Init => LInv
<1> SUFFICES ASSUME Init PROVE LInv
  OBVIOUS
<1>1. \A k \in Key : Charter[k] \in Requests
  BY AuthorityAssumption
<1>2. \A k \in Key : Composed(Charter[k]) \in Config
  BY <1>1, ComposedType
<1>3. \A k \in Key : Baked(Composed(Charter[k])) \subseteq Tool
  BY <1>2, BakedType
<1>4. ASSUME NEW k \in Key
      PROVE  /\ Registered(Charter[k]) \in Authority
             /\ Registered(Charter[k]).tools = Baked(Composed(Charter[k]))
  BY <1>1, <1>3 DEF Registered, Authority, Requests
<1>5. TypeOK
  BY <1>2, <1>4, BlankType, KeyAssumption, AuthorityAssumption DEF Init, TypeOK
<1>6. \A k \in Key : authority[k] # NoAuthority <=> k \in active
  BY <1>4, AuthorityAssumption DEF Init
<1>7. \A k \in Key : k \in active => authority[k].tools = Baked(config[k])
  BY <1>4 DEF Init
<1> QED BY <1>5, <1>6, <1>7 DEF Init, LInv, Consistent

LEMMA EnterInv ==
  ASSUME LInv, NEW k \in Key, NEW c \in Config, NEW on \in BOOLEAN,
         NEW s \in Scope \cup {NoScope}, Enter(k, c, on, s), Counted
  PROVE  LInv'
<1> DEFINE d == [tools |-> Baked(c), bypass |-> on, grant |-> s]
<1>1. d \in Authority /\ d # NoAuthority
  BY BakedType, AuthorityAssumption DEF Authority
<1>2. changes' \in 0..MaxChanges
  BY AuthorityAssumption DEF Counted, LInv, TypeOK
<1>3. authority' = [authority EXCEPT ![k] = d] /\ config' = [config EXCEPT ![k] = c]
  BY DEF Enter
<1> HIDE DEF d
<1>4. TypeOK'
  BY <1>1, <1>2, <1>3 DEF Enter, LInv, TypeOK
<1>5. d.tools = Baked(c)
  BY DEF d
<1>6. ASSUME NEW j \in Key PROVE Consistent(j)'
  <2>1. CASE j = k
    BY <1>1, <1>3, <1>5, <2>1 DEF Enter, LInv, TypeOK, Consistent
  <2>2. CASE j # k
    BY <1>3, <2>2 DEF Enter, LInv, TypeOK, Consistent
  <2> QED BY <2>1, <2>2
<1> QED BY <1>4, <1>6 DEF Enter, LInv

LEMMA KillAgentInv ==
  ASSUME LInv, NEW c, NEW r, KillAgent(c, r)
  PROVE  LInv'
<1>1. PICK k \in Key :
        /\ k \in active
        /\ active' = active \ {k} /\ bin' = bin \cup {k}
        /\ authority' = [authority EXCEPT ![k] = NoAuthority]
        /\ turn' = [turn EXCEPT ![k] = "idle"]
        /\ edits' = Dropped({IdOf[k]})
        /\ Counted
        /\ UNCHANGED config
  <2>1. active \in SUBSET Key
    BY DEF LInv, TypeOK
  <2>2. Denoted(c, r, active) \subseteq active
    BY <2>1, DenotedIn
  <2> QED BY <2>1, <2>2 DEF KillAgent
<1>2. TypeOK'
  BY <1>1, AuthorityAssumption DEF LInv, TypeOK, Dropped, Counted
<1>3. \A j \in Key : edits'[j] = NoEdit \/ edits'[j] = edits[j]
  BY <1>1 DEF Dropped
<1>4. ASSUME NEW j \in Key PROVE Consistent(j)'
  <2>1. CASE j = k
    BY <1>1, <1>3, <2>1 DEF LInv, TypeOK, Consistent
  <2>2. CASE j # k
    BY <1>1, <1>3, <2>2 DEF LInv, TypeOK, Consistent
  <2> QED BY <2>1, <2>2
<1> QED BY <1>1, <1>2, <1>4 DEF LInv

LEMMA RestoreAgentInv ==
  ASSUME LInv, NEW c, NEW r, RestoreAgent(c, r)
  PROVE  LInv'
<1> DEFINE D(k) == [tools |-> IF config[k].snapshot THEN {} ELSE Baked(config[k]),
                    bypass |-> FALSE, grant |-> NoScope]
<1>1. PICK k \in Key :
        /\ k \in bin
        /\ active' = active \cup {k} /\ bin' = bin \ {k}
        /\ authority' = [authority EXCEPT ![k] = D(k)]
        /\ Counted
        /\ UNCHANGED <<config, edits, turn>>
  <2>1. bin \in SUBSET Key
    BY DEF LInv, TypeOK
  <2>2. Denoted(c, r, bin) \subseteq bin
    BY <2>1, DenotedIn
  <2> QED BY <2>1, <2>2 DEF RestoreAgent
<1>2. D(k) \in Authority /\ D(k) # NoAuthority
      /\ D(k).tools = IF config[k].snapshot THEN {} ELSE Baked(config[k])
  <2>1. Baked(config[k]) \subseteq Tool
    BY BakedType DEF LInv, TypeOK
  <2>2. D(k) \in Authority
    BY <2>1 DEF Authority
  <2> QED BY <2>2, AuthorityAssumption
<1> HIDE DEF D
<1>3. TypeOK'
  BY <1>1, <1>2, AuthorityAssumption DEF LInv, TypeOK, Counted
<1>4. ASSUME NEW j \in Key PROVE Consistent(j)'
  <2>1. CASE j = k
    BY <1>1, <1>2, <2>1 DEF LInv, TypeOK, Consistent
  <2>2. CASE j # k
    BY <1>1, <2>2 DEF LInv, TypeOK, Consistent
  <2> QED BY <2>1, <2>2
<1> QED BY <1>1, <1>3, <1>4 DEF LInv

LEMMA EraseInv ==
  ASSUME LInv, NEW K \in SUBSET Key, NEW I, Erase(K, I), Counted
  PROVE  LInv'
<1>1. TypeOK'
  BY BlankType, AuthorityAssumption DEF Erase, LInv, TypeOK, Dropped, Counted
<1>2. \A j \in Key : edits'[j] = NoEdit \/ edits'[j] = edits[j]
  BY DEF Erase, Dropped
<1>3. ASSUME NEW j \in Key PROVE Consistent(j)'
  <2>1. CASE j \in K
    BY <1>2, <2>1 DEF Erase, LInv, TypeOK, Consistent
  <2>2. CASE j \notin K
    BY <1>2, <2>2 DEF Erase, LInv, TypeOK, Consistent
  <2> QED BY <2>1, <2>2
<1> QED BY <1>1, <1>3 DEF Erase, LInv

LEMMA PurgeInv ==
  ASSUME LInv, (\E r \in Key \cup BareId : PurgeAgent(r)) \/ EmptyRecycleBin
  PROVE  LInv'
<1>1. ASSUME NEW r, PurgeAgent(r) PROVE LInv'
  BY <1>1, EraseInv DEF PurgeAgent
<1>2. ASSUME EmptyRecycleBin PROVE LInv'
  BY <1>2, EraseInv DEF EmptyRecycleBin, LInv, TypeOK
<1> QED BY <1>1, <1>2

\* Bypass and grant are apart from the tools of a descriptor.
LEMMA GrantInv ==
  ASSUME LInv, NEW k \in Key, NEW on \in BOOLEAN, NEW s \in Scope \cup {NoScope},
         SetRealmBypass(k, on) \/ SetAuthority(k, s)
  PROVE  LInv'
<1>1. k \in active /\ authority[k] \in Authority /\ authority[k] # NoAuthority
  BY DEF LInv, TypeOK, Consistent, SetRealmBypass, SetAuthority
<1>2. PICK d \in Authority : authority' = [authority EXCEPT ![k] = d] /\ d.tools = authority[k].tools
  <2>1. CASE SetRealmBypass(k, on)
    <3>1. [authority[k] EXCEPT !.bypass = on] \in Authority
      BY <1>1 DEF Authority
    <3>2. [authority[k] EXCEPT !.bypass = on].tools = authority[k].tools
      BY <1>1 DEF Authority
    <3> QED BY <2>1, <3>1, <3>2 DEF SetRealmBypass
  <2>2. CASE SetAuthority(k, s)
    <3>1. [authority[k] EXCEPT !.grant = s] \in Authority
      BY <1>1 DEF Authority
    <3>2. [authority[k] EXCEPT !.grant = s].tools = authority[k].tools
      BY <1>1 DEF Authority
    <3> QED BY <2>2, <3>1, <3>2 DEF SetAuthority
  <2> QED BY <2>1, <2>2
<1>3. d # NoAuthority
  BY <1>2, AuthorityAssumption
<1>4. Counted /\ UNCHANGED <<active, bin, config, edits, turn>>
  BY DEF SetRealmBypass, SetAuthority
<1>5. TypeOK'
  BY <1>2, <1>4, AuthorityAssumption DEF LInv, TypeOK, Counted
<1>6. ASSUME NEW j \in Key PROVE Consistent(j)'
  <2>1. CASE j = k
    BY <1>1, <1>2, <1>3, <1>4, <2>1 DEF LInv, TypeOK, Consistent
  <2>2. CASE j # k
    BY <1>2, <1>4, <2>2 DEF LInv, TypeOK, Consistent
  <2> QED BY <2>1, <2>2
<1> QED BY <1>4, <1>5, <1>6 DEF LInv

\* An edited agent gets its descriptor from its new config.
LEMMA ConfigUpdatesEffect ==
  ASSUME LInv, NEW S \in SUBSET active, NEW p, \A k \in S : p[k] \in Patch,
         ConfigUpdates(S, p)
  PROVE  /\ config' \in [Key -> Config]
         /\ authority' \in [Key -> Authority \cup {NoAuthority}]
         /\ \A k \in S : /\ config'[k] = Edited(config[k], p[k])
                        /\ authority'[k] # NoAuthority
                        /\ authority'[k].tools = Baked(config'[k])
         /\ \A k \in Key \ S : config'[k] = config[k] /\ authority'[k] = authority[k]
<1>1. S \subseteq Key
  BY DEF LInv, TypeOK
<1>2. config' \in [Key -> Config]
      /\ \A k \in S : config'[k] = Edited(config[k], p[k])
  BY <1>1, EditedType DEF ConfigUpdates, LInv, TypeOK
<1>3. ASSUME NEW k \in S
      PROVE  /\ authority'[k] \in Authority
             /\ authority'[k].tools = Baked(config'[k])
  <2>1. authority[k] \in Authority
    BY <1>1 DEF LInv, TypeOK, Consistent
  <2>2. authority'[k] = [authority[k] EXCEPT !.tools = Baked(config'[k])]
    BY <1>1, <1>2 DEF ConfigUpdates
  <2>3. Baked(config'[k]) \subseteq Tool
    BY <1>1, <1>2, BakedType
  <2> QED BY <2>1, <2>2, <2>3 DEF Authority
<1>4. \A k \in Key \ S : config'[k] = config[k] /\ authority'[k] = authority[k]
  BY DEF ConfigUpdates
<1>5. authority' \in [Key -> Authority \cup {NoAuthority}]
  <2> DEFINE F(k) == IF k \in S THEN [authority[k] EXCEPT !.tools = Baked(Edited(config[k], p[k]))]
                     ELSE authority[k]
  <2>1. authority' = [k \in Key |-> F(k)]
    BY DEF ConfigUpdates
  <2> HIDE DEF F
  <2>2. \A k \in Key : authority'[k] = F(k)
    BY <2>1
  <2>3. \A k \in Key : authority'[k] \in Authority \cup {NoAuthority}
    BY <1>1, <1>3, <1>4 DEF LInv, TypeOK
  <2> QED BY <2>1, <2>2, <2>3
<1> QED BY <1>1, <1>2, <1>3, <1>4, <1>5, AuthorityAssumption

LEMMA ConfigUpdatesInv ==
  ASSUME LInv, NEW S \in SUBSET active, NEW p, \A k \in S : p[k] \in Patch,
         ConfigUpdates(S, p), UNCHANGED <<active, bin>>,
         edits' \in [Key -> Edit \cup {NoEdit}],
         \A j \in Key : \/ edits'[j] = NoEdit
                       \/ edits'[j] = edits[j]
                       \/ IdOf[edits'[j].actor] # IdOf[j],
         turn' \in [Key -> {"idle", "running", "settling"}],
         \A j \in Key : turn'[j] # "idle" => j \in active,
         changes' \in 0..MaxChanges
  PROVE  LInv'
<1>1. TypeOK'
  BY ConfigUpdatesEffect DEF LInv, TypeOK
<1>2. ASSUME NEW j \in Key PROVE Consistent(j)'
  <2>1. CASE j \in S
    BY <2>1, ConfigUpdatesEffect DEF LInv, Consistent
  <2>2. CASE j \notin S
    BY <2>2, ConfigUpdatesEffect DEF LInv, Consistent
  <2> QED BY <2>1, <2>2
<1> QED BY <1>1, <1>2 DEF LInv

LEMMA UpdateAgentConfigInv ==
  ASSUME LInv, NEW r, NEW p \in Patch, UpdateAgentConfig(r, p)
  PROVE  LInv'
<1>1. Denoted(Operator, r, active) \subseteq active
  <2>1. active \in SUBSET Key
    BY DEF LInv, TypeOK
  <2> QED BY <2>1, DenotedIn
<1>2. PICK k \in active : /\ ConfigUpdates({k}, [m \in {k} |-> p])
                          /\ Counted
                          /\ UNCHANGED <<active, bin, edits, turn>>
  BY <1>1 DEF UpdateAgentConfig
<1> DEFINE P == [m \in {k} |-> p]
<1>3. {k} \in SUBSET active /\ \A m \in {k} : P[m] \in Patch
  BY <1>2
<1>4. /\ edits' = edits /\ turn' = turn /\ changes' \in 0..MaxChanges
      /\ edits \in [Key -> Edit \cup {NoEdit}] /\ turn \in [Key -> {"idle", "running", "settling"}]
      /\ \A j \in Key : turn[j] # "idle" => j \in active
  BY <1>2, AuthorityAssumption DEF Counted, LInv, TypeOK, Consistent
<1>5. ConfigUpdates({k}, P) /\ UNCHANGED <<active, bin>>
  BY <1>2
<1> HIDE DEF P
<1> QED BY <1>3, <1>4, <1>5, ConfigUpdatesInv

\* What a call of updateAgent comes to: it is judged, and then applied at once
\* or deferred.
LEMMA UpdateAgentEffect ==
  ASSUME LInv, NEW c \in Agents, NEW i \in BareId, NEW p \in Patch, UpdateAgent(c, i, p)
  PROVE  \E k \in active :
           /\ IdOf[k] # IdOf[c] /\ EditBound(c, k, p)
           /\ \/ /\ ConfigUpdates({k}, [m \in {k} |-> p])
                 /\ UNCHANGED edits
              \/ /\ edits' = [edits EXCEPT ![k] = [actor |-> c, patch |-> p]]
                 /\ UNCHANGED <<config, authority>>
           /\ Counted
           /\ UNCHANGED <<active, bin, turn>>
<1>1. \A k \in ByBareId(active, i) : k \in active /\ IdOf[k] = i
  BY DEF ByBareId
<1> QED BY <1>1 DEF UpdateAgent

LEMMA UpdateAgentInv ==
  ASSUME LInv, NEW c \in Agents, NEW i \in BareId, NEW p \in Patch, UpdateAgent(c, i, p)
  PROVE  LInv'
<1>1. PICK k \in active :
           /\ IdOf[k] # IdOf[c] /\ EditBound(c, k, p)
           /\ \/ /\ ConfigUpdates({k}, [m \in {k} |-> p])
                 /\ UNCHANGED edits
              \/ /\ edits' = [edits EXCEPT ![k] = [actor |-> c, patch |-> p]]
                 /\ UNCHANGED <<config, authority>>
           /\ Counted
           /\ UNCHANGED <<active, bin, turn>>
  BY UpdateAgentEffect
<1>2. /\ c \in Key /\ k \in Key /\ changes' \in 0..MaxChanges
      /\ edits \in [Key -> Edit \cup {NoEdit}] /\ turn \in [Key -> {"idle", "running", "settling"}]
      /\ \A j \in Key : turn[j] # "idle" => j \in active
  BY <1>1, AuthorityAssumption DEF Counted, LInv, TypeOK, Consistent, Agents
<1>3. CASE ConfigUpdates({k}, [m \in {k} |-> p]) /\ UNCHANGED edits
  <2> DEFINE P == [m \in {k} |-> p]
  <2>1. {k} \in SUBSET active /\ \A m \in {k} : P[m] \in Patch
    BY <1>1
  <2>2. ConfigUpdates({k}, P) /\ UNCHANGED <<active, bin>> /\ edits' = edits /\ turn' = turn
    BY <1>1, <1>3
  <2> HIDE DEF P
  <2> QED BY <1>2, <2>1, <2>2, ConfigUpdatesInv
<1>4. CASE /\ edits' = [edits EXCEPT ![k] = [actor |-> c, patch |-> p]]
           /\ UNCHANGED <<config, authority>>
  <2> DEFINE e == [actor |-> c, patch |-> p]
  <2>1. e \in Edit /\ e.actor = c
    BY <1>2, AuthorityAssumption DEF Edit
  <2>2. edits' = [edits EXCEPT ![k] = e]
    BY <1>4
  <2> HIDE DEF e
  <2>3. TypeOK'
    BY <1>1, <1>2, <1>4, <2>1, <2>2 DEF LInv, TypeOK
  <2>4. ASSUME NEW j \in Key PROVE Consistent(j)'
    BY <1>1, <1>2, <1>4, <2>1, <2>2 DEF LInv, TypeOK, Consistent
  <2> QED BY <1>1, <2>3, <2>4 DEF LInv
<1> QED BY <1>1, <1>3, <1>4

LEMMA TurnInv ==
  ASSUME LInv, NEW k \in Key, TurnStarts(k) \/ TurnFails(k) \/ TurnSettles(k)
  PROVE  LInv'
<1>1. /\ k \in active
      /\ UNCHANGED <<active, bin, config, authority, edits, changes>>
  BY DEF TurnStarts, TurnFails, TurnSettles, LInv, Consistent
<1>2. turn' = [turn EXCEPT ![k] = "running"] \/ turn' = [turn EXCEPT ![k] = "idle"]
  BY DEF TurnStarts, TurnFails, TurnSettles
<1> QED BY <1>1, <1>2 DEF LInv, TypeOK, Consistent

LEMMA TurnCompletesInv ==
  ASSUME LInv, NEW k \in Key, TurnCompletes(k)
  PROVE  LInv'
<1> DEFINE S == {m \in Deferred(k) : ~Waits(k, m) /\ Applies(m)}
           P == [m \in Deferred(k) |-> edits[m].patch]
<1>1. S \in SUBSET active /\ \A m \in S : P[m] \in Patch
  <2>1. \A m \in Deferred(k) : edits[m] \in Edit
    BY DEF Deferred, LInv, TypeOK
  <2> QED BY <2>1 DEF Applies, StillMay, Edit
<1>2. ConfigUpdates(S, P) /\ UNCHANGED <<active, bin, changes>>
  BY DEF TurnCompletes
<1> HIDE DEF S, P
<1>3. /\ turn' \in [Key -> {"idle", "running", "settling"}]
      /\ \A j \in Key : turn'[j] # "idle" => j \in active
  BY DEF TurnCompletes, LInv, TypeOK, Consistent
<1>4. /\ edits' \in [Key -> Edit \cup {NoEdit}]
      /\ \A j \in Key : edits'[j] = NoEdit \/ edits'[j] = edits[j]
  BY DEF TurnCompletes, LInv, TypeOK
<1>5. changes' \in 0..MaxChanges
  BY <1>2 DEF LInv, TypeOK
<1> QED BY <1>1, <1>2, <1>3, <1>4, <1>5, ConfigUpdatesInv

LEMMA RestartInv ==
  ASSUME LInv, Restart
  PROVE  LInv'
<1>1. ASSUME NEW k \in Key PROVE Reloaded(k) \in Config
  <2> DEFINE T == IF k \in active THEN config[k].tools ELSE {}
             r == [tools |-> T, privileged |-> k \in active \cap Planned,
                   parent |-> NoId, snapshot |-> TRUE]
  <2>1. config[k] \in Config /\ config[k].tools \subseteq Tool
    BY DEF LInv, TypeOK, Config
  <2>2. T \in SUBSET Tool /\ (k \in active \cap Planned) \in BOOLEAN
    BY <2>1
  <2>3. r \in Config
    <3> HIDE DEF T
    <3> QED BY <2>2 DEF Config
  <2>4. Reloaded(k) = IF k \in active \cup bin THEN r ELSE config[k]
    BY DEF Reloaded
  <2> HIDE DEF r
  <2> QED BY <2>1, <2>3, <2>4
<1>2. config' \in [Key -> Config] /\ \A k \in Key : config'[k] = Reloaded(k)
  BY <1>1 DEF Restart
<1>3. ASSUME NEW k \in active
      PROVE  k \in Key /\ authority'[k] \in Authority /\ authority'[k].tools = Baked(config'[k])
  <2>1. k \in Key /\ authority[k] \in Authority
    BY DEF LInv, TypeOK, Consistent
  <2>2. authority'[k] = [authority[k] EXCEPT !.tools = Baked(Reloaded(k))]
    BY <2>1 DEF Restart
  <2>3. Baked(Reloaded(k)) \subseteq Tool
    BY <1>1, <2>1, BakedType
  <2> QED BY <1>2, <2>1, <2>2, <2>3 DEF Authority
<1>4. \A k \in Key \ active : authority'[k] = NoAuthority
  BY DEF Restart
<1>5. authority' \in [Key -> Authority \cup {NoAuthority}]
  <2> DEFINE F(k) == IF k \in active THEN [authority[k] EXCEPT !.tools = Baked(Reloaded(k))]
                     ELSE NoAuthority
  <2>1. authority' = [k \in Key |-> F(k)]
    BY DEF Restart
  <2> HIDE DEF F
  <2>2. \A k \in Key : authority'[k] = F(k) /\ authority'[k] \in Authority \cup {NoAuthority}
    BY <1>3, <1>4, <2>1
  <2> QED BY <2>1, <2>2
<1>6. TypeOK'
  BY <1>2, <1>5, AuthorityAssumption DEF Restart, Counted, LInv, TypeOK
<1>7. ASSUME NEW j \in Key PROVE Consistent(j)'
  <2>1. j \notin active \cup bin => config'[j] = config[j]
    BY <1>2 DEF Reloaded
  <2>2. authority'[j] # NoAuthority <=> j \in active
    BY <1>3, <1>4, AuthorityAssumption
  <2>3. turn'[j] = "idle" /\ edits'[j] = NoEdit /\ UNCHANGED <<active, bin>>
    BY DEF Restart
  <2> QED BY <1>3, <2>1, <2>2, <2>3 DEF LInv, Consistent
<1> QED BY <1>6, <1>7 DEF Restart, LInv

\* The calls of agents, and all steps.
LEMMA AgentStepInv ==
  ASSUME LInv, NEW c \in Agents, AgentStep(c)
  PROVE  LInv'
<1>1. c \in Key /\ config[c] \in Config
  BY DEF Agents, LInv, TypeOK
<1>2. ASSUME NEW k \in Key, NEW q \in Request, SpawnAgent(c, k, q) PROVE LInv'
  BY <1>1, <1>2, ChildBound, EnterInv DEF SpawnAgent
<1>3. ASSUME NEW i \in BareId, KillAgent(c, i) \/ RestoreAgent(c, i) PROVE LInv'
  BY <1>3, KillAgentInv, RestoreAgentInv
<1>4. ASSUME NEW i \in BareId, NEW p \in Patch, UpdateAgent(c, i, p) PROVE LInv'
  BY <1>4, UpdateAgentInv
<1> QED BY <1>2, <1>3, <1>4 DEF AgentStep

LEMMA OperatorStepInv ==
  ASSUME LInv, OperatorStep
  PROVE  LInv'
<1>1. ASSUME NEW k \in Key, NEW q \in Request, LaunchAgent(k, q) PROVE LInv'
  <2>1. q \in Requests
    BY AuthorityAssumption
  <2>2. Composed(q) \in Config /\ q.bypass \in BOOLEAN /\ q.grant \in Scope \cup {NoScope}
    BY <2>1, ComposedType DEF Requests
  <2> QED BY <1>1, <2>2, EnterInv DEF LaunchAgent
<1>2. ASSUME NEW r \in Key \cup BareId,
             KillAgent(Operator, r) \/ RestoreAgent(Operator, r) \/ PurgeAgent(r)
      PROVE  LInv'
  BY <1>2, KillAgentInv, RestoreAgentInv, PurgeInv
<1>3. CASE EmptyRecycleBin
  BY <1>3, PurgeInv
<1>4. ASSUME NEW k \in Key, NEW on \in BOOLEAN, SetRealmBypass(k, on) PROVE LInv'
  BY <1>4, GrantInv
<1>5. ASSUME NEW k \in Key, NEW s \in Scope \cup {NoScope}, SetAuthority(k, s) PROVE LInv'
  BY <1>5, GrantInv
<1>6. ASSUME NEW r \in Key, NEW p \in Patch, UpdateAgentConfig(r, p) PROVE LInv'
  BY <1>6, UpdateAgentConfigInv
<1> QED BY <1>1, <1>2, <1>3, <1>4, <1>5, <1>6 DEF OperatorStep

LEMMA StepInv == LInv /\ [Next]_vars => LInv'
<1> SUFFICES ASSUME LInv, [Next]_vars PROVE LInv'
  OBVIOUS
<1>1. CASE UNCHANGED vars
  BY <1>1 DEF vars, LInv, TypeOK, Consistent
<1>2. ASSUME NEW c \in Agents, AgentStep(c) PROVE LInv'
  BY <1>2, AgentStepInv
<1>3. CASE OperatorStep
  BY <1>3, OperatorStepInv
<1>4. ASSUME NEW k \in Key, TurnStarts(k) \/ TurnCompletes(k) \/ TurnFails(k) \/ TurnSettles(k)
      PROVE  LInv'
  BY <1>4, TurnInv, TurnCompletesInv
<1>5. CASE Restart
  BY <1>5, RestartInv
<1> QED BY <1>1, <1>2, <1>3, <1>4, <1>5 DEF Next

\* Descriptors, records, turns and deferred edits agree through any calls,
\* turns and reloads, for any agents, Realms and tools.
THEOREM AuthorityInvariance == Spec => []LInv
<1>1. Init => LInv
  BY InitInv
<1>2. LInv /\ [Next]_vars => LInv'
  BY StepInv
<1> QED BY <1>1, <1>2, PTL DEF Spec

-----------------------------------------------------------------------------
(* Authority flows down                                                    *)

LEMMA DescriptorWithinReach ==
  ASSUME LInv, NEW c \in active
  PROVE  authority[c].tools \subseteq Reach(c)
BY DEF LInv, TypeOK, Consistent, Baked, Reach

\* An edit that is let through gives its target nothing beyond what the editor
\* can reach.
LEMMA EditWithinReach ==
  ASSUME LInv, NEW c \in active, NEW k \in active, NEW p \in Patch, EditBound(c, k, p),
         config'[k] = Edited(config[k], p)
  PROVE  Within(Reach(k)', Reach(k) \cup Reach(c))
<1>1. k \in Key /\ config[k] \in Config
  BY DEF LInv, TypeOK
<1>2. authority[c].tools \subseteq Reach(c)
  BY DescriptorWithinReach
<1>3. /\ config'[k].tools = IF "tools" \in p.fields THEN p.tools ELSE config[k].tools
      /\ config'[k].privileged = IF "privilege" \in p.fields THEN p.privileged
                                 ELSE config[k].privileged
  BY <1>1 DEF Edited, Config
<1>4. CASE "privilege" \in p.fields /\ p.privileged
  <2>1. Star \in authority[c].tools
    BY <1>4 DEF EditBound, Within
  <2> QED BY <1>2, <2>1 DEF Within
<1>5. CASE ~("privilege" \in p.fields /\ p.privileged)
  <2>1. config'[k].privileged => config[k].privileged
    BY <1>3, <1>5
  <2>2. "tools" \in p.fields => Within(p.tools, authority[c].tools)
    BY <1>5 DEF EditBound
  <2>3. Within(config'[k].tools, config[k].tools \cup Reach(c))
    BY <1>2, <1>3, <2>2 DEF Within
  <2> QED BY <2>1, <2>3 DEF Within, Reach
<1> QED BY <1>4, <1>5

\* The descriptor derived from an edit that is let through lies within the one
\* of its editor, or the edit is one of those the bound misjudges.
LEMMA EditWithinBound ==
  ASSUME LInv, NEW c \in active, NEW k \in active, NEW p \in Patch, EditBound(c, k, p),
         config'[k] = Edited(config[k], p), authority'[k].tools = Baked(config'[k])
  PROVE  \/ Within(authority'[k].tools, authority[c].tools)
         \/ Misjudged(k) /\ Within(authority'[k].tools, Reach(k))
<1>1. k \in Key /\ config[k] \in Config
  BY DEF LInv, TypeOK
<1>2. /\ config'[k].tools = IF "tools" \in p.fields THEN p.tools ELSE config[k].tools
      /\ config'[k].privileged = IF "privilege" \in p.fields THEN p.privileged
                                 ELSE config[k].privileged
  BY <1>1 DEF Edited, Config
<1>3. CASE "privilege" \in p.fields /\ p.privileged
  BY <1>3 DEF EditBound, Within
<1>4. CASE ~("privilege" \in p.fields /\ p.privileged) /\ config'[k].privileged
  <2>1. config[k].privileged
    BY <1>2, <1>4
  <2> QED BY <1>4, <2>1 DEF Misjudged, Reach, Within
<1>5. CASE ~("privilege" \in p.fields /\ p.privileged) /\ ~config'[k].privileged
  <2>1. authority'[k].tools = config'[k].tools
    BY <1>5 DEF Baked
  <2>2. CASE "tools" \in p.fields
    BY <1>2, <1>5, <2>1, <2>2 DEF EditBound
  <2>3. CASE "tools" \notin p.fields
    <3>1. Within(authority[k].tools, authority[c].tools)
      BY <1>5, <2>3 DEF EditBound
    <3>2. config'[k].tools = config[k].tools
      BY <1>2, <2>3
    <3>3. CASE authority[k].tools = Baked(config[k])
      BY <2>1, <3>1, <3>2, <3>3 DEF Baked, Within
    <3>4. CASE config[k].snapshot /\ authority[k].tools = {}
      BY <2>1, <3>2, <3>4 DEF Misjudged, Reach, Within
    <3> QED BY <1>1, <3>3, <3>4 DEF LInv, Consistent
  <2> QED BY <2>2, <2>3
<1> QED BY <1>3, <1>4, <1>5

LEMMA AgentFlowsDown ==
  ASSUME LInv, NEW c \in Agents, AgentStep(c), NEW k \in Key
  PROVE  /\ Within(Reach(k)', Reach(k) \cup Reach(c))
         /\ k \in active' \ active => /\ Sudo(authority'[k].tools) => IsSudoer(c)
                                      /\ ~authority'[k].bypass /\ authority'[k].grant = NoScope
<1>1. c \in Key /\ c \in active /\ config[c] \in Config
  BY DEF Agents, LInv, TypeOK
<1>2. config'[k] = config[k] => Within(Reach(k)', Reach(k) \cup Reach(c))
  BY DEF Reach, Within
<1>3. ASSUME NEW j \in Key, NEW q \in Request, SpawnAgent(c, j, q)
      PROVE  /\ Within(Reach(k)', Reach(k) \cup Reach(c))
             /\ k \in active' \ active => /\ Sudo(authority'[k].tools) => IsSudoer(c)
                                          /\ ~authority'[k].bypass
                                          /\ authority'[k].grant = NoScope
  <2> DEFINE x == Child(c, q)
             d == [tools |-> Baked(x), bypass |-> FALSE, grant |-> NoScope]
  <2>1. /\ ~x.privileged /\ Within(x.tools, config[c].tools)
        /\ Sudo(x.tools) => IsSudoer(c)
    BY <1>1, ChildBound
  <2>2. Baked(x) = x.tools
    BY <2>1 DEF Baked
  <2>3. ~d.bypass /\ d.grant = NoScope /\ d.tools = x.tools
    BY <2>2
  <2>4. /\ config' = [config EXCEPT ![j] = x] /\ authority' = [authority EXCEPT ![j] = d]
        /\ active' = active \cup {j}
    BY <1>3 DEF SpawnAgent, Enter
  <2>5. config \in [Key -> Config] /\ authority \in [Key -> Authority \cup {NoAuthority}]
    BY DEF LInv, TypeOK
  <2> HIDE DEF x, d
  <2>6. CASE k = j
    <3>1. config'[k] = x /\ authority'[k] = d
      BY <2>4, <2>5, <2>6
    <3>2. Reach(k)' = x.tools
      BY <2>1, <3>1 DEF Reach
    <3>3. config[c].tools \subseteq Reach(c)
      BY DEF Reach
    <3> QED BY <2>1, <2>3, <3>1, <3>2, <3>3 DEF Within
  <2>7. CASE k # j
    BY <1>2, <2>4, <2>5, <2>7
  <2> QED BY <2>6, <2>7
<1>4. ASSUME NEW i \in BareId, KillAgent(c, i)
      PROVE  config'[k] = config[k] /\ k \notin active' \ active
  BY <1>4 DEF KillAgent
<1>5. ASSUME NEW i \in BareId, RestoreAgent(c, i)
      PROVE  /\ config'[k] = config[k]
             /\ k \in active' \ active => /\ Sudo(authority'[k].tools) => IsSudoer(c)
                                          /\ ~authority'[k].bypass
                                          /\ authority'[k].grant = NoScope
  <2> DEFINE D(j) == [tools |-> IF config[j].snapshot THEN {} ELSE Baked(config[j]),
                      bypass |-> FALSE, grant |-> NoScope]
  <2>1. bin \in SUBSET Key
    BY DEF LInv, TypeOK
  <2>2. Denoted(c, i, bin) \subseteq bin
    BY <2>1, DenotedIn
  <2>3. PICK j \in Key : /\ WouldRestoreAuthority(j) => IsSudoer(c)
                         /\ active' = active \cup {j}
                         /\ authority' = [authority EXCEPT ![j] = D(j)]
                         /\ UNCHANGED config
    BY <1>5, <2>1, <2>2 DEF RestoreAgent
  <2>4. ~D(j).bypass /\ D(j).grant = NoScope
        /\ D(j).tools = IF config[j].snapshot THEN {} ELSE Baked(config[j])
    OBVIOUS
  <2>5. Sudo(D(j).tools) => WouldRestoreAuthority(j)
    BY <2>4 DEF Sudo, WouldRestoreAuthority
  <2> HIDE DEF D
  <2> QED BY <2>3, <2>4, <2>5 DEF LInv, TypeOK
<1>6. ASSUME NEW i \in BareId, NEW p \in Patch, UpdateAgent(c, i, p)
      PROVE  Within(Reach(k)', Reach(k) \cup Reach(c)) /\ k \notin active' \ active
  <2>1. PICK j \in active :
           /\ EditBound(c, j, p)
           /\ ConfigUpdates({j}, [m \in {j} |-> p]) \/ UNCHANGED config
           /\ UNCHANGED active
    BY <1>6, UpdateAgentEffect
  <2>2. j \in Key
    BY DEF LInv, TypeOK
  <2>3. CASE ConfigUpdates({j}, [m \in {j} |-> p])
    <3>1. config'[j] = Edited(config[j], p)
          /\ \A m \in Key \ {j} : config'[m] = config[m]
      BY <2>2, <2>3 DEF ConfigUpdates
    <3> QED BY <1>1, <1>2, <2>1, <3>1, EditWithinReach
  <2>4. CASE UNCHANGED config
    BY <1>2, <2>1, <2>4
  <2> QED BY <2>1, <2>3, <2>4
<1> QED BY <1>2, <1>3, <1>4, <1>5, <1>6 DEF AgentStep

\* What a completed turn does to the config of an agent is an edit that was
\* deferred for it, judged again.
LEMMA FlushEffect ==
  ASSUME LInv, NEW m \in Key, TurnCompletes(m), NEW k \in Key,
         config'[k] # config[k] \/ authority'[k] # authority[k]
  PROVE  /\ k \in active /\ edits[k] \in Edit /\ edits[k] # NoEdit
         /\ edits[k].actor \in active /\ edits[k].patch \in Patch
         /\ EditBound(edits[k].actor, k, edits[k].patch)
         /\ config'[k] = Edited(config[k], edits[k].patch)
         /\ authority'[k].tools = Baked(config'[k])
<1> DEFINE S == {j \in Deferred(m) : ~Waits(m, j) /\ Applies(j)}
           P == [j \in Deferred(m) |-> edits[j].patch]
<1>1. ConfigUpdates(S, P)
  BY DEF TurnCompletes
<1>2. k \in S
  <2> HIDE DEF S, P
  <2> QED BY <1>1 DEF ConfigUpdates
<1>3. config'[k] = Edited(config[k], P[k]) /\ authority'[k].tools = Baked(config'[k])
  <2>1. k \in active
    BY <1>2 DEF Applies, StillMay
  <2>2. authority[k] \in Authority
    BY <2>1 DEF LInv, TypeOK, Consistent
  <2> HIDE DEF S, P
  <2> QED BY <1>1, <1>2, <2>2 DEF ConfigUpdates, Authority
<1>4. P[k] = edits[k].patch /\ edits[k] # NoEdit /\ edits[k] \in Edit
  BY <1>2 DEF Deferred, LInv, TypeOK
<1> QED BY <1>2, <1>3, <1>4 DEF Applies, StillMay, Edit

\* What takes effect on an agent by another's edit, at once or deferred, was let
\* through by the bound, against the state it takes effect in.
LEMMA EditsBounded ==
  ASSUME LInv, NEW k \in Key, <<config[k], authority[k]>>' # <<config[k], authority[k]>>,
         NEW c \in Key, Edits(c, k)
  PROVE  \/ Within(authority'[k].tools, authority[c].tools)
         \/ Misjudged(k) /\ Within(authority'[k].tools, Reach(k))
<1>1. config'[k] # config[k] \/ authority'[k] # authority[k]
  OBVIOUS
<1>2. ASSUME c \in Agents, NEW p \in Patch, UpdateAgent(c, IdOf[k], p)
      PROVE  \/ Within(authority'[k].tools, authority[c].tools)
             \/ Misjudged(k) /\ Within(authority'[k].tools, Reach(k))
  <2>1. IdOf[k] \in BareId
    BY KeyAssumption
  <2>2. PICK j \in active :
           /\ EditBound(c, j, p)
           /\ ConfigUpdates({j}, [m \in {j} |-> p]) \/ UNCHANGED <<config, authority>>
    BY <1>2, <2>1, UpdateAgentEffect
  <2>3. k = j /\ ConfigUpdates({j}, [m \in {j} |-> p])
    BY <1>1, <2>2 DEF ConfigUpdates
  <2>4. config'[k] = Edited(config[k], p) /\ authority'[k].tools = Baked(config'[k])
    <3>1. authority[k] \in Authority
      BY <2>2, <2>3 DEF LInv, TypeOK, Consistent
    <3> QED BY <2>3, <3>1 DEF ConfigUpdates, Authority
  <2> QED BY <1>2, <2>2, <2>3, <2>4, EditWithinBound DEF Agents
<1>3. ASSUME edits[k].actor = c, NEW m \in Key, TurnCompletes(m)
      PROVE  \/ Within(authority'[k].tools, authority[c].tools)
             \/ Misjudged(k) /\ Within(authority'[k].tools, Reach(k))
  BY <1>1, <1>3, FlushEffect, EditWithinBound
<1> QED BY <1>2, <1>3 DEF Edits

LEMMA RestartFlowsDown ==
  ASSUME LInv, Restart, NEW k \in Key \ Planned
  PROVE  Within(Reach(k)', Reach(k))
<1>1. config'[k] = Reloaded(k)
  BY DEF Restart
<1>2. CASE k \in active \cup bin
  <2>1. (k \in active \cap Planned) = FALSE
    OBVIOUS
  <2>2. config'[k] = [tools |-> IF k \in active THEN config[k].tools ELSE {},
                      privileged |-> FALSE, parent |-> NoId, snapshot |-> TRUE]
    BY <1>1, <1>2, <2>1, Zenon DEF Reloaded
  <2> QED BY <2>2 DEF Reach, Within
<1>3. CASE k \notin active \cup bin
  BY <1>1, <1>3 DEF Reloaded, Reach, Within
<1> QED BY <1>2, <1>3

\* Whatever agents do, spawn, edit or have deferred, for any agents, Realms and
\* tools, nobody's reach grows beyond the reach of the one who caused it, the
\* descriptor an edit leaves is within that of its editor, but for the two kinds
\* of edit the bound misjudges, and only an agent with lifecycle authority hands
\* it on.
THEOREM AuthorityFlowsDown == Spec => FlowsDown
<1>1. ASSUME LInv, NEW k \in Key
      PROVE  /\ ~Within(Reach(k)', Reach(k)) =>
                  /\ \A c \in Key : Acts(c) => Within(Reach(k)', Reach(k) \cup Reach(c))
                  /\ \A m \in Key : TurnCompletes(m) =>
                       /\ edits[k] # NoEdit
                       /\ Within(Reach(k)', Reach(k) \cup Reach(edits[k].actor))
                  /\ Restart => k \in Planned
             /\ <<config[k], authority[k]>>' # <<config[k], authority[k]>> =>
                  \A c \in Key : Edits(c, k) =>
                    \/ Within(authority'[k].tools, authority[c].tools)
                    \/ Misjudged(k) /\ Within(authority'[k].tools, Reach(k))
             /\ k \in active' \ active => \A c \in Key : Acts(c) =>
                  /\ Sudo(authority'[k].tools) => IsSudoer(c)
                  /\ ~authority'[k].bypass /\ authority'[k].grant = NoScope
  <2>1. ASSUME NEW c \in Key, Acts(c)
        PROVE  /\ Within(Reach(k)', Reach(k) \cup Reach(c))
               /\ k \in active' \ active =>
                    /\ Sudo(authority'[k].tools) => IsSudoer(c)
                    /\ ~authority'[k].bypass /\ authority'[k].grant = NoScope
    BY <1>1, <2>1, AgentFlowsDown DEF Acts
  <2>2. ASSUME NEW m \in Key, TurnCompletes(m), ~Within(Reach(k)', Reach(k))
        PROVE  edits[k] # NoEdit /\ Within(Reach(k)', Reach(k) \cup Reach(edits[k].actor))
    <3>1. config'[k] # config[k]
      BY <2>2 DEF Reach, Within
    <3> QED BY <1>1, <2>2, <3>1, FlushEffect, EditWithinReach
  <2>3. Restart /\ ~Within(Reach(k)', Reach(k)) => k \in Planned
    BY <1>1, RestartFlowsDown
  <2>4. ASSUME <<config[k], authority[k]>>' # <<config[k], authority[k]>>,
               NEW c \in Key, Edits(c, k)
        PROVE  \/ Within(authority'[k].tools, authority[c].tools)
               \/ Misjudged(k) /\ Within(authority'[k].tools, Reach(k))
    BY <1>1, <2>4, EditsBounded
  <2> QED BY <2>1, <2>2, <2>3, <2>4
<1>2. LInv => [\A k \in Key :
       /\ ~Within(Reach(k)', Reach(k)) =>
            /\ \A c \in Key : Acts(c) => Within(Reach(k)', Reach(k) \cup Reach(c))
            /\ \A m \in Key : TurnCompletes(m) =>
                 /\ edits[k] # NoEdit
                 /\ Within(Reach(k)', Reach(k) \cup Reach(edits[k].actor))
            /\ Restart => k \in Planned
       /\ <<config[k], authority[k]>>' # <<config[k], authority[k]>> =>
            \A c \in Key : Edits(c, k) =>
              \/ Within(authority'[k].tools, authority[c].tools)
              \/ Misjudged(k) /\ Within(authority'[k].tools, Reach(k))
       /\ k \in active' \ active => \A c \in Key : Acts(c) =>
            /\ Sudo(authority'[k].tools) => IsSudoer(c)
            /\ ~authority'[k].bypass /\ authority'[k].grant = NoScope]_vars
  BY <1>1
<1> QED BY <1>2, AuthorityInvariance, PTL DEF FlowsDown

-----------------------------------------------------------------------------
(* Realms                                                                  *)

LEMMA EditFieldsAdmitted ==
  ASSUME NEW c \in Key, NEW k \in Key, EditFields(c, k) # {}
  PROVE  Admitted(c, k)
BY DEF EditFields, Covers, Admitted

LEMMA EditAdmitted ==
  ASSUME NEW c \in Key, NEW k \in Key, NEW p \in Patch, EditBound(c, k, p)
  PROVE  Admitted(c, k)
<1>1. p.fields # {}
  BY AuthorityAssumption
<1>2. EditFields(c, k) # {}
  BY <1>1 DEF EditBound
<1> QED BY <1>2, EditFieldsAdmitted

LEMMA AgentInRealm ==
  ASSUME LInv, NEW c \in Agents, AgentStep(c), NEW k \in Key, Record(k)' # Record(k)
  PROVE  Bypasses(c) \/ Admitted(c, k)
<1>1. c \in Key /\ c # Operator
  BY KeyAssumption DEF Agents, LInv, TypeOK
<1>2. ~(UNCHANGED <<config[k], authority[k]>> /\ (k \in active' <=> k \in active)
        /\ (k \in bin' <=> k \in bin))
  BY DEF Record
<1>3. ASSUME NEW j \in Key, NEW q \in Request, SpawnAgent(c, j, q)
      PROVE  Admitted(c, k)
  <2>1. k = j
    BY <1>2, <1>3 DEF SpawnAgent, Enter, LInv, TypeOK
  <2> QED BY <1>3, <2>1 DEF SpawnAgent, Admitted
<1>4. ASSUME NEW j \in Key, InScope(c, j)
      PROVE  Bypasses(c) \/ Admitted(c, j)
  BY <1>4 DEF InScope, Admitted
<1>5. ASSUME NEW i \in BareId, KillAgent(c, i)
      PROVE  Bypasses(c) \/ Admitted(c, k)
  <2>1. active \in SUBSET Key
    BY DEF LInv, TypeOK
  <2>2. Denoted(c, i, active) \subseteq active
    BY <2>1, DenotedIn
  <2>3. PICK j \in active : /\ InScope(c, j)
                            /\ active' = active \ {j} /\ bin' = bin \cup {j}
                            /\ authority' = [authority EXCEPT ![j] = NoAuthority]
                            /\ UNCHANGED config
    BY <1>5, <2>2 DEF KillAgent, MayMutate
  <2>4. k = j
    BY <1>2, <2>3 DEF LInv, TypeOK
  <2> QED BY <1>4, <2>3, <2>4
<1>6. ASSUME NEW i \in BareId, RestoreAgent(c, i)
      PROVE  Bypasses(c) \/ Admitted(c, k)
  <2> DEFINE D(j) == [tools |-> IF config[j].snapshot THEN {} ELSE Baked(config[j]),
                      bypass |-> FALSE, grant |-> NoScope]
  <2>1. bin \in SUBSET Key
    BY DEF LInv, TypeOK
  <2>2. Denoted(c, i, bin) \subseteq bin
    BY <2>1, DenotedIn
  <2>3. PICK j \in bin : /\ InScope(c, j)
                         /\ active' = active \cup {j} /\ bin' = bin \ {j}
                         /\ authority' = [authority EXCEPT ![j] = D(j)]
                         /\ UNCHANGED config
    BY <1>6, <2>2 DEF RestoreAgent, MayMutate
  <2> HIDE DEF D
  <2>4. k = j
    BY <1>2, <2>3 DEF LInv, TypeOK
  <2> QED BY <1>4, <2>1, <2>3, <2>4
<1>7. ASSUME NEW i \in BareId, NEW p \in Patch, UpdateAgent(c, i, p)
      PROVE  Admitted(c, k)
  <2>1. PICK j \in active :
           /\ EditBound(c, j, p)
           /\ ConfigUpdates({j}, [m \in {j} |-> p]) \/ UNCHANGED <<config, authority>>
           /\ UNCHANGED <<active, bin>>
    BY <1>7, UpdateAgentEffect
  <2>2. k = j
    BY <1>2, <2>1 DEF ConfigUpdates
  <2> QED BY <1>1, <2>1, <2>2, EditAdmitted
<1> QED BY <1>3, <1>5, <1>6, <1>7 DEF AgentStep

\* No agent changes a record of another Realm without the bypass or a grant that
\* names that Realm, for any agents, Realms and references.
THEOREM RealmsAreSealed == Spec => RealmsSealed
<1>1. ASSUME LInv, NEW k \in Key, Record(k)' # Record(k)
      PROVE  /\ \A c \in Key : Acts(c) => Bypasses(c) \/ Admitted(c, k)
             /\ \A m \in Key : TurnCompletes(m) => edits[k] # NoEdit /\ Admitted(edits[k].actor, k)
  <2>1. ASSUME NEW c \in Key, Acts(c) PROVE Bypasses(c) \/ Admitted(c, k)
    BY <1>1, <2>1, AgentInRealm DEF Acts
  <2>2. ASSUME NEW m \in Key, TurnCompletes(m)
        PROVE  edits[k] # NoEdit /\ Admitted(edits[k].actor, k)
    <3>1. config'[k] # config[k] \/ authority'[k] # authority[k]
      BY <1>1, <2>2 DEF Record, TurnCompletes
    <3>2. /\ edits[k] # NoEdit /\ edits[k].actor \in active /\ edits[k].patch \in Patch
          /\ EditBound(edits[k].actor, k, edits[k].patch)
      BY <1>1, <2>2, <3>1, FlushEffect
    <3>3. active \subseteq Key
      BY <1>1 DEF LInv, TypeOK
    <3> QED BY <3>2, <3>3, EditAdmitted
  <2> QED BY <2>1, <2>2
<1>2. LInv => [\A k \in Key : Record(k)' # Record(k) =>
       /\ \A c \in Key : Acts(c) => Bypasses(c) \/ Admitted(c, k)
       /\ \A m \in Key : TurnCompletes(m) => edits[k] # NoEdit /\ Admitted(edits[k].actor, k)]_vars
  BY <1>1
<1> QED BY <1>2, AuthorityInvariance, PTL DEF RealmsSealed
=============================================================================
