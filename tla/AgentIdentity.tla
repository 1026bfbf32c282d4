--------------------------- MODULE AgentIdentity ---------------------------
(***************************************************************************)
(* Who an agent is: the canonical key, the bare id and the Realm that the  *)
(* identity port of the runtime (runtime/index.ts) knows it by.  Namesakes *)
(* in two Realms share a bare id.                                          *)
(***************************************************************************)

CONSTANTS
  Key,             \* canonical identity keys of agents
  Bare,            \* bare, realm-local agent ids
  Realm,           \* ordinary Realms
  NoRealm, Bypass, \* scope of an agent without Realm, and with realmBypass
  BareOf,          \* BareOf[k]: bare id of agent k
  RealmOf          \* RealmOf[k]: Realm, NoRealm or Bypass

ASSUME IdentityAssumption ==
  /\ Key \cap Bare = {}
  /\ {NoRealm, Bypass} \cap Realm = {} /\ NoRealm # Bypass
  /\ BareOf \in [Key -> Bare]
  /\ RealmOf \in [Key -> Realm \cup {NoRealm, Bypass}]
=============================================================================
