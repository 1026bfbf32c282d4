---------------------------- MODULE MailService ----------------------------
(***************************************************************************)
(* What the messaging bus promises, with identity resolution, pending      *)
(* waits, timers and subscriptions left out: a message is posted once, to  *)
(* members that its sender may reach; each of them gets one copy, which is *)
(* unread until its owner takes it and stays on record afterwards.         *)
(* (src/lib/sandbox/messagingBus/index.ts, the invariants of its header.)  *)
(***************************************************************************)
CONSTANTS Key,     \* agents
          Message, \* messages
          Audience \* Audience[m]: the agents the sender of m may reach

VARIABLES
  members,  \* agents that can get mail
  posted,   \* messages that were handed in, delivered or refused
  unread,   \* unread[k]: copies agent k has not taken
  read      \* read[k]: copies it has taken

vars == <<members, posted, unread, read>>

Init ==
  /\ members \in SUBSET Key
  /\ posted = {}
  /\ unread = [k \in Key |-> {}]
  /\ read = [k \in Key |-> {}]

\* The copies of m for the agents R; those of T are waiting and take theirs at
\* once.  With R empty the message is refused.
Post(m, R, T) ==
  /\ m \notin posted
  /\ R \subseteq members \cap Audience[m]
  /\ T \subseteq R
  /\ posted' = posted \cup {m}
  /\ unread' = [k \in Key |-> IF k \in R \ T THEN unread[k] \cup {m} ELSE unread[k]]
  /\ read' = [k \in Key |-> IF k \in T THEN read[k] \cup {m} ELSE read[k]]
  /\ UNCHANGED members

Take(k, S) ==
  /\ S \subseteq unread[k]
  /\ unread' = [unread EXCEPT ![k] = @ \ S]
  /\ read' = [read EXCEPT ![k] = @ \cup S]
  /\ UNCHANGED <<members, posted>>

\* Membership changes and leaves every mailbox as it is.
Enrol(S) == members' = S /\ UNCHANGED <<posted, unread, read>>

\* The agent is gone for good, and its mailbox with it.
Forget(k) ==
  /\ members' = members \ {k}
  /\ unread' = [unread EXCEPT ![k] = {}]
  /\ read' = [read EXCEPT ![k] = {}]
  /\ UNCHANGED posted

Next ==
  \/ \E m \in Message \ posted : \E R \in SUBSET (members \cap Audience[m]) :
       \E T \in SUBSET R : Post(m, R, T)
  \/ \E k \in Key : \E S \in SUBSET unread[k] : Take(k, S)
  \/ \E S \in SUBSET Key : Enrol(S)
  \/ \E k \in Key : Forget(k)

Spec == Init /\ [][Next]_vars
=============================================================================
