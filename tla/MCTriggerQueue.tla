--------------------------- MODULE MCTriggerQueue ---------------------------
(* Small instances of TriggerQueue for TLC.                                *)
EXTENDS TriggerQueue, TLC

CONSTANTS t1, t2, t3,          \* triggers
          a1, b1, b2,          \* canonical keys
          a, b, system,        \* bare ids, and the label of a system source
          R, S                 \* Realms

\* Agent a lives in Realm R; the bare id b is registered in R and in S.
MCBareOf  == (a1 :> a) @@ (b1 :> b) @@ (b2 :> b)
MCRealmOf == (a1 :> R) @@ (b1 :> R) @@ (b2 :> S)

\* A system source and b1 send to a1, in the Realm of b1, and a1 to b2, in
\* another one; bare source ids are as they arrive.
MCTarget    == [t \in Trigger |-> ((t1 :> a1) @@ (t2 :> a1) @@ (t3 :> b2))[t]]
MCSource    == [t \in Trigger |-> ((t1 :> system) @@ (t2 :> b) @@ (t3 :> a))[t]]
MCSourceKey == [t \in Trigger |-> ((t1 :> NoKey) @@ (t2 :> b1) @@ (t3 :> a1))[t]]

=============================================================================
