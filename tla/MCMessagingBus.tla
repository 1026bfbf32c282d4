--------------------------- MODULE MCMessagingBus ---------------------------
(* Small instances of MessagingBus for TLC.                                *)
EXTENDS MessagingBus, TLC

CONSTANTS a1, b1,      \* two agents of Realm R
          a2,          \* an agent of Realm Q with the bare id of a1
          d,           \* the director
          aa, bb, dd,  \* bare ids
          R, Q,
          news, call, tell, order, \* messages
          both, any, peek          \* waits

MCBareOf  == [k \in Key |-> ((a1 :> aa) @@ (b1 :> bb) @@ (a2 :> aa) @@ (d :> dd))[k]]
MCRealmOf == [k \in Key |-> ((a1 :> R) @@ (b1 :> R) @@ (a2 :> Q) @@ (d :> Bypass))[k]]

\* A broadcast within R, a message to the canonical key of b1, one of the host
\* to the namesake in Q, and one of the host by a bare id two agents may have.
MCFrom == [m \in Message |->
  ((news :> b1) @@ (call :> a1) @@ (tell :> Host) @@ (order :> Host))[m]]
MCTo == [m \in Message |->
  ((news :> All) @@ (call :> b1) @@ (tell :> a2) @@ (order :> aa))[m]]

\* a1 waits for a message of b1 and one of the host, and takes them; b1 waits
\* for anything, counts what it has read, and leaves its queue as it is; a1
\* polls for mail of b1.
MCWaitOf == [w \in Wait |->
  ((both :> [owner |-> a1, senders |-> {bb, Host}, all |-> TRUE,
             mark |-> TRUE, read |-> FALSE, poll |-> FALSE]) @@
   (any  :> [owner |-> b1, senders |-> {}, all |-> TRUE,
             mark |-> FALSE, read |-> TRUE, poll |-> FALSE]) @@
   (peek :> [owner |-> a1, senders |-> {bb}, all |-> FALSE,
             mark |-> TRUE, read |-> FALSE, poll |-> TRUE]))[w]]
=============================================================================
