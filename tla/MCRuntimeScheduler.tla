------------------------- MODULE MCRuntimeScheduler -------------------------
(* Small instances of RuntimeScheduler for TLC.                            *)
EXTENDS RuntimeScheduler

CONSTANTS a1, a2, b1, d1,            \* agents
          alice, bob, director, user,\* bare ids
          R, S                       \* Realms

\* alice lives in Realm R and in Realm S, bob in R; the director bypasses Realms,
\* and the user is no agent.
MCBareOf  == [a \in Key |-> IF a = b1 THEN bob ELSE IF a = d1 THEN director ELSE alice]
MCRealmOf == [a \in Key |-> IF a = d1 THEN Bypass ELSE IF a = a2 THEN S ELSE R]
=============================================================================
