------------------------- MODULE MCInvocationEngine -------------------------
(* Small instances of InvocationEngine for TLC.                            *)
EXTENDS InvocationEngine, TLC

CONSTANTS d1, a1, b1,   \* the director, an agent, and an agent it spawned
          dd, aa, bb,   \* their bare ids
          R,            \* the Realm of a1 and b1
          w1            \* an await

MCBareOf    == (d1 :> dd) @@ (a1 :> aa) @@ (b1 :> bb)
MCRealmOf   == (d1 :> Bypass) @@ (a1 :> R) @@ (b1 :> R)
MCSpawnedBy == (d1 :> NoKey) @@ (a1 :> NoKey) @@ (b1 :> a1)

From(p, t, timed) == [from |-> p, to |-> t, timed |-> timed]

\* a1 calls the agent it spawned, by its bare id as an agent would; b1 calls
\* itself, with a timeout, so that chains grow; b1 may not call a1, and nobody of
\* a Realm the director.
MCCalls == {From(a1, bb, FALSE), From(b1, b1, TRUE), From(b1, aa, FALSE), From(a1, d1, FALSE)}
=============================================================================
