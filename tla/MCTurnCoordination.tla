------------------------- MODULE MCTurnCoordination -------------------------
(***************************************************************************)
(* Instances of TurnCoordination for TLC: two agents, which are namesakes  *)
(* in two Realms, or a parent and the child it launches.                   *)
(***************************************************************************)
EXTENDS TurnCoordination

CONSTANTS p, c

\* Two agents with the same bare id, or with bare ids of their own.
MCAgent   == {p, c}
Alike     == [a \in MCAgent |-> "agent"]
Different == [a \in MCAgent |-> IF a = p THEN "parent" ELSE "child"]
MCResident == {p}
MCRetired  == {c}
None       == {}
=============================================================================
