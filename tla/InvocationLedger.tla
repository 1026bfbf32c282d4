-------------------------- MODULE InvocationLedger --------------------------
(***************************************************************************)
(* What the invocation engine promises about each call, with microtasks,   *)
(* timers, controls and callbacks left out: a call is in flight until it   *)
(* settles once and for all, several calls may settle together when an     *)
(* agent dies, and reset forgets every call there is.                      *)
(* (src/lib/sandbox/invocationEngine/index.ts, the invariants of its       *)
(* header.)                                                                *)
(***************************************************************************)
CONSTANTS Id,       \* calls
          Outcome   \* terminal statuses

VARIABLE phase      \* phase[i]: "unused", "in_flight", an outcome or "forgotten"

Init == phase = [i \in Id |-> "unused"]

Invoke(i) ==
  /\ phase[i] = "unused"
  /\ phase' = [phase EXCEPT ![i] = "in_flight"]

Settle(S, o) ==
  /\ \A i \in S : phase[i] = "in_flight"
  /\ phase' = [i \in Id |-> IF i \in S THEN o ELSE phase[i]]

Forget ==
  phase' = [i \in Id |-> IF phase[i] = "unused" THEN "unused" ELSE "forgotten"]

Next ==
  \/ \E i \in Id : Invoke(i)
  \/ \E S \in SUBSET Id, o \in Outcome : Settle(S, o)
  \/ Forget

Spec == Init /\ [][Next]_phase
=============================================================================
