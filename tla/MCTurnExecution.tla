--------------------------- MODULE MCTurnExecution ---------------------------
(* Small instances of TurnExecution for TLC.                               *)
EXTENDS TurnExecution, TLC

CONSTANTS a1,          \* the agent
          t1, t2, t3   \* calls of executeAgentTurn

\* All calls are for one agent.
MCOneAgent == [t \in Turn |-> a1]
=============================================================================
