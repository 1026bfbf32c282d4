\* Three calls for one agent, which is cancelled, undone, killed, purged, and unstuck or restored once.
SPECIFICATION FairSpec
CONSTANTS
  a1 = a1
  t1 = t1  t2 = t2  t3 = t3
  NoTurn = NoTurn
  Agent = {a1}
  Turn = {t1, t2, t3}
  AgentOf <- MCOneAgent
  Wakes = {t3}
  Signals = {t1}
  maxTurns = 2
  MaxCalls = 2
  MaxRescues = 1
INVARIANTS TInv
PROPERTIES NoWorkAfterStop FailureIsVisible CallsSettle
CHECK_DEADLOCK FALSE
