\* An agent is declared free, or killed and restored, while its turn unwinds.
SPECIFICATION Spec
CONSTANTS
  a1 = a1
  t1 = t1  t2 = t2  t3 = t3
  NoTurn = NoTurn
  Agent = {a1}
  Turn = {t1, t2, t3}
  AgentOf <- MCOneAgent
  Wakes = {}
  Signals = {t1}
  maxTurns = 1
  MaxCalls = 1
  MaxRescues = 1
INVARIANT StopIsObeyed
CHECK_DEADLOCK FALSE
