\* Two prompts, two loops of up to two calls, three operations of the user.
SPECIFICATION Spec
CONSTANTS
  HasRoot = TRUE
  MaxPrompts = 2
  Precalls = {1}
  MaxLoops = 2
  MaxCalls = 2
  MaxMinted = 7
  MaxOps = 3
INVARIANTS HInv
PROPERTIES PayloadWellFormed RedoRestores RetryResends
CHECK_DEADLOCK FALSE
