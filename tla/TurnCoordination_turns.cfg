\* Two agents of one name in two Realms, one of them in the recycle bin, one watch, one mishap of any kind.
SPECIFICATION Spec
CONSTANTS
  p = p
  c = c
  Agent <- MCAgent
  BareOf <- Alike
  Resident <- MCResident
  Retired <- MCRetired
  MaxTriggers = 2
  MaxWatches = 1
  MaxMishaps = 1
INVARIANTS CInv NothingForgotten
PROPERTIES NamesakesApart UserTurnsEnd
CHECK_DEADLOCK FALSE
