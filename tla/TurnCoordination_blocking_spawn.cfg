\* A parent and the child it launches; no watch, no mishap.
SPECIFICATION Spec
CONSTANTS
  p = p
  c = c
  Agent <- MCAgent
  BareOf <- Different
  Resident <- MCResident
  Retired <- None
  MaxTriggers = 2
  MaxWatches = 0
  MaxMishaps = 0
PROPERTIES UserTurnsAreAnswered
CHECK_DEADLOCK FALSE
