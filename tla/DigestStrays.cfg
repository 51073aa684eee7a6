SPECIFICATION Spec
CONSTANTS
  Workers = {w1, w2}
  Strays = {s1}
  NoId = NoId
  RetryDelay = 1
  Stale = 1
  Window = 1
  Upgrades = TRUE
  MaxTime = 1
  MaxAttempts = 2
  MaxCrashes = 1
SYMMETRY Symmetry
PROPERTIES ImplementsBriefingSafety
