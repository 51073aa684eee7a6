SPECIFICATION Spec
CONSTANTS
  Workers = {w1, w2}
  Strays = {}
  NoId = NoId
  RetryDelay = 1
  Stale = 2
  Window = 2
  Upgrades = FALSE
  MaxTime = 3
  MaxAttempts = 1
  MaxCrashes = 0
SYMMETRY Symmetry
PROPERTIES UnresolvedForWholeWindow
