SPECIFICATION Spec
CONSTANTS
  Workers = {w1, w2}
  Strays = {}
  NoId = NoId
  RetryDelay = 1
  Stale = 2
  Window = 2
  Upgrades = FALSE
  MaxTime = 3
  MaxAttempts = 3
  MaxCrashes = 1
SYMMETRY Symmetry
INVARIANTS TypeOK DeliveryInv AtMostOneAcceptance ClaimableMeansUnsent RecordedMeansAccepted
PROPERTIES NoRetryWithoutRefusal RetryWaits
