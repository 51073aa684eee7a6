SPECIFICATION FairSpec
CONSTANTS
  Workers = {w1}
  Strays = {}
  NoId = NoId
  RetryDelay = 1
  Stale = 2
  Window = 2
  Upgrades = FALSE
  MaxTime = 3
  MaxAttempts = 3
  MaxCrashes = 1
PROPERTIES AcceptedIsRecorded PendingIsResolved
