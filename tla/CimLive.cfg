SPECIFICATION FairSpec
CONSTANTS
  Campaigns = {c1}
  Workers = {w1}
  LastTouch = 1
  MaxTx = 2
  MaxAuths = 1
  MaxVersion = 6
  MaxRevision = 1
  MaxActivations = 1
  MaxCrashes = 1
PROPERTIES
  PendingIsSettled
  RepliesTakeEffect
CHECK_DEADLOCK FALSE
