SPECIFICATION Spec
CONSTANTS
  Campaigns = {c1}
  Workers = {w1}
  LastTouch = 1
  MaxTx = 2
  MaxAuths = 1
  MaxVersion = 3
  MaxRevision = 1
  MaxActivations = 1
  MaxCrashes = 0
PROPERTY AnsweredGetsNoFollowUp
CHECK_DEADLOCK FALSE
