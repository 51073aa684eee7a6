SPECIFICATION QueuesSpec
CONSTANTS
  Campaigns = {c1, c2}
  Workers = {w1}
  LastTouch = 1
  MaxTx = 3
  MaxAuths = 1
  MaxVersion = 6
  MaxRevision = 1
  MaxActivations = 1
  MaxCrashes = 1
SYMMETRY Symmetry
INVARIANTS FollowUpsFollow UnsureIsLast StopsReachTheQueue UnsureHoldsConversation
PROPERTY EndsAreFinal
CHECK_DEADLOCK FALSE
