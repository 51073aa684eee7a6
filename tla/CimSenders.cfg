SPECIFICATION Spec
CONSTANTS
  Campaigns = {c1}
  Workers = {w1, w2}
  LastTouch = 0
  MaxTx = 2
  MaxAuths = 1
  MaxVersion = 6
  MaxRevision = 1
  MaxActivations = 2
  MaxCrashes = 1
SYMMETRY Symmetry
INVARIANTS TypeOK OneCall RecordsAreTrue OneMailPerTouch
CHECK_DEADLOCK FALSE
