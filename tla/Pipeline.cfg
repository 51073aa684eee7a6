SPECIFICATION Spec
CONSTANTS
  a1 = a1
  a2 = a2
  b1 = b1
  b2 = b2
  Nobody = Nobody
SYMMETRY Symmetric
INVARIANTS TypeOK OneEach RecordsAreTrue DecisionsAreHeard
PROPERTIES NothingIsUndone
CHECK_DEADLOCK FALSE
