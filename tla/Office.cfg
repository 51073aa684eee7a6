SPECIFICATION Spec
CONSTANTS
  adm = adm
  vie = vie
  a1 = a1
  a2 = a2
  b1 = b1
  b2 = b2
  Nobody = Nobody
SYMMETRY Symmetric
INVARIANTS TypeOK VaultIsWhole UsedOnce LimitsHold CopiesRemain
PROPERTIES NothingIsStale
CHECK_DEADLOCK FALSE
