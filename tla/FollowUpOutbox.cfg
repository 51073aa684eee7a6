SPECIFICATION TroubledSpec
CONSTANTS
  q1 = q1
  q2 = q2
  q3 = q3
  q4 = q4
  t1 = t1
  t2 = t2
  t3 = t3
  r1 = r1
  r2 = r2
  None = None
  Requests = {q1, q2, q3, q4}
  Tokens = {t1, t2, t3}
  Records = {r1, r2}
  TokenOf <- TokensOf
  RecordOf <- RecordsOf
  Takeovers = {}
  Cap = 2
  MaxEvents = 1
  MaxCrashes = 1
  MaxFaults = 1
  SlowCalls = TRUE
SYMMETRY Symmetry
INVARIANTS TypeOK OneMailPerConfirmation OneUnresolved AcceptedIsSent StopIsHeard CapHolds
PROPERTIES ImplementsConfirmedMail
CHECK_DEADLOCK FALSE
