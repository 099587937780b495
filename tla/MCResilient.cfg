SPECIFICATION Spec
CONSTANTS
  c1 = c1
  c2 = c2
  s1 = s1
  Callers <- MCCallers
  Sessions <- MCSessions
  MaxRetries = 2
  ErrorLimit = 2
  MaxCalls = 4
CHECK_DEADLOCK FALSE
INVARIANTS
  TypeOK
  Accounted
  StatsConsistent
PROPERTIES
  CallsEnd
  SessionsExpire
