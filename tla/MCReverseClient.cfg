SPECIFICATION FairSpec
CONSTANTS
  MaxRetries = 5
  MaxBackoff = 6
  MaxSignals = 5
INVARIANTS
  TypeOK
  SignalsStopRetries
PROPERTIES
  ShutdownHonoured
