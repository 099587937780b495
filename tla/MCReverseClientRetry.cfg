SPECIFICATION FairSpec
CONSTANTS
  MaxRetries = 3
  MaxBackoff = 4
  MaxSignals = 1
PROPERTIES
  LostSessionReconnects
