SPECIFICATION Spec
CONSTANTS
  Kinds = {"bulk_copy", "adaptive_copy", "stream", "tcp"}
  MaxSent = 8
  Estimates = {0, 4, 5}
  SmallFile = 4
  IoBuffer = 1
  BulkBuffer = 2
  BulkInterval = 5
  SampleSize = 2
  SpliceMin = 4
  SmallSample = 1
  SmallBuffer = 1
  BurstBuffer = 3
  BurstInterval = 5
  StreamBuffer = 4
  StreamInterval = 8
INVARIANTS
  TypeOK
  HeldBackBounded
PROPERTIES
  Promise
  CopyReturns
CHECK_DEADLOCK FALSE
