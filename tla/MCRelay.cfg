SPECIFICATION Spec
CONSTANTS
  Impls = {"zero_copy", "bulk", "splice", "splice_adaptive", "io_copy", "buffered", "standard"}
  BufSize = 2
  MaxSent <- Sent
INVARIANTS
  TypeOK
  CountsDelivered
  ReturnedIsQuiet
PROPERTIES
  Promise
  WorkerEnds
CHECK_DEADLOCK FALSE
