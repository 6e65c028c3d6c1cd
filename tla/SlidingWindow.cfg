\* A window smaller than the file, one retry, and a connection that may have a
\* message loop of its own.
CONSTANTS
  Total = 3
  WindowSize = 2
  MaxRetries = 1
  ReceiverAcks = TRUE
SPECIFICATION SweepSpec
INVARIANTS TypeOK AckedIsStored CompleteOrBroken
PROPERTIES  Implements
CHECK_DEADLOCK FALSE
