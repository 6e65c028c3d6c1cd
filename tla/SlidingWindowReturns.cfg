\* The first window is acknowledged while the fill is over.
CONSTANTS
  Total = 2
  WindowSize = 1
  MaxRetries = 1
  ReceiverAcks = TRUE
SPECIFICATION FairSpec
PROPERTY SendAllReturns
CHECK_DEADLOCK FALSE
