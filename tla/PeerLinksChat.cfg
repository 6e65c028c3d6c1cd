\* b finds a and dials it.
CONSTANTS
  a = a
  b = b
  Nodes = {a, b}
  Heard <- OneWay
  Links = {k1, k2}
  Chats = {hi}
  MaxSeen = 1
  Capacity = 1
  MaxCrashes = 0
  None = None
SPECIFICATION FairSpec

PROPERTY ChatReachesLinkedPeer
CHECK_DEADLOCK FALSE
