\* Two nodes that hear each other.
CONSTANTS
  a = a
  b = b
  Nodes = {a, b}
  Heard <- BothWays
  Links = {k1, k2, k3}
  Chats = {hi}
  MaxSeen = 2
  Capacity = 1
  MaxCrashes = 1
  None = None
SPECIFICATION FairSpec
INVARIANTS TypeOK ShownOnce InboundEntryIsServed
PROPERTY EventuallyLinked
CHECK_DEADLOCK FALSE
