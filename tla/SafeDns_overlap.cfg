SPECIFICATION Spec
CONSTANTS
  None = None
  Empty = Empty
  t1 = t1
  t2 = t2
  Threads <- TwoThreads
  Window = 3
  MaxTime = 7
  MaxPosts = 2
  ByHand = {"dnsmasq", "custom"}
  Faults = {"refused", "lost", "timeout", "readonly", "full", "unreadable", "revert", "crash"}
  MaxFaults = 1
INVARIANTS TypeOK WindowStaysArmed
PROPERTIES OpenWindowKept
