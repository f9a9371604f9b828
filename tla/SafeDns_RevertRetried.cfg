SPECIFICATION Spec
CONSTANTS
  None = None
  Empty = Empty
  t1 = t1
  t2 = t2
  Threads <- TwoThreads
  Window = 3
  MaxTime = 7
  MaxPosts = 2
  ByHand = {"router", "custom"}
  Faults = {"revert"}
  MaxFaults = 1
PROPERTIES RevertRetried
