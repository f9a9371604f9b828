SPECIFICATION FairSpec
CONSTANTS
  None = None
  Empty = Empty
  t1 = t1
  t2 = t2
  Threads <- TwoThreads
  Window = 3
  MaxTime = 7
  MaxPosts = 2
  ByHand = {"custom"}
  Faults = {"refused", "timeout", "readonly", "crash"}
  MaxFaults = 1
PROPERTIES ExpiredReverts FilteringEnds
