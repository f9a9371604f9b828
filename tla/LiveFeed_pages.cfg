SPECIFICATION Spec
CONSTANTS
  None = None
  s1 = s1
  s2 = s2
  q1 = q1
  p1 = p1
  Sockets <- TwoSockets
  Streams = {}
  Pages <- OnePage
  MaxMounts = 2
  MaxRows <- OneRow
  Limit <- OneAtATime
  MaxQueue = 1
  Faults = {"read", "lookup", "restart", "network", "constructor"}
  MaxFaults = 2
INVARIANT OneSocketPerPage
PROPERTIES FeedCatchesUp PageReconnects
CHECK_DEADLOCK FALSE
