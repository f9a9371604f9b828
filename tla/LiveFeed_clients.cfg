SPECIFICATION Spec
CONSTANTS
  None = None
  s1 = s1
  s2 = s2
  q1 = q1
  p1 = p1
  Sockets <- TwoSockets
  Streams <- OneStream
  Pages <- OnePage
  MaxMounts = 1
  MaxRows <- ThreeRows
  Limit <- OneAtATime
  MaxQueue = 1
  Faults = {"read", "lookup", "restart", "network"}
  MaxFaults = 1
INVARIANTS FeedTypeOK StreamIsSegment StreamIsComplete FeedInOrder
CHECK_DEADLOCK FALSE
