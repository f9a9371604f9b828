SPECIFICATION Spec
CONSTANTS
  None = None
  s1 = s1
  s2 = s2
  ip1 = ip1
  ip2 = ip2
  m1 = m1
  h1 = h1
  MaxDevices = 2
  Ips <- TwoIps
  Macs <- OneMac
  Hosts <- OneHost
  GenericHosts = {}
  MaxTime = 1
  Scanners <- TwoScanners
  DnsWindow = 0
  Grace = 0
  Stale = 1
  MaxScans = 2
  MaxHeard = 2
INVARIANTS TypeOK  EventsBounded OrphansBounded
CHECK_DEADLOCK FALSE
