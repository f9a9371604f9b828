SPECIFICATION Spec
CONSTANTS
  None = None
  s1 = s1
  ip1 = ip1
  ip2 = ip2
  m1 = m1
  MaxDevices = 2
  Ips <- OneIp
  Macs <- OneMac
  Hosts = {}
  GenericHosts = {}
  MaxTime = 1
  Domains = {d1}
  Candidates <- OneIp
  MaxQueries = 2
  MaxReplies = 0
  Faults = {}
  MaxFaults = 0
  Scanners <- OneScanner
  DnsWindow = 0
  Grace = 0
  Stale = 0
  MaxScans = 1
  MaxHeard = 1
PROPERTIES GraceKept
CHECK_DEADLOCK FALSE
