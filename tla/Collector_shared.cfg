SPECIFICATION Spec
CONSTANTS
  None = None
  s1 = s1
  ip1 = ip1
  ip2 = ip2
  m1 = m1
  MaxDevices = 3
  Ips <- TwoIps
  Macs <- OneMac
  Hosts = {}
  GenericHosts = {}
  MaxTime = 1
  Domains = {d1}
  Candidates <- OneIp
  MaxQueries = 2
  MaxReplies = 1
  Faults = {}
  MaxFaults = 0
  Scanners <- OneScanner
  DnsWindow = 0
  Grace = 0
  Stale = 0
  MaxScans = 1
  MaxHeard = 1
INVARIANTS TypeOK RowsAttributed
CHECK_DEADLOCK FALSE
