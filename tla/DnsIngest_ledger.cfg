SPECIFICATION FairSpec
CONSTANTS
  None = None
  lan = lan
  MaxDevices = 2
  Ips <- OneIp
  Candidates <- OneIp
  Macs = {}
  Hosts = {}
  MaxTime = 0
  Domains = {d1, d2}
  MaxQueries = 3
  MaxReplies = 2
  Faults = {}
  MaxFaults = 0
INVARIANTS OnePlaceholderPerIp AnswersFit
PROPERTIES LedgerSpec FollowedQueryRecorded
