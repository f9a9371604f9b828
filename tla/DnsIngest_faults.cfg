SPECIFICATION Spec
CONSTANTS
  None = None
  lan = lan
  MaxDevices = 3
  Ips <- OneIp
  Candidates <- OneIp
  Macs = {}
  Hosts = {}
  MaxTime = 1
  Domains = {d1}
  MaxQueries = 3
  MaxReplies = 1
  Faults = {"kill","abort","oserror","rotate"}
  MaxFaults = 2
INVARIANTS TypeOK NothingSkipped LossBounded RepeatsBounded OrphansBounded
