SPECIFICATION DashboardSpec
CONSTANTS
  None = None
  t1 = t1
  t2 = t2
  Threads <- TwoThreads
  Domains = {"chat.example", "bet365.com"}
  Kinds = {"sync", "aisync", "aiclassify", "override", "scan", "ask", "reask"}
  Models <- OneModel
  Verdicts = {"UNSAFE", "UNKNOWN"}
  Chosen = {"UNCATEGORIZED", "ADULT_CONTENT"}
  AiLimit = 1
  a1 = a1
  a2 = a2
  Askers <- TwoAskers
  ScanLimits = {1, 2}
  Cooldown = 1
  MaxQueries = 2
  MaxRequests = 2
  MaxClosed = 1
INVARIANTS TypeOK BulkAsksUnlocked SyncKept HitsAlerted RulesReachable ListsAgree ReadsAgree
PROPERTIES OverridesSacred
SYMMETRY AnyOne
CHECK_DEADLOCK FALSE
