CONSTANTS
  ConsecutiveRequired = 2
  RearmAfter = 2
  MinConfidence = 6
  Confidences = {7, 9}
  Full = 10
  empty = empty
  cat = cat
  Scenes = {empty, cat}
  NoThumb = NoThumb
  Differ <- MCDiffer
  MaxPolls = 7
  Window = 8
  Limit = 3
  LongDelay = 4
  Probes = {"dashboard"}
  None = None
  MaxEnv = 5
  MaxDeaths = 2
SPECIFICATION FairMonitor
INVARIANTS
  OneAlertPerVisit
  AlertConfidence
  ExitsContained
PROPERTIES
  RefinesVisitAlerts
  MonitoringReturns
