CONSTANTS
  Events = {1}
  w1 = w1
  w2 = w2
  Workers = {w1}
  NoJob = NoJob
  Configs <- MCConfigs
  NoConfig = NoConfig
  MaxAttempts = 2
  BackoffCap = 300
  Delays = {0}
  CompactAge = 1
  MaxTime = 1
  MaxCrashes = 1
SPECIFICATION FairSpec
PROPERTY NoEventLost
CHECK_DEADLOCK FALSE
