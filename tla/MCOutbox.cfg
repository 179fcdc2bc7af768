CONSTANTS
  Events = {1, 2}
  w1 = w1
  w2 = w2
  Workers = {w1, w2}
  NoJob = NoJob
  Configs <- MCConfigs
  NoConfig = NoConfig
  MaxAttempts = 2
  BackoffCap = 300
  Delays = {0, 1}
  CompactAge = 0
  MaxTime = 0
  MaxCrashes = 1
SPECIFICATION FairSpec
INVARIANTS
  EventJobAgree
  OneHolder
  EffectsBounded
  OneLossPerCrash
PROPERTIES
  RefinesDelivery
  EverySettled
CHECK_DEADLOCK FALSE
