CONSTANTS
  mediamtx = mediamtx
  monitor = monitor
  Order <- MCOrder
  Monitor = monitor
  Requests = {r1, r2}
  r1 = r1
  r2 = r2
  Free = Free
  Probed = {mediamtx}
  Slow = {"terminate"}
  Limit = 2
  MaxExits = 2
  MaxFaults = 1
SPECIFICATION FairSpec
INVARIANTS
  OneProcessPerChild
  OffMeansOff
  HealthIsHonest
  LoopChildrenStopped
PROPERTIES
  KeptUp
  StopCompletes
CHECK_DEADLOCK FALSE
