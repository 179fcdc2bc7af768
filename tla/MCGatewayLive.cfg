SPECIFICATION GatewaySpec
CONSTANTS
  web1 = web1  web2 = web2  lan = lan  wifi = wifi
  v1 = v1  v2 = v2
  Addresses = {lan, wifi}
  None = None
  Requests = {web1}
  StageSeconds = 1
  MaxTime = 0
  MaxCalls = 5
  MaxMoves = 0
  MaxRestarts = 0
  MaxFaults = 0
  Loopback = Loopback
  Viewers = {v1, v2}
  HlsLimit = 1
  MaxAsks = 3
  MaxBeside = 3
  MaxOutages = 2
INVARIANT LiveViewServed
CHECK_DEADLOCK FALSE
