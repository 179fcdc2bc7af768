SPECIFICATION FairGateway
CONSTANTS
  web1 = web1  web2 = web2  lan = lan  wifi = wifi
  v1 = v1  v2 = v2
  Addresses = {lan, wifi}
  None = None
  Requests = {web1, web2}
  StageSeconds = 0
  MaxTime = 1
  MaxCalls = 4
  MaxMoves = 1
  MaxRestarts = 1
  MaxFaults = 1
  Loopback = Loopback
  Viewers = {v1, v2}
  HlsLimit = 1
  MaxAsks = 2
  MaxBeside = 1
  MaxOutages = 2
INVARIANTS ListenerJustified SlotsAccounted
PROPERTY SlotsComeBack
CHECK_DEADLOCK FALSE
