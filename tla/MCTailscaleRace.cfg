SPECIFICATION TailscaleSpec
CONSTANTS
  web1 = web1  web2 = web2  loop = loop  home = home  other = other
  Callers = {web1, web2}
  Reconcilers = {loop}
  Ids = {home, other}
  NoId = NoId
  Scopes <- MCRace
INVARIANT ClosedWhenOff
CHECK_DEADLOCK FALSE
