SPECIFICATION LiveTailscale
CONSTANTS
  web1 = web1  web2 = web2  loop = loop  home = home  other = other
  Callers = {web1, web2}
  Reconcilers = {loop}
  Ids = {home, other}
  NoId = NoId
  Scopes <- MCScopes
INVARIANT AloneClosedWhenOff
PROPERTIES UserMappingKept DisableEndsAccess DriftCloses
CHECK_DEADLOCK FALSE
