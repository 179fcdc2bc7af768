SPECIFICATION Spec
CONSTANTS
  u1 = u1  u2 = u2  u3 = u3  c1 = c1  c2 = c2  s1 = s1  s2 = s2  t1 = t1  t2 = t2  t3 = t3
  Users = {u1, u2, u3}
  Threads = {t1, t2, t3}
  Codes = {c1, c2}
  Sessions = {s1, s2}
  None = None
  Origins <- MCOrigins
  IdleSeconds = 3
  AbsoluteSeconds = 5
  CoalesceSeconds = 2
  BootstrapSeconds = 1
  InvitationSeconds = 1
  AttemptSeconds = 2
  AttemptLimit = 1
  Scopes <- MCScopes
SYMMETRY Symmetry
INVARIANTS OwnerRemains CodesAdmitOne FailuresBounded UseKeepsAlive OriginStaysRevoked
PROPERTY PriorSessionsOut
CHECK_DEADLOCK FALSE
