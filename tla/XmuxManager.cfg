SPECIFICATION Spec
CONSTANTS
  Clients = {x1, x2}
  Dials = {d1, d2}
  Resetters = {r1}
  Null = null
  Mode = "packet-up"
  Concurrency = 0
  Connections = 0
  CMaxReuseTimes = 3
  HMaxRequestTimes = 2
  Expires = TRUE
  MaxPosts = 2
  Errors = TRUE
  SlowClose = FALSE
SYMMETRY Symmetry
INVARIANTS
  Accounted
  ClosedOnce
  NoStreamOnReaped
PROPERTY
  ReapsNoBusyClient
CHECK_DEADLOCK FALSE
