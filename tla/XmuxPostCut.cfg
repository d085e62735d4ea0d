SPECIFICATION Spec
CONSTANTS
  Clients = {x1, x2, x3, x4}
  Dials = {d1, d2}
  Resetters = {}
  Null = null
  Mode = "packet-up"
  Concurrency = 0
  Connections = 0
  CMaxReuseTimes = 2
  HMaxRequestTimes = 2
  Expires = FALSE
  MaxPosts = 2
  Errors = FALSE
  SlowClose = FALSE
SYMMETRY Symmetry
PROPERTY
  NoCloseUnderPost
CHECK_DEADLOCK FALSE
