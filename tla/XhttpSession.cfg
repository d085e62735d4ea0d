SPECIFICATION LiveSpec
CONSTANTS
  Sessions = {s1, s2}
  Posts = {p1, p2}
  Gets = {g1}
  None = none
  MaxPackets = 1
  ReaderStops = TRUE
INVARIANTS
  OneSession
  DeletedIsClosed
PROPERTY
  SessionsEnd
CHECK_DEADLOCK FALSE
