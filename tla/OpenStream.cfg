SPECIFICATION FairSpec
CONSTANTS
  Readers = {r1, r2}
  Closers = {c1, c2}
  Resp = resp
  None = none
  MaxAttempts = 2
INVARIANTS
  BodyClosedExactlyOnce
  DeadClientIsMarked
  ClosedPipeMeansClose
PROPERTIES
  OpenStreamReturns
CHECK_DEADLOCK FALSE
