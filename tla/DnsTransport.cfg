SPECIFICATION LiveSpec
CONSTANTS
  Callers = {p1, p2}
  Transports <- MCTransports
  MaxInflight = 1
  MaxDials = 2
  MaxStates = 3
INVARIANTS
  NoConnLost
  ExclusiveUse
  ClaimedOnce
  AnswerIsOwn
PROPERTIES
  OldStateUntouched
  ErrorsAreOwn
  UsesPool
  ExchangesEnd
CHECK_DEADLOCK FALSE
