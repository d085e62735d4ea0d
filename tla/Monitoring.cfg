SPECIFICATION MonitorLiveSpec
CONSTANTS
  a = a
  b = b
  w1 = w1
  w2 = w2
  Setups <- MCSetups
  PriorityCap = 4
  NormalCap = 4
  ReadyLimit = 2
PROPERTIES
  CycleEnds
  MarkedIsTested
  Answered
CHECK_DEADLOCK FALSE
