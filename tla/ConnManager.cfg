SPECIFICATION LiveSpec
CONSTANTS
  Loads <- MCLoads
  DialCap = 2
  Budget = 1
  Threshold = 2
INVARIANT
  OnCloseOnce
PROPERTIES
  DegradedAdmission
  HealthFollowsServer
  RelayEnds
