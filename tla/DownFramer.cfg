SPECIFICATION FrameLiveSpec
CONSTANTS
  Base = 4
  MaxRecord = 3
  MaxWrite = 4
  PadLens = {0, 4}
  Intervals = {1, 2}
  BufLens = {1, 3}
  HeaderCut = FALSE
  MaxWire = 6
INVARIANTS
  DeliveredIsPrefix
  CleanEndIsWhole
  SilenceBounded
PROPERTY
  AllDelivered
CHECK_DEADLOCK FALSE
