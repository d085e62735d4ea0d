SPECIFICATION FairSpec
CONSTANTS
  p0 = p0
  p1 = p1
  p2 = p2
  p3 = p3
  p4 = p4
  Pushers = {p0, p1, p2, p3, p4}
  Streamers = {s1, s2}
  Closers = {c1, c2}
  PktSeq <- Seqs5
  PktLen <- Lens4
  Mixed = FALSE
  MaxPackets = 1
  Free = free
INVARIANTS
  NoSendOnClosedChannel
  NoAcceptedPacketLost
  StreamReaderKept
  HeapAlmostBounded
PROPERTIES
  ImplementsOrderedStream
  AcceptedIsDelivered
CHECK_DEADLOCK FALSE
