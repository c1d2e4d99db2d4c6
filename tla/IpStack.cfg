SPECIFICATION Spec
CONSTANTS
  Frames <- SomeFrames
  Clients <- AtStart
  local_mac <- LocalMac
  ip_addr <- LocalIp
  MAX_SEGMENT = 1400
  MaxPackets = 2
  MaxOptions = 3
  MAX_SCALE = 14
  Outgoing <- SomeOutgoing
INVARIANT EachAnswered
INVARIANT SentVerifies
INVARIANT SegmentsExact
INVARIANT SynAgrees
PROPERTY WithinOptions
PROPERTY ScanEnds
CHECK_DEADLOCK FALSE
