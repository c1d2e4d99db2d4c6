SPECIFICATION EthSpec
CONSTANTS
  RX_END = 8
  NEXT_LENGTH = 1
  STATUS_LENGTH = 1
  PACKET_MAX_SIZE = 2
  BANK_STACK_SIZE = 2
  MAX_EPKTCNT = 3
  ERXRDPT_RESET = 7
  Sizes = {1, 2, 3}
  PacketLengths = {2, 3}
  MaxFrames = 4
  MaxSends = 2
INVARIANT AccessInBank
INVARIANT FramesInOrder
INVARIANT InStep
INVARIANT SentInOrder
CHECK_DEADLOCK FALSE
