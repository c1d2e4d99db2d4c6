SPECIFICATION Spec
CONSTANTS
  c1 = c1
  c2 = c2
  Clients = {c1, c2}
  TCP_WINDOW = 1
  RX_SIZE = 2
  TX_SIZE = 2
  BUFFER_SIZE = 1
  MAX_SEGMENT = 1
  SEG_MASK = 31
  NO_FIN = 20
  Windows = {1}
  Scales = {0, 1}
  ReadSizes = {1}
  MaxRx = 1
  MaxTx = 3
  MaxConn = 2
SYMMETRY ClientSymmetry
INVARIANT WriteHoldsConnection
PROPERTY ResetIsFinal
PROPERTY ImplementsByteStream
CHECK_DEADLOCK FALSE
