SPECIFICATION Spec
CONSTANTS
  c1 = c1
  Clients = {c1}
  TCP_WINDOW = 3
  RX_SIZE = 6
  TX_SIZE = 4
  BUFFER_SIZE = 2
  MAX_SEGMENT = 2
  SEG_MASK = 3
  NO_FIN = 20
  Windows = {2}
  Scales = {0}
  ReadSizes = {1, 2}
  MaxRx = 3
  MaxTx = 0
  MaxConn = 1
INVARIANT NoIllegalState
CHECK_DEADLOCK FALSE
