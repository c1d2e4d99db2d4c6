SPECIFICATION Spec
CONSTANTS
  c1 = c1
  Clients = {c1}
  TCP_WINDOW = 2
  RX_SIZE = 4
  TX_SIZE = 4
  BUFFER_SIZE = 2
  MAX_SEGMENT = 2
  SEG_MASK = 31
  NO_FIN = 20
  Windows = {0, 3}
  Scales = {0}
  ReadSizes = {1, 2}
  MaxRx = 0
  MaxTx = 5
  MaxConn = 1
INVARIANT SendIntegrity
INVARIANT ClientSeesFinAtEnd
INVARIANT SendWithinLimits
CHECK_DEADLOCK FALSE
