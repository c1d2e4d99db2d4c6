SPECIFICATION Spec
CONSTANTS
  c1 = c1
  Clients = {c1}
  TCP_WINDOW = 3
  RX_SIZE = 6
  TX_SIZE = 4
  BUFFER_SIZE = 2
  MAX_SEGMENT = 2
  SEG_MASK = 2
  NO_FIN = 11
  Windows = {2}
  Scales = {0}
  ReadSizes = {1, 2}
  MaxRx = 7
  MaxTx = 0
  MaxConn = 1
INVARIANT TypeOK
INVARIANT ReadIntegrity
INVARIANT WindowSound
INVARIANT EofComplete
CHECK_DEADLOCK FALSE
