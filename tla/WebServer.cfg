SPECIFICATION WebSpec
CONSTANTS
  c1 = c1
  Clients = {c1}
  TCP_WINDOW = 1
  RX_SIZE = 2
  TX_SIZE = 2
  BUFFER_SIZE = 1
  MAX_SEGMENT = 1
  SEG_MASK = 31
  NO_FIN = 20
  Windows = {1}
  Scales = {0}
  ReadSizes = {1, 2, 3}
  MaxRx = 3
  MaxTx = 3
  MaxConn = 2
  Requests <- AllRequests
  MAX_SIZE = 3
  MESSAGE = 1
  FILE_SIZE = 2
  FILE_CHUNK = 1
  DRAIN = 1
INVARIANT WebTypeOK
INVARIANT SavedIsComplete
INVARIANT OpensFreshConnection
INVARIANT ShutdownAfterAnswer
INVARIANT UploadFits
CHECK_DEADLOCK FALSE
