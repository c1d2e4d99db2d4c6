SPECIFICATION FairLinkSpec
CONSTANTS
  c1 = c1
  Clients = {c1}
  TCP_WINDOW = 2
  RX_SIZE = 4
  TX_SIZE = 4
  BUFFER_SIZE = 2
  MAX_SEGMENT = 1
  SEG_MASK = 31
  NO_FIN = 20
  Windows = {0, 1, 2}
  Scales = {0}
  ReadSizes = {1, 2, 3}
  MaxRx = 2
  MaxTx = 3
  MaxConn = 1
  Requests <- LinkRequests
  MAX_SIZE = 3
  MESSAGE = 1
  FILE_SIZE = 2
  FILE_CHUNK = 1
  DRAIN = 2
  Reliable = {"synack", "window"}
  POLL_LIMIT = 2
  CLIENT_BUFFER = 2
INVARIANT CompleteMeansArrived
PROPERTY WebSpec
PROPERTY AnswerArrives
PROPERTY ServerFreed
PROPERTY PollReturns
CHECK_DEADLOCK FALSE
