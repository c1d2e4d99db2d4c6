SPECIFICATION Spec
CONSTANTS
  CR = CR
  LF = LF
  NUL = NUL
  SPACE = SPACE
  SLASH = SLASH
  QUOTE = QUOTE
  SEMI = SEMI
  GET = GET
  POST = POST
  CONTENT_LENGTH = CONTENT_LENGTH
  CONTENT_TYPE = CONTENT_TYPE
  BOUNDARY = BOUNDARY
  DISPOSITION = DISPOSITION
  FILENAME_IS = FILENAME_IS
  DASH = DASH
  b = b
  x = x
  n = n
  m = m
  Requests <- TextRequests
  NameBytes <- NamesServed
  Started <- Lists
  SCAN_LIMIT = 40
  Options <- UserOptions
  Addresses <- GoodAddresses
  SizeOf <- Sizes
  MaxOptions = 3
  DEFAULT_IP = "169.254.18.52"
  DEFAULT_SIZE = 60
  SIZE_LIMIT = 134217728
  NO_NAME = ""
  MAX_FAILS = 5
  MaxFile = 3
INVARIANT HeaderExact
INVARIANT UploadRoundTrip
INVARIANT LinkServesFile
INVARIANT NoMutualWait
INVARIANT UsageHolds
CHECK_DEADLOCK FALSE
