SPECIFICATION Spec
CONSTANTS
  GPIOS = {7, 8, 9, 10, 11, 25}
  MOSI = 10
  MISO = 9
  SCK = 11
  CS = 8
  INT = 25
  Before <- SomeBefore
  MaxOpens = 3
  Addresses <- SomeAddresses
  CELLS = 2
  Calls <- SomeCalls
  MaxCalls = 2
PROPERTY ImplementsRegisterFile
INVARIANT RootReleased
INVARIANT PinsDirected
CHECK_DEADLOCK FALSE
