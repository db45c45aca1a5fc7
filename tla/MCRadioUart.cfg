SPECIFICATION Spec
CONSTANTS
  ReceiveBufferLen = 4
  MAX_MESSAGE_BYTES = 4
  NoByte = NoByte
INVARIANTS TypeOK ReportsAreTrue
PROPERTIES ImplementsByteQueue BoundariesAgree
