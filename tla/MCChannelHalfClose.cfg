SPECIFICATION Spec
CONSTANTS
  ClientStreams = 1
  ServerStreams = 1
  Window = 1
  Threshold = 1
  MaxMessage = 1
  MaxFrame = 1
  MaxOpens = 1
  Plans <- MCHalfClosePlans
INVARIANT NoProtocolError
CHECK_DEADLOCK FALSE
