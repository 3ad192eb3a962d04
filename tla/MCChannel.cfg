SPECIFICATION FairSpec
CONSTANTS
  ClientStreams = 2
  ServerStreams = 1
  Window = 2
  Threshold = 2
  MaxMessage = 2
  MaxFrame = 1
  MaxOpens = 1
  Plans <- MCPlans
INVARIANTS
  CreditConserved
  NoOrphanStream
PROPERTIES
  DrainBoundary
  ExchangesEnd
CHECK_DEADLOCK FALSE
