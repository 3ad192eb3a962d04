SPECIFICATION FairSpec
CONSTANTS
  Slots = {s1}
  Capacity = 2
  SequenceLimit = 16
  CommandBatch = 2
  ControlBurst = 1
  Types = {"DATA", "WINDOW_UPDATE"}
  StartSequence = 13
  MaxGeneration = 2
  MaxAccepted = 3
  MaxCommands = 1
PROPERTIES
  WireOrder
  NoTransmitLost
  DrainedAfterPredecessors
  ReservedServed
