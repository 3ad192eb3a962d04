SPECIFICATION ServerSpec
CONSTANTS
  MaxShards = 2
  MaxPeers = 2
  HandshakeTimeout = 1
  MaxAccepts = 2
  MaxDrains = 1
  CompletionLimit = 1
  MaxFaults = 2
INVARIANTS
  ServerSound
PROPERTIES
  DrainHonest
  ServerSettles
