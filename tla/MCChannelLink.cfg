SPECIFICATION FairSpec
CONSTANTS
  Conns = {1, 2, 3, 4}
  PingIds = 2
  AttemptCap = 2
  Plans <- MCPlans
INVARIANTS
  HandshakeSound
  ReconnectDriven
  TornDown
  KeepaliveHonest
PROPERTIES
  LinkSettles
CHECK_DEADLOCK FALSE
