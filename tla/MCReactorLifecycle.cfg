SPECIFICATION FairSpec
CONSTANTS
  Callers = {c1, c2}
  Senders = {s1}
  Workers = {w1, w2}
  Controller = Controller
  Owner = Owner
  NoThread = NoThread
  Capacity = 1
  CompletionCapacity = 1
  SequenceLimit = 64
  CommandBatch = 1
  CompletionBatch = 1
  MaxRounds = 2
  MaxCalls = 1
  MaxNested = 1
  Casts = {{c1, c2}, {w1, w2}, {c1, s1}, {c1, w1}, {s1, w1}}
INVARIANTS
  NoDanglingSync
  NoLostWakeup
  RoundIsolation
  StoppedCallExcludesOwner
PROPERTY OperationsReturn
