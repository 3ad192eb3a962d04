SPECIFICATION FairSpec
CONSTANTS
  MaxCalls = 2
  MaxStreams = 1
  ClientCapacity = 1
  MaxRequests = 1
  DispatchCapacity = 2
  MaxPending = 2
  MaxReplies = 1
  DomainCapacity = 1
  BudgetLimit = 3
  MaxMessages = 1
  Plans <- MCPlans
INVARIANTS
  OneEnd
  OkIsHonest
  SlotsPaired
 
CHECK_DEADLOCK FALSE
