SPECIFICATION FairSpec
CONSTANTS
  Threads = {t1, t2, t3}
  First = t1
  DomainCapacity = 1
  BudgetLimit = 3
  MaxPublished = 4
INVARIANTS LedgerExact DeliveredInOrder NoSleeperForgotten
PROPERTY FinalLeaves
CHECK_DEADLOCK FALSE
