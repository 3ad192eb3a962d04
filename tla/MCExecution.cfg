SPECIFICATION MCSpec
CONSTANTS
  TimerCapacity = 6
  MaxTime = 2
  VersionLimit = 4
  GenerationLimit = 4
  MaxNested = 2
  Threads = {t1, t2, t3}
  Pools = {p1, p2}
  Root = Root
  BufferCount = 2
  MaxSize = 2
  RootLimit = 7
  ChildLimit = 5
  MaxAcquires = 4
SYMMETRY MCSymmetry
VIEW MCView
INVARIANTS
  HeapSound
  BudgetExact
PROPERTIES
  ImplementsContract
