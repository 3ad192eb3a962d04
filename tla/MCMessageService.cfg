SPECIFICATION ServiceSpec
CONSTANTS
  Workers = {w1, w2}
  Tasks = {t1, t2, t3}
  NoTask = NoTask
  TaskCapacity = 2
  MaxTaskGeneration = 2
  Limits = {1, 2}
  JobTasks = {t1, t2}
  DispatchLimit = 1
  MaxFaults = 2
INVARIANTS
  DeliveredExactly
  ServiceSound
PROPERTIES
  ImplementsContract
  ServiceFinishes
