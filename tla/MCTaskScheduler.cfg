CONSTANTS
  t1 = t1
  t2 = t2
  t3 = t3
  t4 = t4
  Tasks <- MCTasks
  MaxConcurrent = 2
  Capacity = 3
SPECIFICATION Spec
INVARIANTS
  TypeOK
  PermitsConserved
  WithinCapacity
  QueueIsWaiting
PROPERTIES
  EveryTaskEnds
  ShutdownEnds
