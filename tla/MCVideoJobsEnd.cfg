CONSTANTS
  j1 = j1
  j2 = j2
  j3 = j3
  d1 = d1
  d2 = d2
  None = None
  Jobs <- TwoJobs
  Deletes <- NoDelete
  MaxConcurrent = 1
  Capacity = 2
SPECIFICATION Spec
PROPERTIES
  EveryJobEnds
  ShutdownEnds
