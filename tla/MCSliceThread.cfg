\* Three workers at most, two batches of 1 or 3 jobs.
SPECIFICATION Spec
CONSTANTS
  Requests <- const_Requests
  CpuCounts <- const_CpuCounts
  JobCounts <- const_JobCounts
  MaxWorkers = 3
  MaxBatches = 2
INVARIANTS
  TypeOK
  DoneMeansOver
  NoMissedWakeup
  TeardownAfterExit
PROPERTIES
  CountersReusedWhenIdle
  FreeTerminates
  ImplementsParallelFor
