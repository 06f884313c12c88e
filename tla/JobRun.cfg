SPECIFICATION FairSpec
CONSTANTS
  Runs <- MCRuns
  Jobs <- MCJobs
  Config <- MCConfig
  Semaphores <- MCSemaphores
  Permits <- MCPermits
  MaxCounts = 1
  MaxFaults = 1
INVARIANTS SingletonsExclusive RunsAccountedFor
PROPERTY RunsSettle
CHECK_DEADLOCK FALSE
