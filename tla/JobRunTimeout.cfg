SPECIFICATION HangingSpec
CONSTANTS
  Runs <- MCRuns
  Jobs <- MCJobs
  Config <- MCConfig
  Semaphores <- MCSemaphores
  Permits <- MCPermits
  MaxCounts = 0
  MaxFaults = 0
PROPERTY TimedRunsEnd
CHECK_DEADLOCK FALSE
