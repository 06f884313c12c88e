SPECIFICATION FairSpec
CONSTANTS
  Runs = {1, 2, 3}
  Success = 1
  Failed = 0
  Singleton = TRUE
  Concurrent = FALSE
  Capacity = 2
  BatchSize = 2
  Outcomes = {"SUCCESS", "FAILED"}
  Old = {1}
  MaxFaults = 1
INVARIANT RetentionIsExact
PROPERTY EvictionGoesOn
CHECK_DEADLOCK FALSE
