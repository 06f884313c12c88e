\* See MCServer for the instances of the four parts.
CONSTANTS
  Requests = {q1, q2}
  Names = {"a1", "a2"}
  TableOf <- MCTableOf
  ParentsOf <- MCParentsOf
  Pushes <- MCPushes
  SaveRetries = 0
  Retention = 2
  MaxAgents = 2
  MaxCalls = 3
  Replicas = {p1, p2}
  Refreshers = {f1, f2}
  Columns <- MCColumns
  MaxMishaps = 3
  Keys = {"k1", "k2"}
  Prints = {"f1", "f2"}
  Values = {"v1", "v2"}
  MaxRefreshes = 2
  MaxFailures = 1
  Runs = {"parent", "child", "other"}
  Parent <- MCParent
  Notified = {"child"}
  Fallback = TRUE
  MaxActions <- MCMaxActions
  MaxFaults = 1
SPECIFICATION Spec
SYMMETRY Symmetry
INVARIANTS
  AnsweredAreStored
  EvictedAreOld
  SyncedAsWanted
  RefreshedIsRead
  PushedAreThere
  LastChildResumes
  FailedFallBack
CHECK_DEADLOCK FALSE
