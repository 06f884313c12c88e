\* Rows of a view that are pushed again, after a lost answer or once they are new again.
CONSTANTS
  Requests = {q1}
  Names = {"a1", "a2"}
  TableOf <- MCTableOf
  ParentsOf <- MCParentsOf
  Pushes <- MCPushes
  SaveRetries = 0
  Retention = 2
  MaxAgents = 2
  MaxCalls = 3
  Replicas = {p1}
  Refreshers = {f1, f2}
  Columns <- MCColumns
  MaxMishaps = 3
  Keys = {"k1", "k2"}
  Prints = {"f1", "f2"}
  Values = {"v1", "v2"}
  MaxRefreshes = 2
  MaxFailures = 1
  Runs = {"parent", "child", "other"}
  Parent <- MCParent
  Notified = {"child"}
  Fallback = TRUE
  MaxActions <- MCMaxActions
  MaxFaults = 1
SPECIFICATION Spec
INVARIANT PushedAgainIsTaken
CHECK_DEADLOCK FALSE
