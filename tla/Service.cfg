\* See MCService for the two parts.
CONSTANTS
  Routes = {"check", "config"}
  Subscribers = {"c1", "c2", "c3"}
  RoutesOf <- MCRoutesOf
  Size <- MCSize
  NoBuffer <- MCNoBuffer
  MaxDuration = 1
  MaxInserts = 2
  MaxLosses = 1
  Replicas = {"r1", "r2"}
  NoOne = "none"
  MaxTerms = 2
  MaxFaults = 1
SPECIFICATION ServiceSpec
INVARIANTS
  NoLostWakeup
  OneScheduler
PROPERTIES
  EventsConsumed
  LeadershipReturns
CHECK_DEADLOCK FALSE
