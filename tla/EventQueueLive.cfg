SPECIFICATION FairSpec
CONSTANTS
  EventIDs = {nil}
  NilID = nil
  NullID = null
  Ids = {i1, i2, i3}
  LegacyIds = {i1}
  SyncConsumers = {s1}
  AsyncConsumers = {a1}
  NumHandlers = 2
  BatchSize = 1
  MaxAttempts = 1
  BaseDelay = 1
  Exponent = 1
  Delays = {0, 1}
  MaxEnqueues = 2
  MaxFaults = 1
PROPERTIES EventsSettle
INVARIANTS IndInv
