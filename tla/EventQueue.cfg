SPECIFICATION Spec
CONSTANTS
  EventIDs = {nil, e1}
  NilID = nil
  NullID = null
  Ids = {i1, i2, i3, i4}
  LegacyIds = {}
  SyncConsumers = {s1}
  AsyncConsumers = {a1}
  NumHandlers = 1
  BatchSize = 2
  MaxAttempts = 1
  BaseDelay = 1
  Exponent = 1
  Delays = {0}
  MaxEnqueues = 2
  MaxFaults = 1
SYMMETRY Symmetry
INVARIANTS NoConcurrentHandling
PROPERTIES ImplementsWorkQueue AttemptsNotForgotten
