\* One connection, and one request whose credentials the cluster refuses.
CONSTANTS
  Conns = {"ref"}
  Namespaces = {"a"}
  Requests = {"r1"}
  Expiry = 3
  Buffer = 1
  ReadTTL = 1
  MaxTokens = 2
SPECIFICATION Spec
INVARIANT RefusedAreRotated
CHECK_DEADLOCK FALSE
