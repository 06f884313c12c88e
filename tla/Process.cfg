CONSTANTS
  Callers = {c1, c2}
  Objects = {"scraper", "topology"}
  Name <- MCName
  NoObject = "none"
  TTL = 2
  MaxVersion = 2
  MaxFaults = 1
  Replicas = {p1, p2}
  Subjects = {"alice"}
  Expiry = 1
  Reload = 2
  MaxTime = 6
  MaxChanges = 2
  MaxFailures = 1
  Namespaces = {a, b}
  Order <- MCOrder
  DependsOn <- MCDependsOn
  Drops <- MCDrops
  Always = {"037_notification_group_resources"}
  Skip = {}
  MaxAborts = 2
  Hooks = {"lease", "gops", "crons", "nil", "postgres"}
  Priority <- MCPriority
  Nil = {"nil"}
  Exits = {"signal", "start", "main"}
  Exiting = {"start", "main"}
  Conns = {"ref"}
  Requests = {"r1"}
  ClientExpiry = 3
  Buffer = 1
  ReadTTL = 1
  MaxTokens = 2
  Runs = {"main", "feature", "local"}
  URL <- MCURL
  Branch <- MCBranch
  Uses <- MCUses
SPECIFICATION ProcessSpec
SYMMETRY Symmetry
INVARIANTS
  MigratedAreCurrent
  HooksRunFirst
  OutdatedForTwoTTLs
  OwnUpdatesSeen
  AnswersAreRecent
  TokensAreOwnAndRecent
  ShellRunsApart
CHECK_DEADLOCK FALSE
