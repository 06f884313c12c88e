SPECIFICATION FairSpec
CONSTANTS
  Items <- MCItems
  TableOf <- MCTableOf
  Parents <- MCParents
  Tables <- MCTables
  Groups <- MCGroups
  Explained = {"components", "checks"}
  Repaired = {"components", "checks", "checks_unlogged"}
  Carried = {"components", "checks", "checks_unlogged"}
  RunOnlys <- MCRunOnlys
  BatchSize = 2
  MaxWrites = 4
  MaxPurges = 1
  MaxFaults = 1
INVARIANTS MarkedArePresent OnlyRacedAreStale
PROPERTY UnpushedArrive
