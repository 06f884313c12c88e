SPECIFICATION Spec
CONSTANTS
  Keys = {k1, k2}
  Values = {v1, v2}
  Unset = Unset
  MaxDepth = 2
  MaxSelector = 4
  MaxSearch = 3
INVARIANTS
  LookupFollowsPrecedence
  SelectorsSurviveText
  FoundRowsMatch
  TreesShowAll
  GrantsFollowResources
  ReferencesResolve
  GroupsAddUp
  RunsOwnRuntime
  SearchesAgree
CHECK_DEADLOCK FALSE
