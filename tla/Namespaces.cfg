CONSTANTS
  PrefixTable <- MCPrefixTable
  Elements <- MCElements
  Defaults <- MCDefaults
  AttLists <- MCAttLists
  Triplets = TRUE
  Length <- MCLength
  Hash <- MCHash
  ExpandSpare = 4
  InitAttsVersion = 2
  MaxTags = 4
  MaxDepth = 2
  MaxOuter = 1
  MaxResets = 1
SPECIFICATION Spec
INVARIANTS TypeOK OpenNamesLive
PROPERTIES BindingsConserved ImplementsScopes
VIEW StateView
CHECK_DEADLOCK FALSE
