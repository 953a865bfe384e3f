SPECIFICATION Spec
CONSTANTS
  a = a
  b = b
  Tokens <- Grouping
  Elements <- MCElements
  NameLength <- MCNameLength
  InitGroupSize = 2
  InitScaffoldSize = 1
  MaxTokens = 12
  MaxResets = 0
INVARIANTS
  ModelAsDeclared
  RefusedForSyntax
  IndexesInBounds
