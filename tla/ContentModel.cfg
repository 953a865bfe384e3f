SPECIFICATION Spec
CONSTANTS
  a = a
  b = b
  Tokens <- EveryKind
  Elements <- MCElements
  NameLength <- MCNameLength
  InitGroupSize = 2
  InitScaffoldSize = 1
  MaxTokens = 6
  MaxResets = 1
INVARIANTS
  ModelAsDeclared
  RefusedForSyntax
  TypeOK
  IndexesInBounds
