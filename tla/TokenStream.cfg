SPECIFICATION Spec
CONSTANTS
  Namespaces = TRUE
  Scripts <- MCScripts
  MaxAsks = 1
INVARIANTS
  TypeOK
  CutIndependent
  PositionIndependent
  LineEndsNormalized
  AttributesReadBack
  LastCallReadsAll
  LiteralsReadable
  MarkupByGrammar
PROPERTIES
  EveryTokenAdvances
CHECK_DEADLOCK FALSE
