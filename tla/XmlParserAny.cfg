SPECIFICATION FairSpec
CONSTANTS
  Docs <- AnyDocs
  Names <- MCNames
  Entities <- MCEntities
  Text <- MCText
  Document = "document"
  External <- AnyExternalDocs
  SuspendInEntities = TRUE
  MaxResets = 0
INVARIANTS
  TypeOK
  IndInv
  HeldRecordsAreListed
PROPERTIES
  ErrorIsFinal
  CallReturns
  Decided
CHECK_DEADLOCK FALSE
