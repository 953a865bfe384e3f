SPECIFICATION Spec
CONSTANTS
  Docs <- NestedDocs
  Names <- MCNames
  Entities <- MCEntities
  Text <- MCText
  Document = "document"
  External <- NoDocs
  SuspendInEntities = TRUE
  MaxResets = 0
INVARIANTS
  AcceptedIsComplete
