SPECIFICATION Spec
CONSTANTS
  Docs <- PrologDocs
  Names <- MCNames
  Entities <- MCEntities
  Text <- MCText
  Document = "document"
  External <- NoDocs
  SuspendInEntities = FALSE
  MaxResets = 0
PROPERTIES
  EmptyFinalNeverSuspends
