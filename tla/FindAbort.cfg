SPECIFICATION Spec
CONSTANTS
  Docs <- CdataDocs
  Names <- MCNames
  Entities <- MCEntities
  Text <- MCText
  Document = "document"
  External <- NoDocs
  SuspendInEntities = FALSE
  MaxResets = 0
PROPERTIES
  AbortReported
