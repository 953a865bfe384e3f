SPECIFICATION Spec
CONSTANTS
  Docs <- AllEntityDocs
  Names <- MCNames
  Entities <- MCEntities
  Text <- MCText
  Document = "document"
  External <- NoDocs
  SuspendInEntities = TRUE
  MaxResets = 1
INVARIANTS
  TagsConserved
  EntitiesConserved
PROPERTIES
  ImplementsReader
  AbortReported
