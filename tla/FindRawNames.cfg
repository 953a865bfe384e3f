SPECIFICATION Spec
CONSTANTS
  Docs <- RawNameDocs
  Names <- MCNames
  Entities <- MCEntities
  Text <- MCText
  Document = "document"
  External <- NoDocs
  SuspendInEntities = TRUE
  MaxResets = 0
INVARIANTS
  RawNamesStored
