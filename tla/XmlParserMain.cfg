SPECIFICATION Spec
CONSTANTS
  Docs <- AllMainDocs
  Names <- MCNames
  Entities <- MCEntities
  Text <- MCText
  Document = "document"
  External <- ExternalDocs
  SuspendInEntities = FALSE
  MaxResets = 0
INVARIANTS
  TagLevelCountsStack
  RawNamesStored
  OpenFlagsMatchList
PROPERTIES
  ImplementsReader
