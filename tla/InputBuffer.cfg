SPECIFICATION Spec
CONSTANTS
  ContextBytes = 2
  InitBufferSize = 1
  IntMax = 11
  MaxLen = 5
  MaxInput = 8
  MaxResets = 1
INVARIANTS
  TypeOK
  BufferHoldsInput
  RoomGranted
  ContextKept
  EventLocated
PROPERTIES
  ImplementsByteStream
CHECK_DEADLOCK FALSE
