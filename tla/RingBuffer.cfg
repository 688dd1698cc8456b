CONSTANTS
  BufferSize = 4
  MaxChunk = 5
  MaxItems = 14
  FlushWhileWriting = FALSE
SPECIFICATION Spec
INVARIANTS IInv
PROPERTIES StreamSpec
CHECK_DEADLOCK FALSE
