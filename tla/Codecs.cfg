CONSTANTS
  symsize = 4
  gfpoly <- MCgfpoly
  fcr = 0
  nroots = 4
  cutlen = 3
  blockLength = 8
  Messages <- MCMessages
  Errors <- MCErrors
  Blocks <- MCBlocks
  MaxFlipped = 2
  MaxSize = 48
  None = None
SPECIFICATION Spec
INVARIANTS Corrected TablesExact
CHECK_DEADLOCK FALSE
