CONSTANTS
  NrBlocks = 6
  FirstMscBlock = 4
  BlocksPerCif = 2
  MaxFrames = 6
SPECIFICATION Spec
INVARIANTS AlwaysCoherent
CHECK_DEADLOCK FALSE
