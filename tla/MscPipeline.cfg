CONSTANTS
  NrBlocks = 6
  FirstMscBlock = 4
  BlocksPerCif = 2
  MaxFrames = 6
SPECIFICATION FairSpec
INVARIANTS IInv CoherentAtFirst
PROPERTIES BothProceed
CHECK_DEADLOCK FALSE
