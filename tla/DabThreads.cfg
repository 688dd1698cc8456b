CONSTANTS
  NrBlocks = 3
  MaxCalls = 4
SPECIFICATION FairThreads
INVARIANTS ThreadsInv
PROPERTIES WaitsEnd
CHECK_DEADLOCK FALSE
