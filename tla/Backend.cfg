CONSTANTS
  NrSlots = 3
  MaxCifs = 20
SPECIFICATION FairSpec
INVARIANTS IInv Deinterleaved
PROPERTIES StreamSpec WaitsEnd
CHECK_DEADLOCK FALSE
