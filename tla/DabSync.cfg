CONSTANTS
  T_null = 2
  T_g = 1
  T_u = 2
  nrBlocks = 2
  Capacity = 3
  Threshold = 1
  Chunk = 2
  WarmUp = 2
  Slack = 1
  MaxLost = 1
  MaxStops = 1
SPECIFICATION FairSpec
INVARIANTS IInv BlocksAligned StaysLocked NoFalseAlarm
PROPERTIES ScanAnswered ThreadEnds
