CONSTANTS
  channels = 3
  Services = {s1}
  None = None
  MaxPosted = 2
  MaxClicks = 2
  MaxQuits = 1
SPECIFICATION FairSpec
INVARIANTS IInv RightChannel PlaysTuned
PROPERTIES ScanEnds
CHECK_DEADLOCK FALSE
