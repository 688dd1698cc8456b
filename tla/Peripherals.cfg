SPECIFICATION Spec
CONSTANTS
  Compiled = {"airspy", "sdrplay", "rtlsdr", "hackrf"}
  In = 3
  Out = 2
  Wrap = 7
  MaxStarts = 2
  MaxRing = 3
  numofDevices = 3
  Supported = {0, 2}
  Default = 2
  Limit = 2
  MaxFrames = 5
INVARIANTS IInv OnlyTuned EvenlyResampled HaltedByThen HeardRight
PROPERTIES CloseEnds
CHECK_DEADLOCK FALSE
