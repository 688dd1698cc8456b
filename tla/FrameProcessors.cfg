SPECIFICATION ProcessorsSpec
CONSTANTS
  Ones = 3
  Header = 6
  Bodies <- MCBodies
  Noise <- MCNoise
  Rates = {48000, 24000}
  Period = 2
  num_aus = 3
  MaxAac = 0
  Carousel <- MCCarousel
  TableSize = 1
  packetAddress = 5
  Padding = TRUE
  MaxBad = 3
  Scripts <- MCScripts
  PadGroups <- MCPadGroups
  Texts <- MCTexts
  MaxLost = 2
INVARIANTS ProcessorsInv AudioFrames ObjectsWhole LabelsWhole
PROPERTIES AllArrive
