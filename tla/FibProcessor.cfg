SPECIFICATION FairSpec
CONSTANTS
  Slots = 3
  SubChIds = {0, 1, 2}
  Channel = {"5A", "5B"}
  Broadcast <- MCBroadcast
  carriers = 1536
  MaxComps = 3
  None = None
  First = "5A"
  MaxFibs = 1
  MaxPosted = 2
  MaxTunes = 1
INVARIANTS IInv DatabaseOfTuned NoOverrun QueriesRight FicWhole
PROPERTIES AllFound
