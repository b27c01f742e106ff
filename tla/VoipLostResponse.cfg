SPECIFICATION FairSpec
CONSTANTS
  r1 = r1
  r2 = r2
  k1 = k1
  None = None
  Rooms <- MCRooms
  CallIds <- MCCallIds
  Scenarios <- LossScenarios
  GenMod = 3
  ClosedSlots = 1
  QueueCap = 1
  RtcCap = 1
PROPERTY ClosingEnds
