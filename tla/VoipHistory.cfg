SPECIFICATION HSpec
CONSTANTS
  k1 = k1
  None = None
  Rooms = {r1, r2, r3}
  CallIds <- MCCallIds
  Scenarios <- HistoryScenarios
  GenMod = 3
  ClosedSlots = 2
  QueueCap = 1
  RtcCap = 1
SYMMETRY RoomSymmetry
PROPERTIES RoomNotRetaken NothingRevokedReturns
